------------------------- MODULE MCLabVerification --------------------------
(* Two actions on the one account, and a check that spans both.            *)
EXTENDS LabVerification, TLC

CONSTANTS a1, a2, k1, k2

MCActions  == {a1, a2}
MCKeys     == {k1, k2}
LabConfigs == {[mode |-> "lab", url |-> "lab"]}
MCMinutes  == {1}
MCSymmetry == Permutations(MCActions) \cup Permutations(MCKeys)
=============================================================================
