------------------------- MODULE MCIdentityResponse -------------------------
(* Two actions, two keys, one approval lifetime, a process that may come   *)
(* back in simulation mode or pointed at a different laboratory origin.    *)
EXTENDS IdentityResponse, TLC

CONSTANTS a1, a2, k1, k2

MCActions == {a1, a2}
MCKeys    == {k1, k2}
MCConfigs == {[mode |-> "lab", url |-> "lab"],
              [mode |-> "lab", url |-> "other"],
              [mode |-> "simulation", url |-> "lab"]}
MCMinutes == {1}

MCSymmetry == Permutations(MCActions) \cup Permutations(MCKeys)
=============================================================================
