------------------------- MODULE MCHostVerification -------------------------
(* Two actions against a host that is restarted once and whose workload is *)
(* restarted more often than that, and one check.                          *)
EXTENDS LiveHostRun, TLC

CONSTANTS a1, a2, k1, k2

MCActions  == {a1, a2}
MCKeys     == {k1, k2}
MCConfigs  == {[mode |-> "host_lab", url |-> "host"]}
(* The clock ticks once: an approval lapses at the tick.                   *)
MCMinutes  == {0}
MCSymmetry == Permutations(MCActions) \cup Permutations(MCKeys)

(* Either anybody calls the services, or the script alone does.            *)
MCVars == <<allVars, live>>

MCInit == VerifyInit /\ live \in {NoLive, LiveStart}

(* Time matters to an approval that has not been used yet, and the clock   *)
(* only ticks while there is one; it does not matter to the check.         *)
AnyCaller ==
  /\ ~Driven
  /\ VerifyNext
  /\ now' # now => \E a \in Actions : Proposed(a) /\ LastStatus(a) = "approved"
  /\ check' # NoCheck => now' = 0
  /\ UNCHANGED live

(* The script has ended and its stack is stopped.                          *)
Ended == (Doing("passed") \/ Doing("failed")) /\ UNCHANGED MCVars

MCNext == Ended \/ AnyCaller \/ LiveScript \/ LiveWorld
MCSpec == MCInit /\ [][MCNext]_MCVars
=============================================================================
