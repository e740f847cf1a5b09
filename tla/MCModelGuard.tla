---------------------------- MODULE MCModelGuard ----------------------------
(* Five requests, of which the run allows three in all, two at a time and  *)
(* one of the leader's.  The leader's reserve two tokens of each kind, the *)
(* worker's one; the provider reports less, as much, or more.              *)
EXTENDS ModelGuard, TLC

CONSTANTS r1, r2, r3, r4, r5, leader, worker

MCRequests == {r1, r2, r3, r4, r5}
MCRoles    == {leader, worker}
MCRoleOf   == [r \in Requests |-> IF r \in {r1, r2} THEN leader ELSE worker]
MCReservation ==
  [r \in Requests |-> [k \in {"input", "output"} |-> IF r \in {r1, r2} THEN 2 ELSE 1]]
MCUsages   == {[input |-> 1, output |-> n] : n \in {0, 1, 3}}
MCMaxTokens == [input |-> 4, output |-> 3]
MCPerRole  == [o \in MCRoles |-> IF o = leader THEN 1 ELSE 3]
MCSymmetry == Permutations({r1, r2}) \cup Permutations({r3, r4, r5})
=============================================================================
