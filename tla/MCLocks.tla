------------------------------- MODULE MCLocks ------------------------------
(***************************************************************************)
(* The two locks of the response path that are held across a call to       *)
(* somebody else or a transaction that may fail: the executor's, and the   *)
(* model guard's state lock.  Each is a scene of its own, without          *)
(* symmetry; they share nothing, so a behaviour has one from start to end. *)
(***************************************************************************)
EXTENDS IdentityResponse, TLC

CONSTANTS a1, a2, k1, k2, r1, r2, leader, worker, NoRequest

VARIABLES scene,
          runStatus, request, armed, stateLock, preparing, thread, forwards, orphans

guardVars ==
  <<runStatus, request, armed, stateLock, preparing, thread, forwards, orphans>>

MCActions == {a1, a2}
MCKeys    == {k1, k2}
MCConfigs == {[mode |-> "lab", url |-> "lab"]}
MCMinutes == {1}

(* One request of each role; the provider reports less or more than, or as *)
(* much as, was reserved.                                                  *)
Guard == INSTANCE ModelGuard WITH
  Requests <- {r1, r2},
  Roles <- {leader, worker},
  RoleOf <- r1 :> leader @@ r2 :> worker,
  Reservation <- r1 :> [input |-> 2, output |-> 2] @@ r2 :> [input |-> 1, output |-> 1],
  Usages <- {[input |-> 1, output |-> n] : n \in {0, 1, 3}},
  MaxTokens <- [input |-> 4, output |-> 3],
  MaxRequestsPerRole <- leader :> 1 @@ worker :> 3,
  MaxRequests <- 3,
  MaxConcurrency <- 2

MCInit ==
  /\ scene \in {"executor", "guard"}
  /\ Init
  /\ Guard!Init

MCNext ==
  /\ UNCHANGED scene
  /\ \/ scene = "executor" /\ Next /\ UNCHANGED guardVars
     \/ scene = "guard" /\ Guard!Next /\ UNCHANGED vars

(* In the other's scene no handler and no thread is at work, so what is    *)
(* fair there is never enabled.                                            *)
MCSpec ==
  MCInit /\ [][MCNext]_<<vars, scene, guardVars>> /\ Fairness /\ Guard!Fairness

(* An admitted request comes to an end: no thread of the guard waits for   *)
(* ever on the state lock, whoever holds it fails.                         *)
ThreadsEnd == Guard!ThreadsEnd
=============================================================================
