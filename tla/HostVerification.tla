-------------------------- MODULE HostVerification --------------------------
(***************************************************************************)
(* The gateway's recovery check of a host action, host_lab.py under        *)
(* services/security-tool-gateway/app: the executor's audit, three         *)
(* snapshots of the laboratory, and the audit once more.  Everything else  *)
(* goes on between any two of these reads.  The pause of 1.1 s between     *)
(* snapshots is not modelled: the supervisor may be slower than that.      *)
(***************************************************************************)
EXTENDS HostResponse

VARIABLE check  \* the verification in progress, or its verdict

allVars == <<vars, check>>

NoCheck   == [stage |-> "none"]
Snapshots == 3

Checks == [stage : {"observing", "verified", "failed", "inconclusive"},
           action : Actions, env : Nat, seen : 0..Snapshots, clean : BOOLEAN]

(* active_action: executed, in host mode, in one locked audit snapshot.    *)
ReadActive(a) ==
  /\ check = NoCheck
  /\ Ready
  /\ Proposed(a) /\ Active(a) /\ Proposal(a).mode = "host_lab"
  /\ check' = [stage |-> "observing", action |-> a, env |-> Proposal(a).env,
               seen |-> 0, clean |-> TRUE]

(* snapshot, under the laboratory's lock: the same environment, and its    *)
(* last mutation is this action's, complete.                               *)
InScope == /\ env = check.env
           /\ lastMutation = [action |-> check.action, result |-> "applied"]

(* Mutant: the persistence file is not looked at.                          *)
TakeProcesses ==
  /\ check.stage = "observing"
  /\ check.seen < Snapshots
  /\ busy = Host!Idle
  /\ InScope
  /\ check' = [check EXCEPT !.seen = @ + 1, !.clean = @ /\ compute = 0]

TakeSnapshot ==
  /\ check.stage = "observing"
  /\ check.seen < Snapshots
  /\ busy = Host!Idle
  /\ InScope
  /\ check' = [check EXCEPT !.seen = @ + 1,
                            !.clean = @ /\ ~persistence /\ compute = 0]

(* The audit is read again, then the snapshots are judged.                 *)
Conclude ==
  /\ check.stage = "observing"
  /\ check.seen = Snapshots
  /\ Ready
  /\ Active(check.action)
  /\ check' = [check EXCEPT !.stage = IF check.clean THEN "verified"
                                                     ELSE "failed"]

(* Out of scope, an endpoint that does not answer, an audit that does not  *)
(* validate, or a control workload that stopped.                           *)
GiveUp ==
  /\ check.stage = "observing"
  /\ check' = [check EXCEPT !.stage = "inconclusive"]

VerifyStep ==
  /\ \/ \E a \in Actions : ReadActive(a)
     \/ TakeSnapshot
     \/ Conclude
     \/ GiveUp
  /\ UNCHANGED vars

VerifyInit == Init /\ check = NoCheck
VerifyNext == VerifyStep \/ (Next /\ UNCHANGED check)
VerifySpec == VerifyInit /\ [][VerifyNext]_allVars

-----------------------------------------------------------------------------
(* Verified means recovered, for good: the action's receipt is complete,   *)
(* some approved action quarantined the file of that very environment,     *)
(* and for as long as the environment exists nothing brings the workload   *)
(* back.  A killed process alone, a half-done operation, another           *)
(* environment or a verdict that mixes snapshots never gets there.         *)
VerifiedIsRecovered ==
  check.stage = "verified" =>
    /\ operations[check.action] = "applied"
    /\ \E b \in Actions : <<b, "persistence", check.env>> \in effects
    /\ check.env = env => ~persistence /\ compute = 0

(* A failed verdict always has a residue to show: it is never given for an *)
(* action that quarantined the file, whatever happens between snapshots.   *)
FailedIsResidual ==
  check.stage = "failed" => Proposal(check.action).kind = "terminate_process"

(* What the check says is true, either way.                                *)
VerdictsAreTrue == VerifiedIsRecovered /\ FailedIsResidual
=============================================================================
