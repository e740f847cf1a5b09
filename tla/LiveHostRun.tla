----------------------------- MODULE LiveHostRun -----------------------------
(***************************************************************************)
(* scripts/live-host-response.py: a run of the whole response path against *)
(* a process laboratory of its own.  In each of two rounds fresh evidence  *)
(* is collected, a model proposes an action on what was observed, the      *)
(* operator approves, the action is executed and its recovery verified.    *)
(* The first round may only stop the process and is expected to fail its   *)
(* verification; the second is expected to pass it.                        *)
(*                                                                         *)
(* The script is the only client of its services; the wire, the laboratory *)
(* and its supervisor go on between its calls, and any call may fail.      *)
(* External are the model and the team that may investigate first: what    *)
(* they say is any of what the script accepts, or a failure.               *)
(***************************************************************************)
EXTENDS HostVerification

VARIABLE live  \* the script, or NoLive where nobody runs it

NoLive == [step |-> "off"]
LiveStart == [step |-> "collect", round |-> 1, seen |-> 0, file |-> FALSE,
              kind |-> "none", action |-> "none", first |-> 0]

Driven == live # NoLive
Doing(step) == Driven /\ live.step = step

Then(step) == live' = [live EXCEPT !.step = step]

(* check(): the run goes on if the condition holds.                        *)
Check(condition, step) == Then(IF condition THEN step ELSE "failed")

(* The gateway's collection: one snapshot of the laboratory.  With a team  *)
(* to investigate it is made twice, before and after the investigation.    *)
LiveCollect ==
  /\ Doing("collect") \/ Doing("recollect")
  /\ busy = Host!Idle
  /\ \E next \in IF Doing("collect") THEN {"investigate", "plan"} ELSE {"plan"} :
       live' = [live EXCEPT !.step = next, !.seen = compute, !.file = persistence]
  /\ UNCHANGED allVars

(* native_investigate, up to a completed report; any other end aborts.     *)
LiveInvestigate ==
  /\ Doing("investigate")
  /\ Then("recollect")
  /\ UNCHANGED allVars

(* plan(): an allowed action with the observed target copied exactly, in   *)
(* the first round only the termination of the process.                    *)
Allowed(kind) ==
  \/ kind = "terminate_process" /\ live.seen # 0
  \/ kind = "disable_persistence" /\ live.file /\ live.round = 2

(* Mutant: the workload need not have been seen again.                     *)
RecurredOrNot == TRUE

Recurred == live.seen \notin {0, live.first}

LivePlan(kind) ==
  /\ Doing("plan") /\ Allowed(kind)
  /\ live' = [live EXCEPT
       !.kind = kind,
       !.first = IF live.round = 1 THEN live.seen ELSE @,
       !.step = IF live.round = 1 \/ Recurred THEN "propose" ELSE "failed"]
  /\ UNCHANGED allVars

LivePropose(a, key) ==
  /\ Doing("propose")
  /\ Propose(a, key, live.kind, env)
  /\ target' = [target EXCEPT ![a] = IF live.kind = "terminate_process"
                                     THEN live.seen ELSE env]
  /\ live' = [live EXCEPT !.step = "unapproved", !.action = a]
  /\ UNCHANGED <<hostVars, check>>

(* An execution without an approval has to be refused.                     *)
LiveUnapproved ==
  /\ Doing("unapproved")
  /\ Check(~\E i \in DOMAIN history[live.action] : Authorises(live.action, i),
           "approve")
  /\ UNCHANGED allVars

LiveApprove(minutes) ==
  /\ Doing("approve")
  /\ Approve(live.action, minutes)
  /\ Then("execute")
  /\ UNCHANGED <<hostVars, target, check>>

LiveExecute ==
  /\ Doing("execute")
  /\ Execute(live.action)
  /\ Then("executing")
  /\ UNCHANGED <<hostVars, target, check>>

LiveExecuted ==
  /\ Doing("executing") /\ call = NoCall
  /\ Check(LastStatus(live.action) = "executed", "verify")
  /\ UNCHANGED allVars

LiveVerify ==
  /\ Doing("verify")
  /\ ReadActive(live.action)
  /\ Then("verifying")
  /\ UNCHANGED vars

(* The verdict has to be the expected one of the round; the next round     *)
(* begins with another collection, the last one ends with the export.      *)
LiveVerdict ==
  /\ Doing("verifying") /\ check.stage # "observing"
  /\ \/ /\ live.round = 1 /\ check.stage = "failed"
        /\ live' = [live EXCEPT !.step = "collect", !.round = 2]
     \/ live.round = 2 /\ check.stage = "verified" /\ Then("export")
     \/ /\ check.stage # (IF live.round = 1 THEN "failed" ELSE "verified")
        /\ Then("failed")
  /\ check' = NoCheck
  /\ UNCHANGED vars

LiveExport ==
  /\ Doing("export")
  /\ Check(auditValid, "passed")
  /\ UNCHANGED allVars

(* A call fails or is answered otherwise; the operator does not approve.   *)
LiveAborts ==
  /\ Driven /\ live.step \notin {"passed", "failed"}
  /\ Then("failed")
  /\ UNCHANGED allVars

LiveScript ==
  \/ LiveCollect \/ LiveInvestigate
  \/ \E kind \in HostKinds : LivePlan(kind)
  \/ \E a \in Actions, key \in Keys : LivePropose(a, key)
  \/ LiveUnapproved
  \/ \E m \in Minutes : LiveApprove(m)
  \/ LiveExecute \/ LiveExecuted \/ LiveVerify
  \/ LiveVerdict \/ LiveExport \/ LiveAborts

(* What goes on by itself: the call on its way and its answer, and the     *)
(* laboratory, which nobody restarts.                                      *)
LiveWorld ==
  /\ Driven
  /\ \/ /\ SendPost \/ Finish \/ NoReceipt \/ (\E op \in Ops : LosePost(op))
        /\ UNCHANGED <<hostVars, target, check>>
     \/ /\ \/ \E a \in Actions : HostPost(<<a, "execution">>)
           \/ HostCommit
           \/ HostInternal /\ env' = env
        /\ UNCHANGED check
     \/ (TakeSnapshot \/ Conclude \/ GiveUp) /\ UNCHANGED vars
  /\ UNCHANGED live

-----------------------------------------------------------------------------
AfterPlan == {"propose", "unapproved", "approve", "execute", "executing",
              "verify", "verifying", "export", "passed"}

(* The run shows what it is for.  A second action is only proposed when    *)
(* the first was executed and the workload is back as another process: the *)
(* execution alone was no recovery.  And when it has passed, the action it *)
(* verified in the end was the one that removes the cause, and the file    *)
(* and the workload are gone and stay gone.                                *)
RunShowsRecovery ==
  /\ Driven /\ live.round = 2 /\ live.step \in AfterPlan =>
       /\ spawned > live.first
       /\ \E a \in Actions : Has(a, {"executed"}) /\ target[a] = live.first
  /\ Doing("passed") =>
       /\ ~persistence /\ compute = 0
       /\ operations[live.action] = "applied"
       /\ Proposal(live.action).kind = "disable_persistence"
=============================================================================
