---------------------------- MODULE HostResponse ----------------------------
(***************************************************************************)
(* The executor wired to the process laboratory.  The same journal and the *)
(* same unreliable wire as in IdentityResponse, but a target that changes  *)
(* by itself, operations that can fail half way, and no rollback.          *)
(***************************************************************************)
EXTENDS ResponseExecutor, FiniteSets

CONSTANTS MaxEnv, MaxProcess

ASSUME HostBoundsAssumption == MaxEnv \in Nat \ {0} /\ MaxProcess \in Nat \ {0}

VARIABLES env, persistence, compute, spawned, operations, busy, lastMutation,
          effects,
          target   \* the target_ref of each action's proposal

Host == INSTANCE HostLab WITH LabActions <- Actions

hostVars == <<env, persistence, compute, spawned, operations, busy,
              lastMutation, effects>>
vars == <<history, auditValid, config, now, call, inflight, posts, hostVars,
          target>>

-----------------------------------------------------------------------------
(* The target was read from some snapshot, of this environment or before.  *)
Observed(kind) == IF kind = "terminate_process" THEN 1..spawned ELSE 1..env

ProposeTarget(a, key, kind) ==
  /\ Propose(a, key, kind, env)
  /\ \E t \in Observed(kind) : target' = [target EXCEPT ![a] = t]
  /\ UNCHANGED hostVars

Request(a) == [kind |-> Proposal(a).kind, target |-> target[a],
               env |-> Proposal(a).env]

(* do_POST: a receipt that is complete is answered at once.                *)
HostPost(op) ==
  /\ op \in inflight
  /\ inflight' = inflight \ {op}
  /\ Host!Begin(op[1], Request(op[1]))
  /\ \/ UNCHANGED call
     \/ /\ operations'[op[1]] \in {"applied", "rejected"}
        /\ Reply("POST", op, operations'[op[1]])
  /\ UNCHANGED <<history, auditValid, config, now, posts, target>>

(* The operation ends, and is answered if somebody still listens.          *)
HostCommit ==
  /\ Host!Commit
  /\ \/ UNCHANGED call
     \/ Reply("POST", <<busy.action, "execution">>, "applied")
  /\ UNCHANGED <<history, auditValid, config, now, inflight, posts, target>>

(* do_GET waits for the lock; no receipt, or an unknown one, is an error.  *)
HostGet(op) ==
  /\ busy = Host!Idle
  /\ Reply("GET", op, IF operations[op[1]] \in {"applied", "rejected"}
                        THEN operations[op[1]] ELSE "error")
  /\ UNCHANGED <<history, auditValid, config, now, inflight, posts, hostVars,
                 target>>

HostInternal ==
  /\ \/ Host!Quarantine \/ Host!Terminate \/ Host!Fail
     \/ Host!Supervise \/ Host!WorkloadExits \/ Host!Restart
  /\ UNCHANGED <<execVars, target>>

Init == ExecInit /\ Host!HostInit /\ target = [a \in Actions |-> 0]

Next ==
  \/ \E a \in Actions, key \in Keys, kind \in Kinds : ProposeTarget(a, key, kind)
  \/ HandlerStep /\ UNCHANGED <<hostVars, target>>
  \/ \E a \in Actions : HostPost(<<a, "execution">>)
                        \/ HostGet(<<a, "execution">>)
  \/ HostCommit
  \/ HostInternal

Spec == Init /\ [][Next]_vars

-----------------------------------------------------------------------------
TypeOK == ExecTypeOK /\ Host!HostTypeOK /\ target \in [Actions -> Nat]

Effects(a) == {e \in effects : e[1] = a}

(* Whatever an operation did to the host was approved: the approval was    *)
(* for this proposal and had not expired when the intent was recorded.     *)
ApprovedBeforeEffect ==
  \A a \in Actions :
    Effects(a) # {} \/ <<a, "execution">> \in inflight =>
      \E d \in DOMAIN history[a] :
        /\ history[a][d].status = "execution_dispatched"
        /\ CitesApproval(a, d)

(* The approval was for one target and never slides to its replacement:    *)
(* over all crashes, restarts, retries and late arrivals, an action kills  *)
(* at most one process and quarantines at most one file, a terminated      *)
(* process is the one it named, and a file is the one of the environment   *)
(* it was proposed in.                                                     *)
OneEffectOnTheTarget ==
  \A a \in Actions :
    /\ \A what \in {"process", "persistence"} :
         Cardinality({e \in Effects(a) : e[2] = what}) <= 1
    /\ \A e \in Effects(a) :
         Proposal(a).kind = "terminate_process" =>
           e = <<a, "process", target[a]>>
    /\ \A e \in Effects(a) :
         e[2] = "persistence" => e[3] = Proposal(a).env

(* What the journal says is executed is true and stays true: the process   *)
(* is gone, or the file is gone and nothing of its environment runs.       *)
(* What it says is rejected never touched the host.                        *)
OutcomesAreTrue ==
  \A a \in Actions :
    /\ Has(a, {"executed"}) /\ Proposal(a).kind = "terminate_process" =>
         compute # target[a]
    /\ Has(a, {"executed"}) /\ Proposal(a).kind = "disable_persistence"
       /\ Proposal(a).env = env => ~persistence /\ compute = 0
    /\ Has(a, {"execution_rejected"}) => Effects(a) = {}

(* A half-done operation is never reported as done: once its receipt is    *)
(* left unknown, no reconciliation ever closes the action.                 *)
HalfDoneStaysOpen ==
  \A a \in Actions :
    operations[a] = "unknown" => ~Has(a, {"executed", "execution_rejected"})
=============================================================================
