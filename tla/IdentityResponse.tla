-------------------------- MODULE IdentityResponse --------------------------
(***************************************************************************)
(* The executor wired to the identity laboratory.  Requests travel on an   *)
(* unreliable wire: a POST may be lost, may arrive long after the executor *)
(* stopped waiting for it or was restarted, and its answer may be lost     *)
(* after the laboratory committed.                                         *)
(***************************************************************************)
EXTENDS ResponseExecutor

CONSTANT NoOwner

VARIABLES account, receipts

Lab == INSTANCE IdentityLab WITH LabActions <- Actions

labVars == <<account, receipts>>
vars    == <<history, auditValid, config, now, call, inflight, posts,
             account, receipts>>

ASSUME NoOwnerAssumption == NoOwner \notin Actions

(* An executor started for this laboratory may come back in simulation     *)
(* mode or with another URL; the process laboratory is composed elsewhere. *)
ASSUME ModesAssumption == \A c \in Configs : c.mode \in {"simulation", "lab"}

(* environment_id of the laboratory: written once, with the database.      *)
LabEnv == 1

-----------------------------------------------------------------------------
(* do_POST: the reply reaches the handler only if it is still waiting.     *)
LabPost(op) ==
  /\ op \in inflight
  /\ inflight' = inflight \ {op}
  /\ Lab!Apply(op)
  /\ \/ UNCHANGED call
     \/ Reply("POST", op, IF op \in receipts' THEN "applied" ELSE "error")
  /\ UNCHANGED <<history, auditValid, config, now, posts>>

(* do_GET on an operation: its receipt, or 404.                            *)
LabGet(op) ==
  /\ Reply("GET", op, IF op \in receipts THEN "applied" ELSE "error")
  /\ UNCHANGED <<history, auditValid, config, now, inflight, posts, labVars>>

Init == ExecInit /\ Lab!LabInit

LabStep == \E op \in Ops : LabPost(op) \/ LabGet(op)

Next == (ExecutorStep(LabEnv) /\ UNCHANGED labVars) \/ LabStep

Spec == Init /\ [][Next]_vars

(* The socket timeout of three seconds ends every call, and the handler    *)
(* thread runs on: nothing else is assumed to happen.                      *)
Fairness ==
  /\ WF_vars(SendPost /\ UNCHANGED labVars)
  /\ WF_vars(Finish /\ UNCHANGED labVars)
  /\ WF_vars(NoReceipt /\ UNCHANGED labVars)

FairSpec == Spec /\ Fairness

-----------------------------------------------------------------------------
(* An action proposed against the laboratory, not a simulated one.         *)
InLab(a) == Proposed(a) /\ Proposal(a).mode = "lab"

TypeOK == ExecTypeOK /\ Lab!LabTypeOK

(* Nothing touches the account unless a human approved that very proposal, *)
(* the approval had not expired when the intent was recorded, and the      *)
(* intent was on disk before the request was sent.  Holds however late the *)
(* request arrives and however often the executor was restarted.           *)
ApprovedBeforeEffect ==
  \A a \in Actions :
    <<a, "execution">> \in receipts \cup inflight =>
      \E d \in DOMAIN history[a] :
        /\ history[a][d].status = "execution_dispatched"
        /\ CitesApproval(a, d)

(* "read-only reconciliation, never a blind replay of an external          *)
(* operation": each operation is posted at most once, ever, across lost    *)
(* answers, retries of execute and rollback, crashes and mode changes.     *)
PostedAtMostOnce == \A op \in Ops : posts[op] <= 1

(* What the audit reports as active is in force: the account is disabled   *)
(* by that action.  So two actions are never active on the one account,    *)
(* and an action leaves the active set before its effect can be undone.    *)
ActiveIsInForce ==
  \A a \in Actions :
    InLab(a) /\ Active(a) => ~account.enabled /\ account.owner = a

(* The journal never claims an outcome the laboratory has no receipt for.  *)
OutcomesHaveReceipts ==
  \A a \in Actions, phase \in Phases :
    InLab(a) /\ Has(a, {Done[phase]}) => <<a, phase>> \in receipts

(* A closed action stays closed: nothing is ever recorded after            *)
(* rolled_back or execution_rejected, and an executed action is only ever  *)
(* followed by its rollback.                                               *)
ClosedStep ==
  \A a \in Actions :
    /\ Has(a, {"rolled_back", "execution_rejected"})
         => history'[a] = history[a]
    /\ Has(a, {"executed"}) /\ history'[a] # history[a]
         => LastStatus(a)' \in
              {"rolled_back", "rollback_dispatched", "rollback_unknown"}

ClosedStaysClosed == [][ClosedStep]_vars

(* The refinement mapping to ContainmentContract: an operation has         *)
(* happened when the laboratory holds its receipt, and is authorised when  *)
(* its intent is in the journal; simulated actions have no effect.         *)
EffectOf(a) ==
  CASE ~InLab(a) -> "none"
    [] InLab(a) /\ <<a, "rollback">> \in receipts -> "undone"
    [] InLab(a) /\ <<a, "rollback">> \notin receipts
       /\ <<a, "execution">> \in receipts
       -> IF Has(a, {"rollback_dispatched"}) THEN "undoing" ELSE "in_force"
    [] OTHER -> IF Has(a, {"execution_dispatched"}) THEN "authorised"
                ELSE IF Has(a, {"approved"}) THEN "approved" ELSE "none"

ReportOf(a) ==
  CASE InLab(a) /\ Has(a, {"rolled_back"}) -> "rolled_back"
    [] InLab(a) /\ ~Has(a, {"rolled_back"}) /\ Has(a, {"executed"})
       -> "executed"
    [] OTHER -> "none"

Contract == INSTANCE ContainmentContract
              WITH effect   <- [a \in Actions |-> EffectOf(a)],
                   reported <- [a \in Actions |-> ReportOf(a)]

(* The executor, its wire and the laboratory implement the contract.       *)
ImplementsContract == Contract!Spec

(* Every call ends, so the one lock that serialises the executor is always *)
(* released, whatever the laboratory does.                                 *)
LockReleased == call # NoCall ~> call = NoCall
=============================================================================
