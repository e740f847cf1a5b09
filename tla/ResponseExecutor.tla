-------------------------- MODULE ResponseExecutor --------------------------
(***************************************************************************)
(* The response executor, services/response-executor/app/main.py with its  *)
(* HTTP adapter lab.py: the only service that may change a target system.  *)
(* Every decision it takes is a function of actions.jsonl, an append-only  *)
(* journal, and every handler that writes to the journal runs under one    *)
(* re-entrant lock, held even while the laboratory is called over HTTP.    *)
(*                                                                         *)
(* history[a] is the subsequence of the journal that carries action_id a:  *)
(* every handler filters the journal by action_id before it reads it, so   *)
(* the interleaving of different actions is not kept.  A record digest is  *)
(* the position of the record in its history.  The hash chain and its HMAC *)
(* are abstracted to auditValid, what require_valid_audit finds.           *)
(*                                                                         *)
(* The laboratory is a module of its own; this one only knows the requests *)
(* it has put on the wire and the reply of the call it is waiting for.     *)
(***************************************************************************)
EXTENDS Naturals, Sequences

CONSTANTS
  Actions,   \* the action identifiers uuid4 hands out
  Keys,      \* idempotency keys the callers use
  Configs,   \* [mode, url] records: environments the process is started with
  LabUrl,    \* the one origin where a laboratory answers
  Minutes,   \* approval lifetimes (expires_minutes), in ticks of the clock
  MaxTime    \* bound on the clock

Modes     == {"simulation", "lab", "host_lab"}
LabModes  == {"lab", "host_lab"}
HostKinds == {"terminate_process", "disable_persistence"}
Kinds     == {"block_ioc", "disable_account"} \cup HostKinds
Phases    == {"execution", "rollback"}
Ops       == Actions \X Phases

ASSUME ConfigsAssumption == Configs \subseteq [mode : Modes, url : STRING]
ASSUME TimeAssumption    == MaxTime \in Nat /\ Minutes \subseteq Nat

VARIABLES
  history,     \* [Actions -> sequence of journal records]
  auditValid,  \* verify_audit()["valid"]: FALSE once a line is torn
  config,      \* mode and laboratory URL of the running process
  now,         \* the clock, in minutes
  call,        \* the HTTP call a handler waits for while it holds LOCK
  inflight,    \* POST requests on the wire
  posts        \* auxiliary: how often each operation was ever posted

execVars == <<history, auditValid, config, now, call, inflight, posts>>

-----------------------------------------------------------------------------
(* Journal records.                                                        *)

Dispatched == [execution |-> "execution_dispatched",
               rollback  |-> "rollback_dispatched"]

Unknown    == [execution |-> "execution_unknown",
               rollback  |-> "rollback_unknown"]

Done       == [execution |-> "executed", rollback |-> "rolled_back"]

Proposals == [status : {"pending_approval"}, key : Keys, kind : Kinds,
              mode : Modes, url : STRING, env : Nat]
Approvals == [status : {"approved"}, cites : Nat, expires : Nat]
(* Records that name the record that authorised them, and when.            *)
Decisions == [status : {"execution_dispatched", "rollback_dispatched",
                        "executed", "rolled_back"}, cites : Nat, at : Nat]
Outcomes  == [status : {"execution_unknown", "rollback_unknown", "executed",
                        "rolled_back", "execution_rejected"}]
Records   == Proposals \cup Approvals \cup Decisions \cup Outcomes

NoCall == [verb |-> "none"]
Calls  == [verb : {"POST", "GET"}, action : Actions, phase : Phases,
           reply : {"unsent", "waiting", "applied", "rejected", "error"}]

(* The append-only journal: append_event fsyncs one line at the end.       *)
Record(a, e) == history' = [history EXCEPT ![a] = Append(@, e)]

Proposed(a)   == history[a] # <<>>
Proposal(a)   == history[a][1]
Has(a, S)     == \E i \in DOMAIN history[a] : history[a][i].status \in S
LastStatus(a) == history[a][Len(history[a])].status

(* i is where next(... reversed(events) ...) stops for this status.        *)
IsLatest(a, status, i) ==
  /\ i \in DOMAIN history[a]
  /\ history[a][i].status = status
  /\ \A j \in DOMAIN history[a] : j > i => history[a][j].status # status

(* Mutant: an action is active until its rollback is confirmed.            *)
ActiveUntilRolledBack(a) == Has(a, {"executed"}) /\ ~Has(a, {"rolled_back"})

(* The audit snapshot's active set: an executed record with no later       *)
(* rollback record, whatever became of that rollback.                      *)
Active(a) ==
  \E i \in DOMAIN history[a] :
    /\ history[a][i].status = "executed"
    /\ \A j \in DOMAIN history[a] : j > i =>
         history[a][j].status \notin
           {"rolled_back", "rollback_dispatched", "rollback_unknown"}

(* LOCK is free and require_valid_audit does not raise.                    *)
Ready == call = NoCall /\ auditValid

(* lab.check_binding: same mode and same origin as when it was proposed.   *)
Bound(a) == Proposal(a).mode = config.mode /\ Proposal(a).url = config.url

-----------------------------------------------------------------------------
ExecInit ==
  /\ history = [a \in Actions |-> <<>>]
  /\ auditValid = TRUE
  /\ config \in Configs
  /\ now = 0
  /\ call = NoCall
  /\ inflight = {}
  /\ posts = [op \in Ops |-> 0]

(* A known idempotency key is answered from the journal, or refused when   *)
(* it is bound to other content; neither changes anything.  env is the     *)
(* environment_id the laboratory's /health reports.                        *)
Propose(a, key, kind, env) ==
  /\ Ready
  /\ ~Proposed(a)
  /\ \A b \in Actions : Proposed(b) => Proposal(b).key # key
  /\ kind \in HostKinds <=> config.mode = "host_lab"
  /\ config.mode = "lab" => kind = "disable_account"
  /\ config.mode \in LabModes => config.url = LabUrl
  /\ Record(a, [status |-> "pending_approval", key |-> key, kind |-> kind,
                mode |-> config.mode, url |-> config.url,
                env |-> IF config.mode \in LabModes THEN env ELSE 0])
  /\ UNCHANGED <<auditValid, config, now, call, inflight, posts>>

(* Mutant: an expired approval may be renewed after the action closed.     *)
ApproveClosed(a, minutes) ==
  /\ Ready
  /\ Proposed(a)
  /\ \A i \in DOMAIN history[a] :
       IsLatest(a, "approved", i) => history[a][i].expires < now
  /\ Record(a, [status |-> "approved", cites |-> 1, expires |-> now + minutes])
  /\ UNCHANGED <<auditValid, config, now, call, inflight, posts>>

(* A human approval; a new one only supersedes one that has expired.       *)
Approve(a, minutes) ==
  /\ Ready
  /\ Proposed(a)
  /\ ~Has(a, {"execution_dispatched", "executed", "rolled_back"})
  /\ \A i \in DOMAIN history[a] :
       IsLatest(a, "approved", i) => history[a][i].expires < now
  /\ Record(a, [status |-> "approved", cites |-> 1, expires |-> now + minutes])
  /\ UNCHANGED <<auditValid, config, now, call, inflight, posts>>

(* dispatch_lab: intent is on disk before anything is sent.                *)
Dispatch(a, phase, i) ==
  /\ Bound(a)
  /\ Record(a, [status |-> Dispatched[phase], cites |-> i, at |-> now])
  /\ call' = [verb |-> "POST", action |-> a, phase |-> phase,
              reply |-> "unsent"]
  /\ UNCHANGED <<auditValid, config, now, inflight, posts>>

(* Mutant: a blind replay, reconciliation sends the operation again.       *)
ReconcileByReplay(a) ==
  /\ Ready
  /\ Proposed(a)
  /\ Proposal(a).mode \in LabModes
  /\ Bound(a)
  /\ \E phase \in Phases :
       /\ LastStatus(a) \in {Dispatched[phase], Unknown[phase]}
       /\ call' = [verb |-> "POST", action |-> a, phase |-> phase,
                   reply |-> "unsent"]
  /\ UNCHANGED <<history, auditValid, config, now, inflight, posts>>

(* reconcile_action: a GET for the receipt, never a second POST.           *)
Reconcile(a) ==
  /\ Ready
  /\ Proposed(a)
  /\ Proposal(a).mode \in LabModes
  /\ Bound(a)
  /\ \E phase \in Phases :
       /\ LastStatus(a) \in {Dispatched[phase], Unknown[phase]}
       /\ call' = [verb |-> "GET", action |-> a, phase |-> phase,
                   reply |-> "waiting"]
  /\ UNCHANGED <<history, auditValid, config, now, inflight, posts>>

(* Mutant: the expiry of the approval is not looked at.                    *)
AuthorisesExpired(a, i) ==
  /\ IsLatest(a, "approved", i)
  /\ history[a][i].cites = 1

(* The latest approval, if it cites the proposal and has not expired.      *)
Authorises(a, i) ==
  /\ IsLatest(a, "approved", i)
  /\ history[a][i].cites = 1
  /\ now <= history[a][i].expires

Execute(a) ==
  /\ Ready
  /\ Proposed(a)
  /\ ~Has(a, {"rolled_back", "rollback_dispatched",
              "execution_rejected", "executed"})
  /\ Proposal(a).mode = config.mode
  /\ \/ /\ Has(a, {"execution_dispatched"})
        /\ Reconcile(a)
     \/ /\ ~Has(a, {"execution_dispatched"})
        /\ \E i \in DOMAIN history[a] :
             /\ Authorises(a, i)
             /\ \/ /\ config.mode \in LabModes
                   /\ Dispatch(a, "execution", i)
                \/ /\ config.mode = "simulation"
                   /\ Record(a, [status |-> "executed", cites |-> i,
                                 at |-> now])
                   /\ UNCHANGED <<auditValid, config, now, call, inflight,
                                  posts>>

(* Only disable_account and block_ioc are reversible here; a laboratory    *)
(* rollback carries the approval secret again.                             *)
Rollback(a) ==
  /\ Ready
  /\ ~Has(a, {"rolled_back"})
  /\ \E i \in DOMAIN history[a] :
       /\ IsLatest(a, "executed", i)
       /\ Proposal(a).kind \notin HostKinds
       /\ Proposal(a).mode = config.mode
       /\ \/ /\ config.mode = "lab"
             /\ Has(a, {"rollback_dispatched"})
             /\ Reconcile(a)
          \/ /\ config.mode = "lab"
             /\ ~Has(a, {"rollback_dispatched"})
             /\ Dispatch(a, "rollback", i)
          \/ /\ config.mode # "lab"
             /\ Record(a, [status |-> "rolled_back", cites |-> i,
                           at |-> now])
             /\ UNCHANGED <<auditValid, config, now, call, inflight, posts>>

(* The request leaves the process after the intent was written.            *)
SendPost ==
  /\ call # NoCall
  /\ call.reply = "unsent"
  /\ LET op == <<call.action, call.phase>> IN
       /\ inflight' = inflight \cup {op}
       /\ posts' = [posts EXCEPT ![op] = @ + 1]
  /\ call' = [call EXCEPT !.reply = "waiting"]
  /\ UNCHANGED <<history, auditValid, config, now>>

(* Mutant: any answer is taken for a receipt.                              *)
AnyAnswer == call.reply \notin {"unsent", "waiting"}

(* validate_receipt: only the process laboratory may answer "rejected".    *)
ValidReceipt ==
  \/ call.reply = "applied"
  \/ call.reply = "rejected" /\ Proposal(call.action).mode = "host_lab"

(* finish_lab: a valid receipt becomes the outcome of the operation.       *)
Finish ==
  /\ call # NoCall
  /\ ValidReceipt
  /\ Record(call.action,
            [status |-> IF call.reply = "rejected" THEN "execution_rejected"
                                                   ELSE Done[call.phase]])
  /\ call' = NoCall
  /\ UNCHANGED <<auditValid, config, now, inflight, posts>>

(* Mutant: no socket timeout, only an answer ends the call.                *)
NoTimeout ==
  /\ call # NoCall
  /\ call.reply \notin {"unsent", "waiting"}
  /\ ~ValidReceipt
  /\ \/ /\ call.verb = "POST"
        /\ Record(call.action, [status |-> Unknown[call.phase]])
     \/ /\ call.verb = "GET"
        /\ UNCHANGED history
  /\ call' = NoCall
  /\ UNCHANGED <<auditValid, config, now, inflight, posts>>

(* A timeout, an HTTP error, a 404 or a receipt that does not validate: a  *)
(* POST is recorded as unknown, a GET leaves the journal as it is.         *)
NoReceipt ==
  /\ call # NoCall
  /\ call.reply # "unsent"
  /\ ~ValidReceipt
  /\ \/ /\ call.verb = "POST"
        /\ Record(call.action, [status |-> Unknown[call.phase]])
     \/ /\ call.verb = "GET"
        /\ UNCHANGED history
  /\ call' = NoCall
  /\ UNCHANGED <<auditValid, config, now, inflight, posts>>

(* The process dies, or an append raises before it wrote anything, and is  *)
(* started again, perhaps with another environment.  The wire keeps what   *)
(* was sent.                                                               *)
Crash(c) ==
  /\ call' = NoCall
  /\ config' = c
  /\ UNCHANGED <<history, auditValid, now, inflight, posts>>

(* An append leaves half a line: the handler ends, and every handler that  *)
(* validates the audit refuses from here on.                               *)
TornAppend ==
  /\ auditValid
  /\ auditValid' = FALSE
  /\ call' = NoCall
  /\ UNCHANGED <<history, config, now, inflight, posts>>

Tick ==
  /\ now < MaxTime
  /\ now' = now + 1
  /\ UNCHANGED <<history, auditValid, config, call, inflight, posts>>

(* The laboratory's answer reaches the handler that still waits for it.    *)
Reply(verb, op, answer) ==
  /\ call # NoCall
  /\ call.verb = verb
  /\ <<call.action, call.phase>> = op
  /\ call.reply = "waiting"
  /\ call' = [call EXCEPT !.reply = answer]

(* The wire loses a request.                                               *)
LosePost(op) ==
  /\ op \in inflight
  /\ inflight' = inflight \ {op}
  /\ UNCHANGED <<history, auditValid, config, now, call, posts>>

(* Everything the executor does once an action is proposed.                *)
HandlerStep ==
  \/ \E a \in Actions :
       \/ \E m \in Minutes : Approve(a, m)
       \/ Execute(a)
       \/ Rollback(a)
       \/ Reconcile(a)
  \/ SendPost
  \/ Finish
  \/ NoReceipt
  \/ \E c \in Configs : Crash(c)
  \/ TornAppend
  \/ Tick
  \/ \E op \in Ops : LosePost(op)

ExecutorStep(env) ==
  \/ \E a \in Actions, key \in Keys, kind \in Kinds : Propose(a, key, kind, env)
  \/ HandlerStep

ExecTypeOK ==
  /\ history \in [Actions -> Seq(Records)]
  /\ auditValid \in BOOLEAN
  /\ config \in Configs
  /\ now \in Nat
  /\ call \in Calls \cup {NoCall}
  /\ inflight \subseteq Ops
  /\ posts \in [Ops -> Nat]

(* Record d rests on an approval of this very proposal that had not        *)
(* expired when d was recorded: the vocabulary of the properties.          *)
CitesApproval(a, d) ==
  LET i == history[a][d].cites IN
    /\ i \in 1..(d - 1)
    /\ history[a][i].status = "approved"
    /\ history[a][i].cites = 1
    /\ history[a][d].at <= history[a][i].expires
=============================================================================
