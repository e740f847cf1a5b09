-------------------------- MODULE ConsoleDecisions --------------------------
(***************************************************************************)
(* Decisions and workflow transitions made at the operations console:      *)
(* api.py, idempotency.py, clients.py, the decision rows of audit.py and   *)
(* the two forms of pages.py that do the same, under                       *)
(* services/operations-console/app, together with the executor and the     *)
(* gateway they drive.  One incident; all requests carry one principal.    *)
(*                                                                         *)
(* A request is a thread that calls three services in a row and keeps      *)
(* nothing durable of its own before the last step.  Each call may be      *)
(* carried out and its answer lost: urllib's timeout ends the wait, not    *)
(* the call.                                                               *)
(***************************************************************************)
EXTENDS ResponseExecutor, WorkflowJournal, FiniteSetsExt

CONSTANTS
  Requests,   \* requests the console serves
  Agents,     \* gateway threads that serve the agents' own transitions
  Decidable,     \* the proposals operators decide: a bound on the inputs
  OperatorMoves, \* states operators ask for, AgentMoves those agents ask
  AgentMoves,    \* for: bounds on the inputs
  ReplayKeys, \* Idempotency-Key header values
  NoKey       \* a request without the header

ASSUME RequestsAssumption ==
  /\ NoKey \notin ReplayKeys
  /\ Movers = Requests \cup Agents
  /\ Requests \cap Agents = {}
  /\ IsFiniteSet(Requests)
  /\ Decidable \subseteq Actions
  /\ OperatorMoves \cup AgentMoves \subseteq WorkflowStates

VARIABLES
  request,    \* [Requests -> what the thread does]
  decisions,  \* the decision table, in the order of its ids
  stored,     \* the idempotency table
  aged        \* auxiliary: the entries whose 24 hours ever ran out

consoleVars == <<request, decisions, stored, aged>>
decisionVars == <<history, auditValid, config, now, call, inflight, posts,
             journal, transit, request, decisions, stored, aged>>

Decide == [kind : {"decide"}, action : Actions, verdict : {"approve", "deny"}]
(* The form of the incident page moves the latest session; a client of the *)
(* API names one, or gets "console".                                       *)
Move   == [kind : {"workflow"}, session : Sessions \cup {"latest"},
           state : WorkflowStates]
Orders == Decide \cup Move
Asked  == {o \in Orders : IF o.kind = "decide" THEN o.action \in Decidable
                                              ELSE o.state \in OperatorMoves}

Stages == {"lookup", "approve", "find", "session", "moving", "record",
           "store", "done"}
Ends   == {"none", "replayed", "mismatch", "refused", "recorded", "crashed"}
Threads ==
  [stage : Stages, via : {"api", "page"}, key : ReplayKeys \cup {NoKey},
   order : Orders, session : Sessions, end : Ends]
Idle == [stage |-> "idle"]

Rows    == [action : Actions, verdict : {"approve", "deny"},
            by : Requests, key : ReplayKeys \cup {NoKey}]
Scopes  == {<<"workflow">>} \cup {<<"decide", a>> : a \in Actions}
Replies == [key : ReplayKeys, scope : Scopes, order : Orders,
            expired : BOOLEAN]

(* The endpoint part of a scope: decision:<action> or workflow:<incident>. *)
Scope(o) ==
  IF o.kind = "decide" THEN <<"decide", o.action>> ELSE <<"workflow">>

At(r, stage) == request[r].stage = stage
Goto(r, stage) == request' = [request EXCEPT ![r].stage = stage]
Finished(r, end) ==
  request' = [request EXCEPT ![r].stage = "done", ![r].end = end]

(* An upstream error: a transition is refused with it; a decision goes on, *)
(* the mirroring of the workflow being best effort.                        *)
MoveFails(r) ==
  IF request[r].order.kind = "decide" THEN Goto(r, "record")
                                      ELSE Finished(r, "refused")

ConsoleInit ==
  /\ request = [r \in Requests |-> Idle]
  /\ decisions = <<>>
  /\ stored = {}
  /\ aged = {}

-----------------------------------------------------------------------------
(* run_idempotent.                                                         *)

FirstCall(o) ==
  CASE o.kind = "decide" /\ o.verdict = "approve" -> "approve"
    [] o.kind = "decide" /\ o.verdict = "deny"    -> "find"
    [] o.kind = "workflow"                        -> "session"

(* A request that passed authentication and validation.                    *)
Arrive(r, via, key, o) ==
  /\ At(r, "idle")
  /\ via = "page" => key = NoKey
  /\ o.kind = "workflow" => (via = "page" <=> o.session = "latest")
  /\ request' = [request EXCEPT ![r] =
       [stage |-> IF key = NoKey THEN FirstCall(o) ELSE "lookup",
        via |-> via, key |-> key, order |-> o,
        session |-> IF o.kind = "workflow" /\ o.session \in Sessions
                    THEN o.session ELSE "console",
        end |-> "none"]]
  /\ UNCHANGED <<decisions, stored, aged, execVars, wfVars>>

EntriesOf(r) ==
  {e \in stored : e.key = request[r].key /\ e.scope = Scope(request[r].order)}

(* Mutant: the fingerprint of the parameters is not compared.              *)
LookupByKeyOnly(r) ==
  /\ At(r, "lookup")
  /\ \/ \E e \in EntriesOf(r) :
          /\ ~e.expired
          /\ Finished(r, "replayed")
          /\ UNCHANGED stored
     \/ /\ \A e \in EntriesOf(r) : e.expired
        /\ Goto(r, FirstCall(request[r].order))
        /\ stored' = stored \ EntriesOf(r)
  /\ UNCHANGED <<decisions, aged, execVars, wfVars>>

(* An expired entry is deleted and the request served as a new one.        *)
Lookup(r) ==
  /\ At(r, "lookup")
  /\ \/ \E e \in EntriesOf(r) :
          /\ ~e.expired
          /\ Finished(r, IF e.order = request[r].order THEN "replayed"
                                                       ELSE "mismatch")
          /\ UNCHANGED stored
     \/ /\ \A e \in EntriesOf(r) : e.expired
        /\ Goto(r, FirstCall(request[r].order))
        /\ stored' = stored \ EntriesOf(r)
  /\ UNCHANGED <<decisions, aged, execVars, wfVars>>

(* INSERT OR REPLACE, after the handler answered 200 and before the client *)
(* sees it.                                                                *)
StoreReply(r) ==
  /\ At(r, "store")
  /\ stored' = (stored \ EntriesOf(r)) \cup
       {[key |-> request[r].key, scope |-> Scope(request[r].order),
         order |-> request[r].order, expired |-> FALSE]}
  /\ Finished(r, "recorded")
  /\ UNCHANGED <<decisions, aged, execVars, wfVars>>

(* 24 hours later; the purge at startup removes the expired ones too.      *)
KeyExpires(e) ==
  /\ e \in stored
  /\ ~e.expired
  /\ stored' = (stored \ {e}) \cup {[e EXCEPT !.expired = TRUE]}
  /\ aged' = aged \cup {<<e.key, e.scope>>}
  /\ UNCHANGED <<request, decisions, execVars, wfVars>>

-----------------------------------------------------------------------------
(* The handler of a decision.                                              *)

(* Mutant: an upstream error is swallowed, as it is for the mirroring.     *)
ApproveRegardless(r) ==
  /\ At(r, "approve")
  /\ \/ \E m \in Minutes : Approve(request[r].order.action, m)
     \/ UNCHANGED execVars
  /\ Goto(r, "session")
  /\ UNCHANGED <<decisions, stored, aged, wfVars>>

(* executor_approve: accepted, with the answer received or lost; or the    *)
(* executor refuses or cannot be reached.  The answer names the incident,  *)
(* which the page asks for again.                                          *)
AskApprove(r) ==
  /\ At(r, "approve")
  /\ \/ /\ \E m \in Minutes : Approve(request[r].order.action, m)
        /\ \/ Goto(r, IF request[r].via = "api" THEN "session" ELSE "find")
           \/ Finished(r, "refused")
     \/ /\ Finished(r, "refused")
        /\ UNCHANGED execVars
  /\ UNCHANGED <<decisions, stored, aged, wfVars>>

(* executor_incident_for_action; without an incident nothing is mirrored.  *)
FindIncident(r) ==
  /\ At(r, "find")
  /\ \/ Goto(r, "session")
     \/ Goto(r, "record")
  /\ UNCHANGED <<decisions, stored, aged, execVars, wfVars>>

(* gateway_awaiting_session takes the first session of the incident that   *)
(* waits for anybody; gateway_latest_session that of the last event; a     *)
(* client's session is taken as it is.  Nothing is asked for twice.        *)
ChooseSession(r) ==
  LET o == request[r].order IN
  /\ At(r, "session")
  /\ \/ MoveFails(r)
     \/ request' = [request EXCEPT
          ![r].stage = "moving",
          ![r].session =
             CASE o.kind = "decide" /\ AwaitingSessions # <<>>
                    -> Head(AwaitingSessions)
               [] o.kind = "workflow" /\ request[r].via = "page"
                  /\ journal # <<>>
                    -> Last(journal).session
               [] OTHER -> @]
  /\ UNCHANGED <<decisions, stored, aged, execVars, wfVars>>

Target(r) ==
  CASE request[r].order.kind = "workflow" -> request[r].order.state
    [] request[r].order.kind = "decide"
       -> IF request[r].order.verdict = "approve" THEN "approved"
                                                  ELSE "rejected"

(* gateway_transition reaches the gateway, whose thread checks it...       *)
SendTransition(r) ==
  /\ At(r, "moving")
  /\ CheckTransition(r, request[r].session, Target(r))
  /\ UNCHANGED <<consoleVars, execVars>>

(* ... appends the event and answers, perhaps to nobody...                 *)
TransitionDone(r) ==
  /\ AppendTransition(r)
  /\ IF At(r, "moving") THEN Goto(r, "record") ELSE UNCHANGED request
  /\ UNCHANGED <<decisions, stored, aged, execVars>>

(* ... or it is refused, or the wait for it ends; then the gateway's       *)
(* thread still goes on.                                                   *)
TransitionFails(r) ==
  /\ At(r, "moving")
  /\ MoveFails(r)
  /\ UNCHANGED <<decisions, stored, aged, execVars, wfVars>>

(* Mutant: the answer is given before it is stored, and never stored.      *)
RecordUnstored(r) ==
  /\ At(r, "record")
  /\ decisions' =
       IF request[r].order.kind = "decide"
       THEN Append(decisions, [action |-> request[r].order.action,
                               verdict |-> request[r].order.verdict,
                               by |-> r, key |-> request[r].key])
       ELSE decisions
  /\ Finished(r, "recorded")
  /\ UNCHANGED <<stored, aged, execVars, wfVars>>

(* record_decision, or the audit event of a transition.  The decision row  *)
(* and its audit event are one transaction.                                *)
RecordResult(r) ==
  /\ At(r, "record")
  /\ decisions' =
       IF request[r].order.kind = "decide"
       THEN Append(decisions, [action |-> request[r].order.action,
                               verdict |-> request[r].order.verdict,
                               by |-> r, key |-> request[r].key])
       ELSE decisions
  /\ IF request[r].key # NoKey THEN Goto(r, "store")
                               ELSE Finished(r, "recorded")
  /\ UNCHANGED <<stored, aged, execVars, wfVars>>

(* The console process ends: its threads are gone, the tables are kept.    *)
ConsoleCrash ==
  /\ \E r \in Requests : request[r].stage \notin {"idle", "done"}
  /\ request' = [r \in Requests |->
       IF request[r].stage \in {"idle", "done"} THEN request[r]
       ELSE [request[r] EXCEPT !.stage = "done", !.end = "crashed"]]
  /\ stored' = {e \in stored : ~e.expired}
  /\ UNCHANGED <<decisions, aged, execVars, wfVars>>

-----------------------------------------------------------------------------
(* The agents move the workflow with the gateway's token.                  *)
AgentStep(m) ==
  /\ \/ \E s \in Sessions, state \in AgentMoves :
          CheckTransition(m, s, state)
     \/ AppendTransition(m)
  /\ UNCHANGED <<consoleVars, execVars>>

ConsoleStep(r) ==
  \/ \E via \in {"api", "page"}, key \in ReplayKeys \cup {NoKey}, o \in Asked :
       Arrive(r, via, key, o)
  \/ Lookup(r)
  \/ StoreReply(r)
  \/ AskApprove(r)
  \/ FindIncident(r)
  \/ ChooseSession(r)
  \/ SendTransition(r)
  \/ TransitionDone(r)
  \/ TransitionFails(r)
  \/ RecordResult(r)

DecisionStep ==
  \/ \E r \in Requests : ConsoleStep(r)
  \/ \E e \in stored : KeyExpires(e)
  \/ ConsoleCrash
  \/ \E m \in Agents : AgentStep(m)

-----------------------------------------------------------------------------
DecisionTypeOK ==
  /\ ExecTypeOK
  /\ WorkflowTypeOK
  /\ request \in [Requests -> Threads \cup {Idle}]
  /\ decisions \in Seq(Rows)
  /\ stored \subseteq Replies
  /\ aged \subseteq ReplayKeys \X Scopes

ApprovalCount(a) == Quantify(DOMAIN history[a],
                          LAMBDA i : history[a][i].status = "approved")
ApproveRows(a) == Quantify(DOMAIN decisions,
                           LAMBDA i : /\ decisions[i].action = a
                                      /\ decisions[i].verdict = "approve")
Unrecorded(a) ==
  Quantify(Requests,
           LAMBDA r : /\ request[r] # Idle
                      /\ request[r].order.kind = "decide"
                      /\ request[r].order.action = a
                      /\ request[r].order.verdict = "approve"
                      /\ \/ request[r].stage \in
                              {"find", "session", "moving", "record"}
                         \/ request[r].end \in {"refused", "crashed"})

(* The console's decisions and the executor's approvals agree, although    *)
(* they are kept by two services and written by several requests, retries  *)
(* and crashes: every recorded approval is an approval of its own in the   *)
(* executor's journal, and an approval that is not recorded belongs to a   *)
(* request that is under way, was refused its answer or crashed.           *)
ApprovalsAccounted ==
  \A a \in Actions :
    /\ ApproveRows(a) <= ApprovalCount(a)
    /\ ApprovalCount(a) <= ApproveRows(a) + Unrecorded(a)

(* "identical replays return the original response": an answer that says   *)
(* recorded is true of the very order it answers, be it the first answer   *)
(* or a replay of one given to another request with that key.              *)
RepliesBacked ==
  \A r \in Requests :
    request[r] # Idle /\ request[r].end \in {"recorded", "replayed"} =>
      LET o == request[r].order IN
      \/ /\ o.kind = "decide"
         /\ \E i \in DOMAIN decisions :
              /\ decisions[i].action = o.action
              /\ decisions[i].verdict = o.verdict
              /\ IF request[r].end = "recorded"
                 THEN decisions[i].by = r
                 ELSE decisions[i].key = request[r].key
      \/ /\ o.kind = "workflow"
         /\ \E i \in DOMAIN journal :
              /\ journal[i].state = o.state
              /\ journal[i].session = request[r].session

SameKey(q, r) ==
  /\ request[q].key = request[r].key
  /\ Scope(request[q].order) = Scope(request[r].order)

(* A client that retries with its key after an answer was given does not   *)
(* decide again, until the 24 hours are over: a request that goes on to    *)
(* the handler found no other that had been answered.                      *)
RetryStep ==
  \A r \in Requests :
    At(r, "lookup") /\ request'[r].stage \notin {"lookup", "done"} =>
      \A q \in Requests :
        /\ request[q] # Idle
        /\ request[q].end = "recorded"
        /\ SameKey(q, r)
        => <<request[r].key, Scope(request[r].order)>> \in aged

RetryFindsReply == [][RetryStep]_decisionVars

(* An event continues the session where the event before it left it, so    *)
(* that a rejected or completed session, which no transition leaves, gets  *)
(* no further event.                                                       *)
JournalIsChain ==
  \A i \in DOMAIN journal :
    \A k \in 1..(i - 1) :
      /\ journal[k].session = journal[i].session
      /\ \A j \in (k + 1)..(i - 1) : journal[j].session # journal[i].session
      => journal[i].previous = journal[k].state
=============================================================================
