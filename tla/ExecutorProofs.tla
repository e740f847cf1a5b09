--------------------------- MODULE ExecutorProofs ---------------------------
(***************************************************************************)
(* What holds of the executor's journal, its call and the wire whatever    *)
(* laboratory it is wired to, and lemmas about one append: what the        *)
(* theorems about the executor with either laboratory rest on.             *)
(***************************************************************************)
EXTENDS ResponseExecutor, TLAPS

-----------------------------------------------------------------------------
(* Parts of an inductive invariant.                                        *)

(* Every recorded intent to execute cites an approval that was good then.  *)
IntentsApproved ==
  \A a \in Actions : \A d \in DOMAIN history[a] :
    history[a][d].status = "execution_dispatched" => CitesApproval(a, d)

(* A history starts with its proposal, of a kind its mode can execute.     *)
ProposalsFirst ==
  \A a \in Actions :
    Proposed(a) =>
      /\ Proposal(a) \in Proposals
      /\ Proposal(a).kind \in HostKinds <=> Proposal(a).mode = "host_lab"

(* The call a handler waits for was recorded before it was made.           *)
CallIntended == call # NoCall => Has(call.action, {Dispatched[call.phase]})

(* Nothing is sent, waited for or given up without a recorded intent.      *)
SentAfterIntent ==
  /\ CallIntended
  /\ \A a \in Actions, phase \in Phases :
       /\ Has(a, {Unknown[phase]}) => Has(a, {Dispatched[phase]})
       /\ <<a, phase>> \in inflight => Has(a, {Dispatched[phase]})

ExecInvariant == ExecTypeOK /\ IntentsApproved /\ ProposalsFirst /\ SentAfterIntent

-----------------------------------------------------------------------------
(* Lemmas about one append.                                                *)

(* What appending one record to one history does to all of them.           *)
LEMMA RecordAppends ==
  ASSUME history \in [Actions -> Seq(Records)],
         NEW a \in Actions, NEW e \in Records, Record(a, e)
  PROVE  /\ history' \in [Actions -> Seq(Records)]
         /\ \A b \in Actions : b # a => history'[b] = history[b]
         /\ Len(history'[a]) = Len(history[a]) + 1
         /\ history'[a][Len(history[a]) + 1] = e
         /\ \A i \in DOMAIN history[a] : history'[a][i] = history[a][i]
         /\ DOMAIN history[a] = 1..Len(history[a])
         /\ DOMAIN history'[a] = 1..(Len(history[a]) + 1)
         /\ Len(history[a]) \in Nat
<1>1. history[a] \in Seq(Records)
  OBVIOUS
<1>2. history' = [history EXCEPT ![a] = Append(history[a], e)]
  BY DEF Record
<1>3. history'[a] = Append(history[a], e)
  BY <1>2
<1>4. Append(history[a], e) \in Seq(Records)
  BY <1>1
<1>5. history' \in [Actions -> Seq(Records)]
  BY <1>2, <1>4
<1>. QED
  BY <1>1, <1>2, <1>3, <1>5

(* A status is in a history after an append if it was there before, or is  *)
(* the one appended.                                                       *)
LEMMA HasAfterRecord ==
  ASSUME history \in [Actions -> Seq(Records)],
         NEW a \in Actions, NEW e \in Records, Record(a, e),
         NEW b \in Actions, NEW S
  PROVE  Has(b, S)' <=> Has(b, S) \/ (b = a /\ e.status \in S)
<1>1. CASE b # a
  BY <1>1, RecordAppends DEF Has
<1>2. CASE b = a
  <2>1. /\ Len(history'[a]) = Len(history[a]) + 1
        /\ history'[a][Len(history[a]) + 1] = e
        /\ \A i \in DOMAIN history[a] : history'[a][i] = history[a][i]
        /\ DOMAIN history[a] = 1..Len(history[a])
        /\ DOMAIN history'[a] = 1..(Len(history[a]) + 1)
        /\ Len(history[a]) \in Nat
    BY RecordAppends
  <2>2. ASSUME Has(a, S)' PROVE Has(a, S) \/ e.status \in S
    <3>1. PICK i \in 1..(Len(history[a]) + 1) : history'[a][i].status \in S
      BY <2>1, <2>2 DEF Has
    <3>2. i \in DOMAIN history[a] \/ i = Len(history[a]) + 1
      BY <2>1
    <3>. QED
      BY <2>1, <3>1, <3>2 DEF Has
  <2>3. ASSUME Has(a, S) PROVE Has(a, S)'
    <3>1. PICK i \in DOMAIN history[a] : history[a][i].status \in S
      BY <2>3 DEF Has
    <3>2. i \in DOMAIN history'[a] /\ history'[a][i].status \in S
      BY <2>1, <3>1
    <3>. QED
      BY <3>2 DEF Has
  <2>4. ASSUME e.status \in S PROVE Has(a, S)'
    <3>1. Len(history[a]) + 1 \in DOMAIN history'[a]
      BY <2>1
    <3>. QED
      BY <2>1, <2>4, <3>1 DEF Has
  <2>. QED
    BY <1>2, <2>2, <2>3, <2>4
<1>. QED
  BY <1>1, <1>2

(* Every executor step either leaves the journal alone or appends one      *)
(* well-formed record to the history of one action.                        *)
LEMMA ExecutorTypes ==
  ASSUME ExecTypeOK, NEW env \in Nat, ExecutorStep(env)
  PROVE  ExecTypeOK'
<1>. USE DEF ExecTypeOK
<1>1. ASSUME NEW a \in Actions, NEW key \in Keys, NEW kind \in Kinds,
             Propose(a, key, kind, env)
      PROVE  ExecTypeOK'
  <2>1. [status |-> "pending_approval", key |-> key, kind |-> kind,
         mode |-> config.mode, url |-> config.url,
         env |-> IF config.mode \in LabModes THEN env ELSE 0] \in Records
    BY ConfigsAssumption DEF Records, Proposals
  <2>. QED
    BY <1>1, <2>1, RecordAppends DEF Propose
<1>2. ASSUME NEW a \in Actions, NEW m \in Minutes, Approve(a, m)
      PROVE  ExecTypeOK'
  <2>1. [status |-> "approved", cites |-> 1, expires |-> now + m] \in Records
    BY TimeAssumption DEF Records, Approvals
  <2>. QED
    BY <1>2, <2>1, RecordAppends DEF Approve
<1>3. ASSUME NEW a \in Actions, NEW phase \in Phases,
             NEW i \in DOMAIN history[a], Dispatch(a, phase, i)
      PROVE  ExecTypeOK'
  <2>1. i \in Nat
    <3>1. history[a] \in Seq(Records)
      OBVIOUS
    <3>. QED
      BY <3>1
  <2>2. [status |-> Dispatched[phase], cites |-> i, at |-> now] \in Records
    BY <2>1 DEF Records, Decisions, Dispatched, Phases
  <2>3. call' \in Calls
    BY <1>3 DEF Dispatch, Calls
  <2>. QED
    BY <1>3, <2>2, <2>3, RecordAppends DEF Dispatch
<1>4. ASSUME NEW a \in Actions, Reconcile(a)
      PROVE  ExecTypeOK'
  BY <1>4 DEF Reconcile, Calls
<1>5. ASSUME NEW a \in Actions, NEW i \in DOMAIN history[a],
             NEW status \in {"executed", "rolled_back"},
             Record(a, [status |-> status, cites |-> i, at |-> now]),
             UNCHANGED <<auditValid, config, now, call, inflight, posts>>
      PROVE  ExecTypeOK'
  <2>1. i \in Nat
    <3>1. history[a] \in Seq(Records)
      OBVIOUS
    <3>. QED
      BY <3>1
  <2>2. [status |-> status, cites |-> i, at |-> now] \in Records
    BY <2>1 DEF Records, Decisions
  <2>. QED
    BY <1>5, <2>2, RecordAppends
<1>6. ASSUME NEW a \in Actions, Execute(a)
      PROVE  ExecTypeOK'
  BY <1>6, <1>3, <1>4, <1>5 DEF Execute, Phases
<1>7. ASSUME NEW a \in Actions, Rollback(a)
      PROVE  ExecTypeOK'
  BY <1>7, <1>3, <1>4, <1>5 DEF Rollback, Phases
<1>8. CASE SendPost
  <2>1. <<call.action, call.phase>> \in Ops
    BY <1>8 DEF SendPost, Calls, Ops, NoCall
  <2>2. call' \in Calls
    BY <1>8 DEF SendPost, Calls, NoCall
  <2>3. inflight' \subseteq Ops
    BY <1>8, <2>1 DEF SendPost
  <2>4. posts' \in [Ops -> Nat]
    <3>1. posts[<<call.action, call.phase>>] + 1 \in Nat
      BY <2>1
    <3>2. posts' = [posts EXCEPT ![<<call.action, call.phase>>] =
                      posts[<<call.action, call.phase>>] + 1]
      BY <1>8 DEF SendPost
    <3>. QED
      BY <3>1, <3>2
  <2>. QED
    BY <1>8, <2>2, <2>3, <2>4 DEF SendPost
<1>9. CASE Finish
  <2>1. call.action \in Actions /\ call.phase \in Phases
    BY <1>9 DEF Finish, Calls
  <2>2. [status |-> IF call.reply = "rejected" THEN "execution_rejected"
                                              ELSE Done[call.phase]]
          \in Records
    BY <2>1 DEF Records, Outcomes, Done, Phases
  <2>. QED
    BY <1>9, <2>1, <2>2, RecordAppends DEF Finish
<1>10. CASE NoReceipt
  <2>1. call.action \in Actions /\ call.phase \in Phases
    BY <1>10 DEF NoReceipt, Calls
  <2>2. [status |-> Unknown[call.phase]] \in Records
    BY <2>1 DEF Records, Outcomes, Unknown, Phases
  <2>. QED
    BY <1>10, <2>1, <2>2, RecordAppends DEF NoReceipt
<1>11. ASSUME NEW c \in Configs, Crash(c)
       PROVE  ExecTypeOK'
  BY <1>11 DEF Crash
<1>12. CASE TornAppend
  BY <1>12 DEF TornAppend
<1>13. CASE Tick
  BY <1>13 DEF Tick
<1>14. ASSUME NEW op \in Ops, LosePost(op)
       PROVE  ExecTypeOK'
  BY <1>14 DEF LosePost
<1>. QED
  BY <1>1, <1>2, <1>4, <1>6, <1>7, <1>8, <1>9, <1>10, <1>11, <1>12, <1>13,
     <1>14 DEF ExecutorStep, HandlerStep

(* What it does to proposals and to what was recorded last.                *)
LEMMA ProposalAfterRecord ==
  ASSUME history \in [Actions -> Seq(Records)],
         NEW a \in Actions, NEW e \in Records, Record(a, e),
         NEW b \in Actions
  PROVE  /\ Proposed(b)' <=> Proposed(b) \/ b = a
         /\ Proposed(b) => Proposal(b)' = Proposal(b)
         /\ ~Proposed(a) => Proposal(a)' = e
         /\ LastStatus(b)' = IF b = a THEN e.status ELSE LastStatus(b)
<1>1. /\ history' \in [Actions -> Seq(Records)]
      /\ \A c \in Actions : c # a => history'[c] = history[c]
      /\ Len(history'[a]) = Len(history[a]) + 1
      /\ history'[a][Len(history[a]) + 1] = e
      /\ \A i \in DOMAIN history[a] : history'[a][i] = history[a][i]
      /\ DOMAIN history[a] = 1..Len(history[a])
      /\ Len(history[a]) \in Nat
  BY RecordAppends
<1>2. history'[a] # <<>>
  BY <1>1
<1>3. ASSUME Proposed(a) PROVE history'[a][1] = history[a][1]
  <2>1. history[a] \in Seq(Records) /\ history[a] # <<>>
    BY <1>3 DEF Proposed
  <2>2. 1 \in 1..Len(history[a])
    BY <2>1
  <2>. QED
    BY <1>1, <2>2
<1>4. ASSUME ~Proposed(a) PROVE history'[a][1] = e
  <2>1. Len(history[a]) = 0
    BY <1>4 DEF Proposed
  <2>. QED
    BY <1>1, <2>1
<1>5. CASE b = a
  BY <1>1, <1>2, <1>3, <1>4, <1>5 DEF Proposed, Proposal, LastStatus
<1>6. CASE b # a
  BY <1>1, <1>4, <1>6 DEF Proposed, Proposal, LastStatus
<1>. QED
  BY <1>5, <1>6

(* A record that is not an execution never activates an action, and a      *)
(* rollback record deactivates it.                                         *)
LEMMA ActiveAfterRecord ==
  ASSUME history \in [Actions -> Seq(Records)],
         NEW a \in Actions, NEW e \in Records, Record(a, e),
         e.status # "executed",
         \/ ~Active(a)
         \/ e.status \in {"rolled_back", "rollback_dispatched",
                          "rollback_unknown"}
  PROVE  ~Active(a)'
<1>1. /\ Len(history'[a]) = Len(history[a]) + 1
      /\ history'[a][Len(history[a]) + 1] = e
      /\ \A i \in DOMAIN history[a] : history'[a][i] = history[a][i]
      /\ DOMAIN history[a] = 1..Len(history[a])
      /\ DOMAIN history'[a] = 1..(Len(history[a]) + 1)
      /\ Len(history[a]) \in Nat
  BY RecordAppends
<1>2. SUFFICES ASSUME Active(a)' PROVE FALSE
  OBVIOUS
<1>3. PICK i \in 1..(Len(history[a]) + 1) :
        /\ history'[a][i].status = "executed"
        /\ \A j \in 1..(Len(history[a]) + 1) : j > i =>
             history'[a][j].status \notin
               {"rolled_back", "rollback_dispatched", "rollback_unknown"}
  BY <1>1, <1>2 DEF Active
<1>4. i \in 1..Len(history[a])
  BY <1>1, <1>3
<1>5. e.status \notin {"rolled_back", "rollback_dispatched",
                      "rollback_unknown"}
  BY <1>1, <1>3, <1>4
<1>6. /\ history[a][i].status = "executed"
      /\ \A j \in DOMAIN history[a] : j > i =>
           history[a][j].status \notin
             {"rolled_back", "rollback_dispatched", "rollback_unknown"}
  BY <1>1, <1>3, <1>4
<1>7. Active(a)
  BY <1>1, <1>4, <1>6 DEF Active
<1>. QED
  BY <1>5, <1>7

(* Recorded intents keep citing their approvals, and a new one does.       *)
LEMMA IntentsAfterRecord ==
  ASSUME history \in [Actions -> Seq(Records)],
         NEW a \in Actions, NEW e \in Records, Record(a, e),
         IntentsApproved,
         e.status = "execution_dispatched" =>
           \E i \in DOMAIN history[a] :
             /\ e.cites = i
             /\ history[a][i].status = "approved"
             /\ history[a][i].cites = 1
             /\ e.at <= history[a][i].expires
  PROVE  IntentsApproved'
<1>1. /\ \A b \in Actions : b # a => history'[b] = history[b]
      /\ Len(history'[a]) = Len(history[a]) + 1
      /\ history'[a][Len(history[a]) + 1] = e
      /\ \A i \in DOMAIN history[a] : history'[a][i] = history[a][i]
      /\ DOMAIN history[a] = 1..Len(history[a])
      /\ DOMAIN history'[a] = 1..(Len(history[a]) + 1)
      /\ Len(history[a]) \in Nat
  BY RecordAppends
<1>2. SUFFICES ASSUME NEW b \in Actions, NEW d \in DOMAIN history'[b],
                      history'[b][d].status = "execution_dispatched"
               PROVE  CitesApproval(b, d)'
  BY DEF IntentsApproved
<1>3. CASE b # a
  BY <1>1, <1>2, <1>3 DEF IntentsApproved, CitesApproval
<1>4. CASE b = a /\ d \in DOMAIN history[a]
  <2>1. CitesApproval(a, d)
    BY <1>1, <1>2, <1>4 DEF IntentsApproved
  <2>2. history[a][d].cites \in 1..(d - 1) /\ d \in 1..Len(history[a])
    BY <1>1, <1>4, <2>1 DEF CitesApproval
  <2>3. history[a][d].cites \in 1..Len(history[a])
    BY <1>1, <2>2
  <2>. QED
    BY <1>1, <1>4, <2>1, <2>3 DEF CitesApproval
<1>5. CASE b = a /\ d = Len(history[a]) + 1
  <2>1. PICK i \in 1..Len(history[a]) :
          /\ e.cites = i
          /\ history[a][i].status = "approved"
          /\ history[a][i].cites = 1
          /\ e.at <= history[a][i].expires
    BY <1>1, <1>2, <1>5
  <2>2. i \in 1..(d - 1)
    BY <1>1, <1>5, <2>1
  <2>. QED
    BY <1>1, <1>5, <2>1, <2>2 DEF CitesApproval
<1>. QED
  BY <1>1, <1>2, <1>3, <1>4, <1>5
-----------------------------------------------------------------------------
(* What the handlers append.                                               *)

(* A record e that may follow the history of a: an intent cites a good     *)
(* approval, and an outcome was told by a receipt, unless it is simulated. *)
Lawful(a, e) ==
  /\ e.status \in {"approved", "execution_dispatched", "rollback_dispatched",
                   "execution_unknown", "rollback_unknown", "executed",
                   "rolled_back", "execution_rejected"}
  /\ e.status = "execution_dispatched" =>
       \E i \in DOMAIN history[a] :
         /\ e.cites = i
         /\ history[a][i].status = "approved"
         /\ history[a][i].cites = 1
         /\ e.at <= history[a][i].expires
  /\ e.status = "executed" =>
       \/ Proposal(a).mode = "simulation"
       \/ /\ call # NoCall /\ call.action = a
          /\ call.phase = "execution" /\ call.reply = "applied"
  /\ e.status = "execution_rejected" =>
       call # NoCall /\ call.action = a /\ call.reply = "rejected"
  /\ e.status \in {"execution_unknown", "rollback_unknown"} =>
       call # NoCall /\ call.action = a /\ e.status = Unknown[call.phase]

(* A handler appends at most one record, and a lawful one.                 *)
LEMMA HandlerAppends ==
  ASSUME ExecTypeOK, SentAfterIntent, HandlerStep
  PROVE  \/ UNCHANGED history
         \/ \E a \in Actions, e \in Records :
              Record(a, e) /\ Proposed(a) /\ Lawful(a, e)
<1>1. /\ history \in [Actions -> Seq(Records)] /\ now \in Nat
      /\ call \in Calls \cup {NoCall}
  BY DEF ExecTypeOK
<1>2. ASSUME NEW a \in Actions, NEW m \in Minutes, Approve(a, m)
      PROVE  \E e \in Records : Record(a, e) /\ Proposed(a) /\ Lawful(a, e)
  <2> PICK e : e = [status |-> "approved", cites |-> 1, expires |-> now + m]
    OBVIOUS
  <2>1. e \in Records
    BY <1>1, TimeAssumption DEF Records, Approvals
  <2> QED
    BY <1>2, <2>1 DEF Approve, Lawful
<1>3. ASSUME NEW a \in Actions, NEW i \in DOMAIN history[a]
      PROVE  i \in Nat
  <2>1. history[a] \in Seq(Records)
    BY <1>1
  <2> QED
    BY <2>1
<1>4. ASSUME NEW a \in Actions, NEW i \in DOMAIN history[a], Proposed(a), Authorises(a, i),
             Dispatch(a, "execution", i)
      PROVE  \E e \in Records : Record(a, e) /\ Proposed(a) /\ Lawful(a, e)
  <2> PICK e : e = [status |-> "execution_dispatched", cites |-> i, at |-> now]
    OBVIOUS
  <2>1. e \in Records
    BY <1>1, <1>3 DEF Records, Decisions
  <2>2. Record(a, e)
    BY <1>4 DEF Dispatch, Dispatched
  <2>3. Lawful(a, e)
    BY <1>4 DEF Authorises, IsLatest, Lawful
  <2> QED
    BY <1>4, <2>1, <2>2, <2>3
<1>5. ASSUME NEW a \in Actions, NEW i \in DOMAIN history[a], Proposed(a),
             Dispatch(a, "rollback", i)
      PROVE  \E e \in Records : Record(a, e) /\ Proposed(a) /\ Lawful(a, e)
  <2> PICK e : e = [status |-> "rollback_dispatched", cites |-> i, at |-> now]
    OBVIOUS
  <2>1. e \in Records
    BY <1>1, <1>3 DEF Records, Decisions
  <2>2. Record(a, e)
    BY <1>5 DEF Dispatch, Dispatched
  <2> QED
    BY <1>5, <2>1, <2>2 DEF Lawful
<1>6. ASSUME NEW a \in Actions, NEW i \in DOMAIN history[a], Proposed(a),
             NEW status \in {"executed", "rolled_back"},
             status = "executed" => Proposal(a).mode = "simulation",
             Record(a, [status |-> status, cites |-> i, at |-> now])
      PROVE  \E e \in Records : Record(a, e) /\ Proposed(a) /\ Lawful(a, e)
  <2> PICK e : e = [status |-> status, cites |-> i, at |-> now]
    OBVIOUS
  <2>1. e \in Records
    BY <1>1, <1>3 DEF Records, Decisions
  <2> QED
    BY <1>6, <2>1 DEF Lawful
<1>7. ASSUME NEW a \in Actions, Reconcile(a)
      PROVE  UNCHANGED history
  BY <1>7 DEF Reconcile
<1>8. ASSUME NEW a \in Actions, Execute(a)
      PROVE  \/ UNCHANGED history
             \/ \E e \in Records : Record(a, e) /\ Proposed(a) /\ Lawful(a, e)
  BY <1>4, <1>6, <1>7, <1>8 DEF Execute
<1>9. ASSUME NEW a \in Actions, Rollback(a)
      PROVE  \/ UNCHANGED history
             \/ \E e \in Records : Record(a, e) /\ Proposed(a) /\ Lawful(a, e)
  <2>1. Proposed(a)
    <3>1. history[a] \in Seq(Records) /\ DOMAIN history[a] # {}
      BY <1>1, <1>9 DEF Rollback
    <3> QED
      BY <3>1 DEF Proposed
  <2>2. PICK i \in DOMAIN history[a] :
          \/ Reconcile(a)
          \/ Dispatch(a, "rollback", i)
          \/ Record(a, [status |-> "rolled_back", cites |-> i, at |-> now])
    BY <1>9 DEF Rollback
  <2>3. CASE Record(a, [status |-> "rolled_back", cites |-> i, at |-> now])
    BY <1>6, <2>1, <2>3
  <2> QED
    BY <1>5, <1>7, <2>1, <2>2, <2>3
<1>10. ASSUME call # NoCall
       PROVE  call.action \in Actions /\ call.phase \in Phases /\ Proposed(call.action)
  <2>1. call.action \in Actions /\ call.phase \in Phases
    BY <1>1, <1>10 DEF Calls
  <2>2. Has(call.action, {Dispatched[call.phase]})
    BY <1>10 DEF SentAfterIntent, CallIntended
  <2> QED
    BY <1>1, <2>1, <2>2 DEF Has, Proposed
<1>11. CASE Finish
  <2> PICK e : e = [status |-> IF call.reply = "rejected" THEN "execution_rejected"
                                                          ELSE Done[call.phase]]
    OBVIOUS
  <2>1. call # NoCall /\ Record(call.action, e) /\ ValidReceipt
    BY <1>11 DEF Finish
  <2>2. e \in Records
    BY <1>10, <2>1 DEF Records, Outcomes, Done, Phases
  <2>3. Lawful(call.action, e)
    BY <1>10, <2>1 DEF Lawful, ValidReceipt, Done, Phases
  <2> QED
    BY <1>10, <2>1, <2>2, <2>3
<1>12. CASE NoReceipt
  <2> PICK e : e = [status |-> Unknown[call.phase]]
    OBVIOUS
  <2>1. call # NoCall /\ (Record(call.action, e) \/ UNCHANGED history)
    BY <1>12 DEF NoReceipt
  <2>2. e \in Records
    BY <1>10, <2>1 DEF Records, Outcomes, Unknown, Phases
  <2>3. Lawful(call.action, e)
    BY <1>10, <2>1 DEF Lawful, Unknown, Phases
  <2> QED
    BY <1>10, <2>1, <2>2, <2>3
<1>13. CASE \/ SendPost \/ (\E c \in Configs : Crash(c)) \/ TornAppend \/ Tick
            \/ \E op \in Ops : LosePost(op)
  BY <1>13 DEF SendPost, Crash, TornAppend, Tick, LosePost
<1> QED
  BY <1>2, <1>7, <1>8, <1>9, <1>11, <1>12, <1>13 DEF HandlerStep

(* A handler begins, waits for, or ends a call; it makes up no answer.     *)
LEMMA HandlerCalls ==
  ASSUME ExecTypeOK, HandlerStep
  PROVE  \/ call' = NoCall
         \/ UNCHANGED call
         \/ call' # NoCall /\ call'.reply \in {"unsent", "waiting"}
<1>1. call \in Calls \cup {NoCall}
  BY DEF ExecTypeOK
<1>2. ASSUME NEW a \in Actions, NEW phase \in Phases, NEW i, Dispatch(a, phase, i)
      PROVE  call' # NoCall /\ call'.reply \in {"unsent", "waiting"}
  BY <1>2 DEF Dispatch, NoCall
<1>3. ASSUME NEW a \in Actions, Reconcile(a)
      PROVE  call' # NoCall /\ call'.reply \in {"unsent", "waiting"}
  BY <1>3 DEF Reconcile, NoCall
<1>4. CASE SendPost
  <2>1. call \in Calls /\ call' = [call EXCEPT !.reply = "waiting"]
    BY <1>1, <1>4 DEF SendPost
  <2> QED
    BY <2>1 DEF Calls, NoCall
<1>5. ASSUME NEW a \in Actions, Execute(a) \/ Rollback(a)
      PROVE  \/ UNCHANGED call
             \/ call' # NoCall /\ call'.reply \in {"unsent", "waiting"}
  BY <1>2, <1>3, <1>5 DEF Execute, Rollback, Phases
<1> QED
  BY <1>3, <1>4, <1>5
  DEF HandlerStep, Approve, Finish, NoReceipt, Crash, TornAppend, Tick, LosePost

(* A step that appends a lawful record keeps the journal's invariants.     *)
LEMMA JournalGrows ==
  ASSUME history \in [Actions -> Seq(Records)], IntentsApproved, ProposalsFirst,
         NEW a \in Actions, NEW e \in Records, Record(a, e), Proposed(a), Lawful(a, e)
  PROVE  /\ IntentsApproved' /\ ProposalsFirst'
         /\ \A b \in Actions : (Proposed(b)' <=> Proposed(b))
                               /\ (Proposed(b) => Proposal(b)' = Proposal(b))
         /\ \A b \in Actions : \A S : Has(b, S)' <=> Has(b, S) \/ (b = a /\ e.status \in S)
<1>1. IntentsApproved'
  BY IntentsAfterRecord DEF Lawful
<1>2. \A b \in Actions : (Proposed(b)' <=> Proposed(b))
                         /\ (Proposed(b) => Proposal(b)' = Proposal(b))
  BY ProposalAfterRecord
<1>3. \A b \in Actions : \A S : Has(b, S)' <=> Has(b, S) \/ (b = a /\ e.status \in S)
  BY HasAfterRecord
<1>4. ProposalsFirst'
  BY <1>2 DEF ProposalsFirst
<1> QED
  BY <1>1, <1>2, <1>3, <1>4

(* What is sent, waited for or given up was recorded before, and stays so. *)
LEMMA IntentsStay ==
  ASSUME ExecTypeOK, SentAfterIntent, HandlerStep,
         \A b \in Actions : \A S : Has(b, S) => Has(b, S)',
         \A a \in Actions, phase \in Phases :
           Has(a, {Unknown[phase]})' =>
             Has(a, {Unknown[phase]}) \/ Has(a, {Dispatched[phase]})
  PROVE  SentAfterIntent'
<1>1. call \in Calls \cup {NoCall} /\ inflight \subseteq Ops
      /\ history \in [Actions -> Seq(Records)]
  BY DEF ExecTypeOK
<1>2. ASSUME call # NoCall
      PROVE  call.action \in Actions /\ call.phase \in Phases
  BY <1>1, <1>2 DEF Calls
<1>3. ASSUME NEW a \in Actions, Reconcile(a)
      PROVE  CallIntended'
  <2>1. PICK phase \in Phases :
          /\ Proposed(a) /\ LastStatus(a) \in {Dispatched[phase], Unknown[phase]}
          /\ call'.action = a /\ call'.phase = phase
    BY <1>3 DEF Reconcile
  <2>2. Len(history[a]) \in DOMAIN history[a]
    BY <1>1, <2>1 DEF Proposed
  <2>3. Has(a, {Dispatched[phase]}) \/ Has(a, {Unknown[phase]})
    BY <2>1, <2>2 DEF Has, LastStatus
  <2>4. Has(a, {Dispatched[phase]})
    BY <2>3 DEF SentAfterIntent
  <2>5. Has(a, {Dispatched[phase]})'
    BY <2>4
  <2> QED
    BY <2>1, <2>5 DEF CallIntended
<1>4. ASSUME NEW a \in Actions, NEW phase \in Phases, NEW i \in DOMAIN history[a],
             Dispatch(a, phase, i)
      PROVE  CallIntended'
  <2> PICK e : e = [status |-> Dispatched[phase], cites |-> i, at |-> now]
    OBVIOUS
  <2>1. i \in Nat
    <3>1. history[a] \in Seq(Records)
      BY <1>1
    <3> QED
      BY <3>1
  <2>2. e \in Records
    BY <2>1 DEF Records, Decisions, Dispatched, Phases, ExecTypeOK
  <2>3. Record(a, e) /\ call'.action = a /\ call'.phase = phase
    BY <1>4 DEF Dispatch
  <2>4. Has(a, {Dispatched[phase]})'
    BY <1>1, <2>2, <2>3, HasAfterRecord
  <2> QED
    BY <2>3, <2>4 DEF CallIntended
<1>5. ASSUME NEW a \in Actions, Execute(a) \/ Rollback(a)
      PROVE  \/ UNCHANGED call
             \/ CallIntended'
  BY <1>3, <1>4, <1>5 DEF Execute, Rollback, Phases
<1>6. ASSUME UNCHANGED call
      PROVE  CallIntended'
  BY <1>2, <1>6 DEF SentAfterIntent, CallIntended
<1>7. ASSUME SendPost
      PROVE  CallIntended'
  <2>1. /\ call # NoCall /\ call \in Calls /\ call'.action = call.action
        /\ call'.phase = call.phase
    BY <1>1, <1>7 DEF SendPost, Calls
  <2>2. Has(call.action, {Dispatched[call.phase]})'
    BY <1>2, <2>1 DEF SentAfterIntent, CallIntended
  <2> QED
    BY <2>1, <2>2 DEF CallIntended
<1>8. CallIntended'
  <2>1. \/ UNCHANGED call \/ call' = NoCall \/ SendPost
        \/ (\E a \in Actions : Execute(a) \/ Rollback(a) \/ Reconcile(a))
    BY DEF HandlerStep, Approve, Finish, NoReceipt, Crash, TornAppend, Tick, LosePost
  <2>2. CASE call' = NoCall
    BY <2>2 DEF CallIntended
  <2>3. ASSUME NEW a \in Actions, Execute(a) \/ Rollback(a) \/ Reconcile(a)
        PROVE  CallIntended'
    BY <1>3, <1>5, <1>6, <2>3
  <2> QED
    BY <1>6, <1>7, <2>1, <2>2, <2>3
<1>9. ASSUME NEW a \in Actions, NEW phase \in Phases, <<a, phase>> \in inflight'
      PROVE  Has(a, {Dispatched[phase]})'
  <2>1. CASE <<a, phase>> \in inflight
    BY <2>1 DEF SentAfterIntent
  <2>2. CASE <<a, phase>> \notin inflight
    <3>1. SendPost
      BY <1>9, <2>2
      DEF HandlerStep, Approve, Execute, Rollback, Reconcile, Dispatch, Finish, NoReceipt,
          Crash, TornAppend, Tick, LosePost
    <3>2. call # NoCall /\ <<a, phase>> = <<call.action, call.phase>>
      BY <1>9, <2>2, <3>1 DEF SendPost
    <3> QED
      BY <3>2 DEF SentAfterIntent, CallIntended
  <2> QED
    BY <2>1, <2>2
<1>10. \A a \in Actions, phase \in Phases :
         Has(a, {Unknown[phase]})' => Has(a, {Dispatched[phase]})'
  BY DEF SentAfterIntent
<1> QED
  BY <1>8, <1>9, <1>10 DEF SentAfterIntent

(* A handler keeps the invariant.                                          *)
LEMMA HandlerKeeps ==
  ASSUME ExecInvariant, HandlerStep
  PROVE  ExecInvariant'
<1>1. ExecTypeOK'
  <2>1. ExecutorStep(0) /\ 0 \in Nat
    BY DEF ExecutorStep
  <2> QED
    BY <2>1, ExecutorTypes DEF ExecInvariant
<1>2. CASE UNCHANGED history
  <2>1. IntentsApproved' /\ ProposalsFirst'
    BY <1>2 DEF ExecInvariant, IntentsApproved, ProposalsFirst, CitesApproval, Proposed, Proposal
  <2>2. \A b \in Actions : \A S : Has(b, S)' <=> Has(b, S)
    BY <1>2 DEF Has
  <2>3. SentAfterIntent'
    BY <2>2, IntentsStay DEF ExecInvariant
  <2> QED
    BY <1>1, <2>1, <2>3 DEF ExecInvariant
<1>3. ASSUME NEW a \in Actions, NEW e \in Records, Record(a, e), Proposed(a), Lawful(a, e)
      PROVE  ExecInvariant'
  <2>1. IntentsApproved' /\ ProposalsFirst'
    BY <1>3, JournalGrows DEF ExecInvariant, ExecTypeOK
  <2>2. \A b \in Actions : \A S : Has(b, S)' <=> Has(b, S) \/ (b = a /\ e.status \in S)
    BY <1>3, HasAfterRecord DEF ExecInvariant, ExecTypeOK
  <2>3. ASSUME NEW b \in Actions, NEW phase \in Phases, Has(b, {Unknown[phase]})'
        PROVE  Has(b, {Unknown[phase]}) \/ Has(b, {Dispatched[phase]})
    <3>1. CASE Has(b, {Unknown[phase]})
      BY <3>1
    <3>2. CASE ~Has(b, {Unknown[phase]})
      <4>1. b = a /\ e.status = Unknown[phase]
        BY <2>2, <2>3, <3>2
      <4>2. /\ call # NoCall /\ call.action = a /\ e.status = Unknown[call.phase]
            /\ call.phase \in Phases
        BY <1>3, <4>1 DEF Lawful, Unknown, Phases, ExecInvariant, ExecTypeOK, Calls
      <4>3. phase = call.phase
        BY <4>1, <4>2 DEF Unknown, Phases
      <4> QED
        BY <4>1, <4>2, <4>3 DEF ExecInvariant, SentAfterIntent, CallIntended
    <3> QED
      BY <3>1, <3>2
  <2>4. SentAfterIntent'
    BY <2>2, <2>3, IntentsStay DEF ExecInvariant
  <2> QED
    BY <1>1, <2>1, <2>4 DEF ExecInvariant
<1> QED
  BY <1>2, <1>3, HandlerAppends DEF ExecInvariant

(* A proposal opens a history, and changes nothing else.                   *)
LEMMA ProposalKeeps ==
  ASSUME ExecInvariant, NEW a \in Actions, NEW key \in Keys, NEW kind \in Kinds,
         NEW env \in Nat, Propose(a, key, kind, env)
  PROVE  /\ ExecInvariant' /\ UNCHANGED <<call, inflight>>
         /\ ~Proposed(a) /\ Proposal(a)'.env \in {0, env}
         /\ \A S : ~Has(a, S)
         /\ \A b \in Actions : Proposed(b)' <=> Proposed(b) \/ b = a
         /\ \A b \in Actions : Proposed(b) => Proposal(b)' = Proposal(b)
         /\ \A b \in Actions : \A S : Has(b, S) => Has(b, S)'
         /\ \A b \in Actions : \A S :
              Has(b, S)' => Has(b, S) \/ "pending_approval" \in S
<1> PICK e : e = [status |-> "pending_approval", key |-> key, kind |-> kind,
                  mode |-> config.mode, url |-> config.url,
                  env |-> IF config.mode \in LabModes THEN env ELSE 0]
  OBVIOUS
<1>1. history \in [Actions -> Seq(Records)] /\ config \in [mode : Modes, url : STRING]
  BY ConfigsAssumption DEF ExecInvariant, ExecTypeOK
<1>2. /\ e \in Proposals /\ e \in Records /\ e.status = "pending_approval"
      /\ e.env \in {0, env}
  BY <1>1 DEF Records, Proposals
<1>3. /\ Record(a, e) /\ ~Proposed(a) /\ UNCHANGED <<call, inflight>>
      /\ e.kind \in HostKinds <=> e.mode = "host_lab"
  BY DEF Propose
<1>4. ExecTypeOK'
  <2>1. ExecutorStep(env)
    BY DEF ExecutorStep
  <2> QED
    BY <2>1, ExecutorTypes DEF ExecInvariant
<1>5. /\ \A b \in Actions : Proposed(b)' <=> Proposed(b) \/ b = a
      /\ \A b \in Actions : Proposed(b) => Proposal(b)' = Proposal(b)
      /\ Proposal(a)' = e
  BY <1>1, <1>2, <1>3, ProposalAfterRecord
<1>6. \A b \in Actions : \A S : Has(b, S)' <=> Has(b, S) \/ (b = a /\ e.status \in S)
  BY <1>1, <1>2, <1>3, HasAfterRecord
<1>7. IntentsApproved'
  BY <1>1, <1>2, <1>3, IntentsAfterRecord DEF ExecInvariant
<1>8. ProposalsFirst'
  BY <1>2, <1>3, <1>5 DEF ExecInvariant, ProposalsFirst
<1>9. SentAfterIntent'
  <2>1. call # NoCall => call.action \in Actions /\ call.phase \in Phases
    BY DEF ExecInvariant, ExecTypeOK, Calls
  <2>2. \A phase \in Phases : Unknown[phase] # "pending_approval"
    BY DEF Unknown, Phases
  <2> QED
    BY <1>2, <1>3, <1>6, <2>1, <2>2 DEF ExecInvariant, SentAfterIntent, CallIntended
<1>10. \A S : ~Has(a, S)
  BY <1>3 DEF Proposed, Has
<1> QED
  BY <1>2, <1>3, <1>4, <1>5, <1>6, <1>7, <1>8, <1>9, <1>10 DEF ExecInvariant

(* An answer, or a request that leaves the wire.                           *)
LEMMA AnswerKeeps ==
  ASSUME ExecInvariant, UNCHANGED <<history, auditValid, config, now, posts>>,
         inflight' \subseteq inflight,
         \/ UNCHANGED call
         \/ \E verb \in {"POST", "GET"}, op \in Ops, answer \in {"applied", "rejected", "error"} :
              Reply(verb, op, answer)
  PROVE  ExecInvariant'
<1>1. /\ call' \in Calls \cup {NoCall}
      /\ call' # NoCall => /\ call # NoCall /\ call'.action = call.action
                           /\ call'.phase = call.phase
  BY DEF ExecInvariant, ExecTypeOK, Reply, Calls
<1>2. ExecTypeOK'
  BY <1>1 DEF ExecInvariant, ExecTypeOK
<1>3. IntentsApproved' /\ ProposalsFirst'
  BY DEF ExecInvariant, IntentsApproved, ProposalsFirst, CitesApproval, Proposed, Proposal
<1>4. SentAfterIntent'
  BY <1>1 DEF ExecInvariant, SentAfterIntent, CallIntended, Has
<1> QED
  BY <1>2, <1>3, <1>4 DEF ExecInvariant

(* The executor starts with nothing.                                       *)
LEMMA ExecutorStarts ==
  ASSUME ExecInit
  PROVE  ExecInvariant /\ \A a \in Actions : ~Proposed(a) /\ \A S : ~Has(a, S)
<1>1. \A a \in Actions : history[a] = <<>> /\ DOMAIN history[a] = {}
  <2>1. \A a \in Actions : history[a] = <<>>
    BY DEF ExecInit
  <2>2. DOMAIN <<>> = {}
    OBVIOUS
  <2> QED
    BY <2>1, <2>2
<1>2. \A a \in Actions : ~Proposed(a) /\ \A S : ~Has(a, S)
  BY <1>1 DEF Proposed, Has
<1>3. ExecTypeOK
  BY DEF ExecInit, ExecTypeOK
<1>4. IntentsApproved /\ ProposalsFirst
  BY <1>1, <1>2 DEF IntentsApproved, ProposalsFirst
<1>5. SentAfterIntent
  BY <1>2 DEF SentAfterIntent, CallIntended, ExecInit
<1> QED
  BY <1>2, <1>3, <1>4, <1>5 DEF ExecInvariant

=============================================================================
