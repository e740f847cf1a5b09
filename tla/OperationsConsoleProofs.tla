----------------------- MODULE OperationsConsoleProofs ----------------------
(***************************************************************************)
(* Theorems about the console's decisions and the gateway's evidence,      *)
(* together with the executor whose journal both are about: whatever the   *)
(* requests, keys, actions, agents, collectors and sizes are, and however  *)
(* long the services run.                                                  *)
(***************************************************************************)
EXTENDS OperationsConsole, ExecutorProofs, FiniteSetTheorems, WellFoundedInduction

(* All that happens to the executor but an approval, which only the        *)
(* console asks for: proposals by the agents, reconciliations, crashes and *)
(* lost requests, and any answer, where OperationsConsole has the steps    *)
(* that matter to one incident of proposals already made.                  *)
ExecutorMoves ==
  \/ \E a \in Actions : Execute(a) \/ Rollback(a) \/ Reconcile(a)
  \/ \E a \in Actions, key \in Keys, kind \in Kinds, env \in Nat :
       Propose(a, key, kind, env)
  \/ SendPost
  \/ \E verb \in {"POST", "GET"}, op \in Ops,
       answer \in {"applied", "rejected", "error"} :
       /\ Reply(verb, op, answer)
       /\ UNCHANGED <<history, auditValid, config, now, inflight, posts>>
  \/ Finish
  \/ NoReceipt
  \/ \E c \in Configs : Crash(c)
  \/ TornAppend
  \/ Tick
  \/ \E op \in Ops : LosePost(op)

ConsoleSystemInit ==
  ExecInit /\ WorkflowInit(<<>>) /\ ConsoleInit /\ EvidenceInit

ConsoleSystemStep ==
  \/ DecisionStep /\ UNCHANGED evidenceVars
  \/ EvidenceStep /\ UNCHANGED <<wfVars, consoleVars>>
  \/ ExecutorMoves /\ UNCHANGED <<wfVars, consoleVars, evidenceVars>>

ConsoleSystemSpec == ConsoleSystemInit /\ [][ConsoleSystemStep]_allVars

-----------------------------------------------------------------------------
(* Parts of the inductive invariants.                                      *)

Undoing == {"rollback_dispatched", "rollback_unknown", "rolled_back"}

(* A rollback follows an execution, was sent by a laboratory's executor    *)
(* and nothing but its own outcome comes after it.                         *)
RollbackTells ==
  \A a \in Actions :
    /\ Has(a, Undoing) => Has(a, {"executed"}) /\ LastStatus(a) \in Undoing
    /\ Has(a, {"rollback_dispatched"}) => Proposal(a).mode = "lab"

(* The operation a handler waits for is still open in the journal.         *)
CallStillOpen ==
  call # NoCall =>
    LastStatus(call.action) \in {Dispatched[call.phase], Unknown[call.phase]}

JournalInvariant == ExecInvariant /\ RollbackTells /\ CallStillOpen

(* What a verified record rests on, whenever it was made.                  *)
Stands(e) ==
  e # Empty /\ e.verdict = "verified" =>
    IF e.scenario = "fixture"
    THEN \A p \in Required : \E a \in Actions : PairOf[a] = p /\ Has(a, {"executed"})
    ELSE e.action \in Actions /\ Has(e.action, {"executed"})

VerdictsStand ==
  /\ \A n \in DOMAIN evidence : Stands(evidence[n])
  /\ \A c \in Collectors : Stands(collecting[c])

EvidenceInvariant == JournalInvariant /\ EvidenceTypeOK /\ VerdictsStand

(* The shape of the console's state.  A session is whatever the gateway    *)
(* named.                                                                  *)
ThreadsIn(S) ==
  [stage : Stages, via : {"api", "page"}, key : ReplayKeys \cup {NoKey},
   order : Orders, session : S, end : Ends]

ConsoleShape ==
  /\ \E S : request \in [Requests -> ThreadsIn(S) \cup {Idle}]
  /\ decisions \in Seq(Rows)
  /\ stored \subseteq Replies
  /\ \E E : journal \in Seq(E)
  /\ \E F : transit \in [Movers -> F]

Decided(o, key) ==
  \E i \in DOMAIN decisions :
    /\ decisions[i].action = o.action
    /\ decisions[i].verdict = o.verdict
    /\ decisions[i].key = key

DecidedBy(r, o) ==
  \E i \in DOMAIN decisions :
    /\ decisions[i].action = o.action
    /\ decisions[i].verdict = o.verdict
    /\ decisions[i].by = r

Moved(state, session) ==
  \E i \in DOMAIN journal :
    journal[i].state = state /\ journal[i].session = session

(* What a thread has reached with what it holds.                           *)
ThreadHonest(r) ==
  LET q == request[r] IN
  IF q = Idle
  THEN transit[r] = NoEvent
  ELSE /\ q.key # NoKey => q.via = "api"
       /\ q.stage \in {"lookup", "store"} => q.key # NoKey
       /\ q.stage \in {"approve", "find"} => q.order.kind = "decide"
       /\ q.stage = "approve" => q.order.verdict = "approve"
       /\ q.stage # "done" => q.end = "none"
       /\ q.order.kind = "workflow" /\ q.via = "api" => q.session = q.order.session
       /\ q.stage \in {"lookup", "approve", "find", "session"} => transit[r] = NoEvent
       /\ q.stage = "moving" /\ transit[r] # NoEvent =>
            transit[r].session = q.session /\ transit[r].state = Target(r)
       /\ q.order.kind = "workflow"
          /\ (q.stage \in {"record", "store"} \/ q.end = "recorded") =>
            Moved(q.order.state, q.session)
       /\ q.order.kind = "decide" /\ (q.stage = "store" \/ q.end = "recorded") =>
            DecidedBy(r, q.order) /\ Decided(q.order, q.key)
       /\ q.end = "replayed" =>
            IF q.order.kind = "decide" THEN Decided(q.order, q.key)
                                       ELSE Moved(q.order.state, q.session)

(* A stored reply is true of its order.                                    *)
StoredBacked ==
  \A e \in stored :
    IF e.order.kind = "decide" THEN Decided(e.order, e.key)
                               ELSE Moved(e.order.state, e.order.session)

(* A recorded answer to a request with a key is found until its day is     *)
(* over.                                                                   *)
AnswersKept ==
  \A r \in Requests :
    request[r] # Idle /\ request[r].end = "recorded" /\ request[r].key # NoKey =>
      \/ <<request[r].key, Scope(request[r].order)>> \in aged
      \/ \E e \in stored : /\ ~e.expired
                           /\ e.key = request[r].key
                           /\ e.scope = Scope(request[r].order)

ReplyInvariant ==
  /\ ConsoleShape
  /\ \A r \in Requests : ThreadHonest(r)
  /\ StoredBacked
  /\ AnswersKept

(* The approvals of an action in the executor's journal, the rows of the   *)
(* console, and the requests between the two.                              *)
ApprovalsOf(a) == {i \in DOMAIN history[a] : history[a][i].status = "approved"}
RowsOf(a) == {i \in DOMAIN decisions : /\ decisions[i].action = a
                                      /\ decisions[i].verdict = "approve"}
Approves(r, a) ==
  /\ request[r] # Idle
  /\ request[r].order.kind = "decide"
  /\ request[r].order.action = a
  /\ request[r].order.verdict = "approve"
UnderWay == {"find", "session", "moving", "record"}
Owes(r, a) == Approves(r, a) /\ request[r].stage \in UnderWay
IsOpen(r, a) ==
  /\ Approves(r, a)
  /\ request[r].stage \in UnderWay \/ request[r].end \in {"refused", "crashed"}
Owing(a) == {r \in Requests : Owes(r, a)}
Open(a) == {r \in Requests : IsOpen(r, a)}

Accounted ==
  \A a \in Actions :
    /\ Cardinality(RowsOf(a)) + Cardinality(Owing(a)) <= Cardinality(ApprovalsOf(a))
    /\ Cardinality(ApprovalsOf(a)) <= Cardinality(RowsOf(a)) + Cardinality(Open(a))

-----------------------------------------------------------------------------
(* The executor's journal.                                                 *)

(* An approval, or any other move of the executor, keeps its invariant.    *)
LEMMA MovesKeepExecutor ==
  ASSUME ExecInvariant,
         ExecutorMoves \/ \E a \in Actions, m \in Minutes : Approve(a, m)
  PROVE  ExecInvariant'
<1>1. ASSUME HandlerStep PROVE ExecInvariant'
  BY <1>1, HandlerKeeps
<1>2. ASSUME NEW a \in Actions, NEW key \in Keys, NEW kind \in Kinds, NEW env \in Nat,
             Propose(a, key, kind, env)
      PROVE  ExecInvariant'
  BY <1>2, ProposalKeeps
<1>3. ASSUME NEW verb \in {"POST", "GET"}, NEW op \in Ops,
             NEW answer \in {"applied", "rejected", "error"}, Reply(verb, op, answer),
             UNCHANGED <<history, auditValid, config, now, inflight, posts>>
      PROVE  ExecInvariant'
  BY <1>3, AnswerKeeps
<1> QED
  BY <1>1, <1>2, <1>3 DEF ExecutorMoves, HandlerStep

(* One record keeps RollbackTells if it respects it.                       *)
LEMMA RecordKeepsTells ==
  ASSUME history \in [Actions -> Seq(Records)], RollbackTells,
         NEW a \in Actions, NEW e \in Records, Record(a, e),
         e.status \in Undoing => Has(a, {"executed"}),
         Has(a, Undoing) => e.status \in Undoing,
         e.status = "rollback_dispatched" => Proposed(a) /\ Proposal(a).mode = "lab"
  PROVE  RollbackTells' /\ LastStatus(a)' = e.status
<1>1. \A b \in Actions : LastStatus(b)' = IF b = a THEN e.status ELSE LastStatus(b)
  BY ProposalAfterRecord
<1>2. \A b \in Actions : Proposed(b) => Proposal(b)' = Proposal(b)
  BY ProposalAfterRecord
<1>3. \A b \in Actions : \A S : Has(b, S)' <=> Has(b, S) \/ (b = a /\ e.status \in S)
  BY HasAfterRecord
<1>4. \A b \in Actions : \A S : Has(b, S) => Proposed(b)
  BY DEF Has, Proposed
<1>5. ASSUME NEW b \in Actions, Has(b, Undoing)'
      PROVE  Has(b, {"executed"})' /\ LastStatus(b)' \in Undoing
  BY <1>1, <1>3, <1>5 DEF RollbackTells
<1>6. ASSUME NEW b \in Actions, Has(b, {"rollback_dispatched"})'
      PROVE  Proposal(b)'.mode = "lab"
  BY <1>2, <1>3, <1>4, <1>6 DEF RollbackTells
<1> QED
  BY <1>1, <1>5, <1>6 DEF RollbackTells, Undoing

(* A step that records nothing.                                            *)
LEMMA QuietKeepsTells ==
  ASSUME RollbackTells, UNCHANGED history
  PROVE  RollbackTells'
BY DEF RollbackTells, Has, LastStatus, Proposal

(* A handler sends an operation.                                           *)
LEMMA DispatchKeepsTells ==
  ASSUME JournalInvariant, NEW a \in Actions, NEW phase \in Phases,
         NEW i \in DOMAIN history[a], Dispatch(a, phase, i),
         phase = "execution" => ~Has(a, {"executed"}),
         phase = "rollback" => Has(a, {"executed"}) /\ Proposal(a).mode = "lab"
  PROVE  RollbackTells' /\ CallStillOpen'
<1> PICK e : e = [status |-> Dispatched[phase], cites |-> i, at |-> now]
  OBVIOUS
<1>1. /\ history \in [Actions -> Seq(Records)] /\ now \in Nat
      /\ RollbackTells
  BY DEF JournalInvariant, ExecInvariant, ExecTypeOK
<1>2. i \in Nat
  <2>1. history[a] \in Seq(Records)
    BY <1>1
  <2> QED
    BY <2>1
<1>3. e \in Records /\ e.status = Dispatched[phase]
  BY <1>1, <1>2 DEF Records, Decisions, Dispatched, Phases
<1>4. Record(a, e)
  BY DEF Dispatch
<1>5. Proposed(a)
  BY <1>1 DEF Proposed
<1>6. ~Has(a, {"executed"}) => ~Has(a, Undoing)
  BY <1>1 DEF RollbackTells
<1>7. e.status \in Undoing => phase = "rollback"
  BY <1>3 DEF Undoing, Dispatched, Phases
<1>8. phase = "rollback" => e.status \in Undoing
  BY <1>3 DEF Undoing, Dispatched
<1>9. e.status = "rollback_dispatched" => phase = "rollback"
  BY <1>3 DEF Dispatched, Phases
<1>10. RollbackTells' /\ LastStatus(a)' = e.status
  BY <1>1, <1>3, <1>4, <1>5, <1>6, <1>7, <1>8, <1>9, RecordKeepsTells DEF Phases
<1>11. call'.action = a /\ call'.phase = phase
  BY DEF Dispatch
<1> QED
  BY <1>3, <1>10, <1>11 DEF CallStillOpen

(* Its outcome is recorded.                                                *)
LEMMA OutcomeKeepsTells ==
  ASSUME JournalInvariant, Finish \/ NoReceipt
  PROVE  RollbackTells' /\ CallStillOpen'
<1>1. /\ history \in [Actions -> Seq(Records)] /\ RollbackTells
      /\ call \in Calls \cup {NoCall} /\ call # NoCall
  BY DEF JournalInvariant, ExecInvariant, ExecTypeOK, Finish, NoReceipt
<1>2. call.action \in Actions /\ call.phase \in Phases
  BY <1>1 DEF Calls
<1> PICK a \in Actions : a = call.action
  BY <1>2
<1> PICK phase \in Phases : phase = call.phase
  BY <1>2
<1>3. CallStillOpen'
  BY DEF Finish, NoReceipt, CallStillOpen
<1>4. Has(a, {Dispatched[phase]}) /\ LastStatus(a) \in {Dispatched[phase], Unknown[phase]}
  BY <1>1 DEF JournalInvariant, ExecInvariant, SentAfterIntent, CallIntended, CallStillOpen
<1>5. phase = "execution" => ~Has(a, Undoing)
  BY <1>1, <1>4 DEF RollbackTells, Undoing, Dispatched, Unknown
<1>6. phase = "rollback" => /\ Has(a, {"executed"})
                            /\ Proposal(a).mode = "lab"
  <2>1. phase = "rollback" => Has(a, {"rollback_dispatched"})
    BY <1>4 DEF Dispatched
  <2>2. Has(a, {"rollback_dispatched"}) => Has(a, Undoing)
    BY DEF Has, Undoing
  <2> QED
    BY <1>1, <2>1, <2>2 DEF RollbackTells
<1>7. PICK e : \/ UNCHANGED history
               \/ /\ Record(a, e) /\ e \in Records
                  /\ phase = "execution" =>
                       e.status \in {"executed", "execution_rejected", "execution_unknown"}
                  /\ phase = "rollback" => e.status \in {"rolled_back", "rollback_unknown"}
  <2>1. CASE Finish
    <3> PICK e : e = [status |-> IF call.reply = "rejected" THEN "execution_rejected"
                                                            ELSE Done[call.phase]]
      OBVIOUS
    <3>1. Record(a, e) /\ ValidReceipt
      BY <2>1 DEF Finish
    <3>2. e \in Records
      BY <1>2 DEF Records, Outcomes, Done, Phases
    <3>3. phase = "rollback" => e.status = "rolled_back"
      BY <1>6, <3>1 DEF ValidReceipt, Done
    <3>4. phase = "execution" => e.status \in {"executed", "execution_rejected"}
      BY DEF Done
    <3> QED
      BY <3>1, <3>2, <3>3, <3>4
  <2>2. CASE NoReceipt
    <3> PICK e : e = [status |-> Unknown[call.phase]]
      OBVIOUS
    <3>1. Record(a, e) \/ UNCHANGED history
      BY <2>2 DEF NoReceipt
    <3>2. e \in Records
      BY <1>2 DEF Records, Outcomes, Unknown, Phases
    <3>3. e.status = Unknown[phase]
      OBVIOUS
    <3> QED
      BY <3>1, <3>2, <3>3 DEF Unknown
  <2> QED
    BY <2>1, <2>2
<1>8. CASE UNCHANGED history
  BY <1>1, <1>3, <1>8, QuietKeepsTells
<1>9. CASE ~UNCHANGED history
  <2>1. e.status \in Undoing => phase = "rollback"
    BY <1>7, <1>9 DEF Undoing, Phases
  <2>2. phase = "rollback" => e.status \in Undoing
    BY <1>7, <1>9 DEF Undoing
  <2>3. e.status # "rollback_dispatched"
    BY <1>7, <1>9 DEF Phases
  <2>4. Has(a, Undoing) => phase = "rollback"
    BY <1>5 DEF Phases
  <2> QED
    BY <1>1, <1>3, <1>6, <1>7, <1>9, <2>1, <2>2, <2>3, <2>4, RecordKeepsTells
<1> QED
  BY <1>8, <1>9

(* A record made while no handler waits.                                   *)
LEMMA FreeRecordKeepsTells ==
  ASSUME JournalInvariant, NEW a \in Actions, NEW e \in Records, Record(a, e),
         call' = NoCall,
         \/ e.status \notin Undoing /\ ~Has(a, {"executed"})
         \/ e.status = "rolled_back" /\ Has(a, {"executed"})
  PROVE  RollbackTells' /\ CallStillOpen'
<1>1. history \in [Actions -> Seq(Records)] /\ RollbackTells
  BY DEF JournalInvariant, ExecInvariant, ExecTypeOK
<1>2. ~Has(a, {"executed"}) => ~Has(a, Undoing)
  BY <1>1 DEF RollbackTells
<1>3. e.status # "rollback_dispatched"
  BY DEF Undoing
<1>4. e.status = "rolled_back" => e.status \in Undoing
  BY DEF Undoing
<1>5. CallStillOpen'
  BY DEF CallStillOpen
<1> QED
  BY <1>1, <1>2, <1>3, <1>4, <1>5, RecordKeepsTells

(* Whatever the executor does, its last record tells whether a rollback    *)
(* was begun.                                                              *)
LEMMA MovesKeepJournal ==
  ASSUME JournalInvariant,
         ExecutorMoves \/ \E a \in Actions, m \in Minutes : Approve(a, m)
  PROVE  JournalInvariant'
<1>1. ExecInvariant'
  BY MovesKeepExecutor DEF JournalInvariant
<1>2. /\ history \in [Actions -> Seq(Records)] /\ RollbackTells /\ now \in Nat
      /\ call \in Calls \cup {NoCall} /\ config \in [mode : Modes, url : STRING]
  BY ConfigsAssumption DEF JournalInvariant, ExecInvariant, ExecTypeOK
<1>3. ASSUME NEW a \in Actions, NEW m \in Minutes, Approve(a, m)
      PROVE  RollbackTells' /\ CallStillOpen'
  <2> PICK e : e = [status |-> "approved", cites |-> 1, expires |-> now + m]
    OBVIOUS
  <2>1. e \in Records /\ e.status = "approved"
    BY <1>2, TimeAssumption DEF Records, Approvals
  <2>2. Record(a, e) /\ call' = NoCall /\ ~Has(a, {"executed"})
    BY <1>3 DEF Approve, Ready, Has
  <2> QED
    BY <2>1, <2>2, FreeRecordKeepsTells DEF Undoing
<1>4. ASSUME NEW a \in Actions, NEW key \in Keys, NEW kind \in Kinds, NEW env \in Nat,
             Propose(a, key, kind, env)
      PROVE  RollbackTells' /\ CallStillOpen'
  <2> PICK e : e = [status |-> "pending_approval", key |-> key, kind |-> kind,
                    mode |-> config.mode, url |-> config.url,
                    env |-> IF config.mode \in LabModes THEN env ELSE 0]
    OBVIOUS
  <2>1. e \in Records /\ e.status = "pending_approval"
    BY <1>2 DEF Records, Proposals
  <2>2. Record(a, e) /\ call' = NoCall /\ ~Has(a, {"executed"})
    BY <1>4 DEF Propose, Ready, Has, Proposed
  <2> QED
    BY <2>1, <2>2, FreeRecordKeepsTells DEF Undoing
<1>5. ASSUME NEW a \in Actions, NEW i \in DOMAIN history[a],
             NEW status \in {"executed", "rolled_back"},
             Record(a, [status |-> status, cites |-> i, at |-> now]), call' = NoCall,
             status = "rolled_back" <=> Has(a, {"executed"})
      PROVE  RollbackTells' /\ CallStillOpen'
  <2> PICK e : e = [status |-> status, cites |-> i, at |-> now]
    OBVIOUS
  <2>1. i \in Nat
    <3>1. history[a] \in Seq(Records)
      BY <1>2
    <3> QED
      BY <3>1
  <2>2. e \in Records /\ e.status = status
    BY <1>2, <2>1 DEF Records, Decisions
  <2> QED
    BY <1>5, <2>2, FreeRecordKeepsTells DEF Undoing
<1>6. ASSUME NEW a \in Actions, Reconcile(a)
      PROVE  RollbackTells' /\ CallStillOpen'
  <2>1. PICK phase \in Phases :
          /\ LastStatus(a) \in {Dispatched[phase], Unknown[phase]}
          /\ call' = [verb |-> "GET", action |-> a, phase |-> phase, reply |-> "waiting"]
    BY <1>6 DEF Reconcile
  <2>2. UNCHANGED history
    BY <1>6 DEF Reconcile
  <2>3. CallStillOpen'
    BY <2>1, <2>2 DEF CallStillOpen, LastStatus
  <2> QED
    BY <1>2, <2>2, <2>3, QuietKeepsTells
<1>7. ASSUME NEW a \in Actions, Execute(a)
      PROVE  RollbackTells' /\ CallStillOpen'
  <2>1. ~Has(a, {"executed"}) /\ Ready
    BY <1>7 DEF Execute, Has
  <2>2. ASSUME NEW i \in DOMAIN history[a],
               Record(a, [status |-> "executed", cites |-> i, at |-> now]), call' = call
        PROVE  RollbackTells' /\ CallStillOpen'
    BY <1>5, <2>1, <2>2 DEF Ready
  <2>3. ASSUME NEW i \in DOMAIN history[a], Dispatch(a, "execution", i)
        PROVE  RollbackTells' /\ CallStillOpen'
    BY <2>1, <2>3, DispatchKeepsTells DEF Phases
  <2> QED
    BY <1>6, <1>7, <2>2, <2>3 DEF Execute
<1>8. ASSUME NEW a \in Actions, Rollback(a)
      PROVE  RollbackTells' /\ CallStillOpen'
  <2>1. PICK i \in DOMAIN history[a] :
          /\ IsLatest(a, "executed", i)
          /\ Proposal(a).mode = config.mode
          /\ \/ Reconcile(a)
             \/ config.mode = "lab" /\ Dispatch(a, "rollback", i)
             \/ /\ Record(a, [status |-> "rolled_back", cites |-> i, at |-> now])
                /\ UNCHANGED <<auditValid, config, now, call, inflight, posts>>
    BY <1>8 DEF Rollback
  <2>2. Has(a, {"executed"}) /\ Ready
    BY <1>8, <2>1 DEF Rollback, IsLatest, Has
  <2>3. ASSUME Record(a, [status |-> "rolled_back", cites |-> i, at |-> now]), call' = call
        PROVE  RollbackTells' /\ CallStillOpen'
    BY <1>5, <2>2, <2>3 DEF Ready
  <2>4. ASSUME config.mode = "lab", Dispatch(a, "rollback", i)
        PROVE  RollbackTells' /\ CallStillOpen'
    BY <2>1, <2>2, <2>4, DispatchKeepsTells DEF Phases
  <2> QED
    BY <1>6, <2>1, <2>3, <2>4
<1>9. ASSUME UNCHANGED history,
             call' # NoCall => /\ call # NoCall /\ call'.action = call.action
                               /\ call'.phase = call.phase
      PROVE  RollbackTells' /\ CallStillOpen'
  <2>1. CallStillOpen'
    BY <1>9 DEF JournalInvariant, CallStillOpen, LastStatus
  <2> QED
    BY <1>2, <1>9, <2>1, QuietKeepsTells
<1>10. ASSUME SendPost
       PROVE  RollbackTells' /\ CallStillOpen'
  <2>1. call \in Calls /\ call # NoCall /\ call' = [call EXCEPT !.reply = "waiting"]
    BY <1>2, <1>10 DEF SendPost
  <2>2. call'.action = call.action /\ call'.phase = call.phase
    BY <2>1 DEF Calls
  <2> QED
    BY <1>9, <1>10, <2>1, <2>2 DEF SendPost
<1>11. ASSUME NEW verb, NEW op, NEW answer, Reply(verb, op, answer), UNCHANGED history
       PROVE  RollbackTells' /\ CallStillOpen'
  <2>1. call \in Calls /\ call # NoCall /\ call' = [call EXCEPT !.reply = answer]
    BY <1>2, <1>11 DEF Reply
  <2>2. call'.action = call.action /\ call'.phase = call.phase
    BY <2>1 DEF Calls
  <2> QED
    BY <1>9, <1>11, <2>1, <2>2
<1>12. ASSUME (\E c \in Configs : Crash(c)) \/ TornAppend \/ Tick
              \/ \E op \in Ops : LosePost(op)
       PROVE  RollbackTells' /\ CallStillOpen'
  <2>1. UNCHANGED history /\ (call' = NoCall \/ UNCHANGED call)
    BY <1>12 DEF Crash, TornAppend, Tick, LosePost
  <2> QED
    BY <1>9, <2>1
<1>13. ASSUME Finish \/ NoReceipt
       PROVE  RollbackTells' /\ CallStillOpen'
  BY <1>13, OutcomeKeepsTells
<1>14. RollbackTells' /\ CallStillOpen'
  BY <1>3, <1>4, <1>6, <1>7, <1>8, <1>10, <1>11, <1>12, <1>13 DEF ExecutorMoves
<1> QED
  BY <1>1, <1>14 DEF JournalInvariant

(* Nothing happens to the executor.                                        *)
LEMMA StillKeepsJournal ==
  ASSUME JournalInvariant, UNCHANGED execVars
  PROVE  JournalInvariant'
<1>1. UNCHANGED <<history, auditValid, config, now, call, inflight, posts>>
  BY DEF execVars
<1>2. ExecInvariant'
  BY <1>1, AnswerKeeps DEF JournalInvariant
<1>3. RollbackTells'
  BY <1>1, QuietKeepsTells DEF JournalInvariant
<1>4. CallStillOpen'
  BY <1>1 DEF JournalInvariant, CallStillOpen, LastStatus
<1> QED
  BY <1>2, <1>3, <1>4 DEF JournalInvariant

-----------------------------------------------------------------------------
(* The gateway's evidence.                                                 *)

(* The largest of finitely many numbers, what Max chooses.                 *)
LEMMA HasMax ==
  ASSUME NEW S \in SUBSET Nat, IsFiniteSet(S), S # {}
  PROVE  Max(S) \in S
<1> PICK U : U = {{y \in S : x < y} : x \in S}
  OBVIOUS
<1>1. U \subseteq SUBSET S /\ U # {}
  OBVIOUS
<1>2. IsWellFoundedOn(StrictSubsetOrdering(S), SUBSET S)
  BY FS_StrictSubsetOrderingWellFounded, FS_FiniteSubsetsOfFinite
<1>3. PICK least \in U : \A u \in U : ~ (<<u, least>> \in StrictSubsetOrdering(S))
  BY <1>1, <1>2, WFMin
<1>4. PICK m \in S : least = {y \in S : m < y}
  BY <1>3
<1>5. ASSUME NEW x \in S, m < x
      PROVE  FALSE
  <2> PICK u : u = {y \in S : x < y}
    OBVIOUS
  <2>1. m \in Nat /\ x \in Nat /\ \A y \in S : y \in Nat
    OBVIOUS
  <2>2. u \in U
    OBVIOUS
  <2>3. x \in least /\ x \notin u
    BY <1>4, <1>5, <2>1
  <2>4. u \subseteq least
    <3> SUFFICES ASSUME NEW y \in u
                 PROVE  y \in least
      OBVIOUS
    <3>1. y \in S /\ x < y
      OBVIOUS
    <3>2. m < y
      BY <1>5, <2>1, <3>1
    <3> QED
      BY <1>4, <3>1, <3>2
  <2>5. <<u, least>> \in StrictSubsetOrdering(S)
    BY <1>1, <1>3, <2>2, <2>3, <2>4 DEF StrictSubsetOrdering
  <2> QED
    BY <1>3, <2>2, <2>5
<1>6. \A y \in S : m >= y
  BY <1>5
<1> QED
  BY <1>6, Zenon DEF Max

(* A move of the executor appends at most one record, which is no          *)
(* approval.                                                               *)
LEMMA MovesAppend ==
  ASSUME ExecInvariant, ExecutorMoves
  PROVE  \/ UNCHANGED history
         \/ \E a \in Actions, e \in Records : Record(a, e) /\ e.status # "approved"
<1>1. /\ history \in [Actions -> Seq(Records)] /\ now \in Nat
      /\ call \in Calls \cup {NoCall} /\ config \in [mode : Modes, url : STRING]
  BY ConfigsAssumption DEF ExecInvariant, ExecTypeOK
<1>2. ASSUME NEW a \in Actions, NEW key \in Keys, NEW kind \in Kinds, NEW env \in Nat,
             Propose(a, key, kind, env)
      PROVE  \E e \in Records : Record(a, e) /\ e.status # "approved"
  <2> PICK e : e = [status |-> "pending_approval", key |-> key, kind |-> kind,
                    mode |-> config.mode, url |-> config.url,
                    env |-> IF config.mode \in LabModes THEN env ELSE 0]
    OBVIOUS
  <2>1. e \in Records /\ e.status = "pending_approval"
    BY <1>1 DEF Records, Proposals
  <2> QED
    BY <1>2, <2>1 DEF Propose
<1>3. ASSUME NEW a \in Actions, NEW i \in DOMAIN history[a],
             NEW status \in {"execution_dispatched", "rollback_dispatched",
                             "executed", "rolled_back"},
             Record(a, [status |-> status, cites |-> i, at |-> now])
      PROVE  \E e \in Records : Record(a, e) /\ e.status # "approved"
  <2> PICK e : e = [status |-> status, cites |-> i, at |-> now]
    OBVIOUS
  <2>1. i \in Nat
    <3>1. history[a] \in Seq(Records)
      BY <1>1
    <3> QED
      BY <3>1
  <2>2. e \in Records /\ e.status # "approved"
    BY <1>1, <2>1 DEF Records, Decisions
  <2> QED
    BY <1>3, <2>2
<1>4. ASSUME NEW a \in Actions, NEW phase \in Phases, NEW i \in DOMAIN history[a],
             Dispatch(a, phase, i)
      PROVE  \E e \in Records : Record(a, e) /\ e.status # "approved"
  <2>1. Dispatched[phase] \in {"execution_dispatched", "rollback_dispatched"}
    BY DEF Dispatched, Phases
  <2>2. Record(a, [status |-> Dispatched[phase], cites |-> i, at |-> now])
    BY <1>4 DEF Dispatch
  <2> QED
    BY <1>3, <2>1, <2>2
<1>5. ASSUME NEW a \in Actions, Execute(a) \/ Rollback(a) \/ Reconcile(a)
      PROVE  \/ UNCHANGED history
             \/ \E e \in Records : Record(a, e) /\ e.status # "approved"
  BY <1>3, <1>4, <1>5 DEF Execute, Rollback, Reconcile, Phases
<1>6. ASSUME Finish \/ NoReceipt
      PROVE  \/ UNCHANGED history
             \/ \E a \in Actions, e \in Records : Record(a, e) /\ e.status # "approved"
  <2>1. call.action \in Actions /\ call.phase \in Phases
    BY <1>1, <1>6 DEF Finish, NoReceipt, Calls
  <2>2. ASSUME NEW status \in {"execution_unknown", "rollback_unknown", "executed",
                               "rolled_back", "execution_rejected"},
               Record(call.action, [status |-> status])
        PROVE  \E a \in Actions, e \in Records : Record(a, e) /\ e.status # "approved"
    <3> PICK e : e = [status |-> status]
      OBVIOUS
    <3>1. e \in Records /\ e.status # "approved"
      BY DEF Records, Outcomes
    <3> QED
      BY <2>1, <2>2, <3>1
  <2> QED
    BY <1>6, <2>1, <2>2 DEF Finish, NoReceipt, Done, Unknown, Phases
<1> QED
  BY <1>2, <1>5, <1>6
  DEF ExecutorMoves, SendPost, Crash, TornAppend, Tick, LosePost

(* An approval appends one.                                                *)
LEMMA ApproveAppends ==
  ASSUME ExecInvariant, NEW a \in Actions, NEW m \in Minutes, Approve(a, m)
  PROVE  \E e \in Records : Record(a, e) /\ e.status = "approved"
<1> PICK e : e = [status |-> "approved", cites |-> 1, expires |-> now + m]
  OBVIOUS
<1>1. e \in Records /\ e.status = "approved"
  BY TimeAssumption DEF ExecInvariant, ExecTypeOK, Records, Approvals
<1> QED
  BY <1>1 DEF Approve

(* What the system does to the executor's state.                           *)
LEMMA SystemMoves ==
  ASSUME ConsoleSystemStep
  PROVE  \/ UNCHANGED execVars
         \/ ExecutorMoves /\ UNCHANGED <<wfVars, consoleVars, evidenceVars>>
         \/ \E r \in Requests : AskApprove(r) /\ UNCHANGED evidenceVars
BY DEF ConsoleSystemStep, DecisionStep, ConsoleStep, Arrive, Lookup, StoreReply, FindIncident,
   ChooseSession, SendTransition, TransitionDone, TransitionFails, RecordResult, KeyExpires,
   ConsoleCrash, AgentStep, EvidenceStep, CollectFixture, CollectLab, CollectLive, Hold,
   AppendEvidence, EditEvidence

(* An approval is asked for an action that exists.                         *)
LEMMA AskedFor ==
  ASSUME ConsoleShape, NEW r \in Requests, ThreadHonest(r), At(r, "approve")
  PROVE  /\ request[r] # Idle
         /\ request[r].order.kind = "decide" /\ request[r].order.verdict = "approve"
         /\ request[r].order.action \in Actions
<1>1. PICK S : request \in [Requests -> ThreadsIn(S) \cup {Idle}]
  BY DEF ConsoleShape
<1>2. request[r] # Idle /\ request[r].stage = "approve"
  BY DEF At, Idle
<1>3. request[r] \in ThreadsIn(S)
  BY <1>1, <1>2
<1>4. request[r].order \in Orders
  BY <1>3 DEF ThreadsIn
<1>5. request[r].order.kind = "decide" /\ request[r].order.verdict = "approve"
  BY <1>2 DEF ThreadHonest
<1>6. request[r].order.action \in Actions
  BY <1>4, <1>5 DEF Orders, Decide, Move
<1> QED
  BY <1>2, <1>5, <1>6

(* What was executed stays executed, whatever the system does.             *)
LEMMA HasStays ==
  ASSUME JournalInvariant, ConsoleShape, \A r \in Requests : ThreadHonest(r),
         ConsoleSystemStep
  PROVE  JournalInvariant' /\ \A a \in Actions : \A S : Has(a, S) => Has(a, S)'
<1>1. history \in [Actions -> Seq(Records)]
  BY DEF JournalInvariant, ExecInvariant, ExecTypeOK
<1>2. ASSUME UNCHANGED history
      PROVE  \A a \in Actions : \A S : Has(a, S) => Has(a, S)'
  BY <1>2 DEF Has
<1>3. ASSUME NEW b \in Actions, NEW e \in Records, Record(b, e)
      PROVE  \A a \in Actions : \A S : Has(a, S) => Has(a, S)'
  BY <1>1, <1>3, HasAfterRecord
<1>4. ASSUME NEW a \in Actions, NEW m \in Minutes, Approve(a, m)
      PROVE  JournalInvariant' /\ \A b \in Actions : \A S : Has(b, S) => Has(b, S)'
  <2>1. JournalInvariant'
    BY <1>4, MovesKeepJournal
  <2>2. \E e \in Records : Record(a, e)
    BY <1>4, ApproveAppends DEF JournalInvariant
  <2> QED
    BY <1>3, <2>1, <2>2
<1>5. CASE UNCHANGED execVars
  BY <1>2, <1>5, StillKeepsJournal DEF execVars
<1>6. CASE ExecutorMoves
  <2>1. JournalInvariant'
    BY <1>6, MovesKeepJournal
  <2>2. UNCHANGED history \/ \E a \in Actions, e \in Records : Record(a, e)
    BY <1>6, MovesAppend DEF JournalInvariant
  <2> QED
    BY <1>2, <1>3, <2>1, <2>2
<1>7. ASSUME NEW r \in Requests, AskApprove(r)
      PROVE  JournalInvariant' /\ \A b \in Actions : \A S : Has(b, S) => Has(b, S)'
  <2>1. request[r].order.action \in Actions
    BY <1>7, AskedFor DEF AskApprove
  <2>2. UNCHANGED execVars \/ \E m \in Minutes : Approve(request[r].order.action, m)
    BY <1>7 DEF AskApprove
  <2> QED
    BY <1>2, <1>4, <2>1, <2>2, StillKeepsJournal DEF execVars
<1> QED
  BY <1>5, <1>6, <1>7, SystemMoves

(* What an active action tells of its history.                             *)
LEMMA ActiveWasExecuted ==
  ASSUME NEW a \in Actions, Active(a)
  PROVE  Has(a, {"executed"})
BY DEF Active, Has

(* A verdict stands when it is made: of a fixture...                       *)
LEMMA FixtureStands ==
  ASSUME NEW e, e.scenario = "fixture", e.verdict \in FixtureVerdicts
  PROVE  Stands(e)
<1>1. SUFFICES ASSUME e.verdict = "verified", NEW p \in Required
               PROVE  \E a \in Actions : PairOf[a] = p /\ Has(a, {"executed"})
  BY DEF Stands
<1>2. \/ Required \subseteq ActivePairs
      \/ Required \subseteq UnauditedPairs
  BY <1>1 DEF FixtureVerdicts, FixtureVerdict, FileVerdict
<1>3. CASE Required \subseteq ActivePairs
  <2>1. PICK a \in Actions : Active(a) /\ PairOf[a] = p
    BY <1>3 DEF ActivePairs
  <2> QED
    BY <2>1, ActiveWasExecuted
<1>4. CASE Required \subseteq UnauditedPairs
  BY <1>4 DEF UnauditedPairs
<1> QED
  BY <1>2, <1>3, <1>4

(* ... and of a laboratory.                                                *)
LEMMA LabStands ==
  ASSUME NEW e, NEW a \in Actions, NEW run, e.scenario = "lab_identity", e.action = a,
         e.verdict \in LabVerdicts(a, run)
  PROVE  Stands(e)
<1>1. e.verdict = "verified" => Active(a)
  BY DEF LabVerdicts
<1> QED
  BY <1>1, ActiveWasExecuted DEF Stands

(* A record on its way to the ledger.                                      *)
LEMMA HoldKeeps ==
  ASSUME EvidenceTypeOK, VerdictsStand, NEW c \in Collectors, NEW e \in Ledger, Stands(e),
         Hold(c, e)
  PROVE  EvidenceTypeOK' /\ VerdictsStand'
<1>1. /\ collecting' = [collecting EXCEPT ![c] = e] /\ evidence' = evidence
      /\ history' = history
  BY DEF Hold, execVars
<1>2. EvidenceTypeOK'
  BY <1>1 DEF EvidenceTypeOK
<1>3. \A x : Stands(x) => Stands(x)'
  BY <1>1 DEF Stands, Has
<1>4. \A d \in Collectors : collecting'[d] = IF d = c THEN e ELSE collecting[d]
  BY <1>1 DEF EvidenceTypeOK
<1>5. ASSUME NEW d \in Collectors
      PROVE  Stands(collecting[d])'
  <2> PICK x : x = collecting'[d]
    OBVIOUS
  <2>1. Stands(x)
    BY <1>4 DEF VerdictsStand
  <2>2. Stands(x)'
    BY <1>3, <2>1
  <2> QED
    BY <2>2 DEF Stands
<1>6. ASSUME NEW n \in DOMAIN evidence'
      PROVE  Stands(evidence[n])'
  <2> PICK x : x = evidence'[n]
    OBVIOUS
  <2>1. Stands(x)
    BY <1>1 DEF VerdictsStand
  <2>2. Stands(x)'
    BY <1>3, <2>1
  <2> QED
    BY <2>2 DEF Stands
<1> QED
  BY <1>2, <1>5, <1>6 DEF VerdictsStand

(* What the gateway's threads do.                                          *)
LEMMA EvidenceStepKeeps ==
  ASSUME EvidenceTypeOK, VerdictsStand, EvidenceStep
  PROVE  EvidenceTypeOK' /\ VerdictsStand'
<1>1. ASSUME NEW c \in Collectors, NEW run \in Runs \cup {NoRun}, CollectFixture(c, run)
      PROVE  EvidenceTypeOK' /\ VerdictsStand'
  <2>1. ASSUME NEW verdict \in FixtureVerdicts,
               Hold(c, [kind |-> "recovery_metrics", scenario |-> "fixture", run |-> run,
                        action |-> NoRun, verdict |-> verdict, intact |-> TRUE])
        PROVE  EvidenceTypeOK' /\ VerdictsStand'
    <3> PICK e : e = [kind |-> "recovery_metrics", scenario |-> "fixture", run |-> run,
                      action |-> NoRun, verdict |-> verdict, intact |-> TRUE]
      OBVIOUS
    <3>1. verdict \in {"verified", "inconclusive"}
      BY DEF FixtureVerdicts, FixtureVerdict, FileVerdict
    <3>2. e \in Ledger
      BY <3>1 DEF Ledger
    <3>3. Stands(e)
      BY FixtureStands
    <3> QED
      BY <2>1, <3>2, <3>3, HoldKeeps
  <2>2. ASSUME Hold(c, [kind |-> "observation", scenario |-> "fixture", run |-> run,
                        action |-> NoRun, verdict |-> "none", intact |-> TRUE])
        PROVE  EvidenceTypeOK' /\ VerdictsStand'
    <3> PICK e : e = [kind |-> "observation", scenario |-> "fixture", run |-> run,
                      action |-> NoRun, verdict |-> "none", intact |-> TRUE]
      OBVIOUS
    <3>1. e \in Ledger /\ Stands(e)
      BY DEF Ledger, Stands
    <3> QED
      BY <2>2, <3>1, HoldKeeps
  <2> QED
    BY <1>1, <2>1, <2>2 DEF CollectFixture
<1>2. ASSUME NEW c \in Collectors, NEW run \in Runs \cup {NoRun}, NEW a \in Actions,
             CollectLab(c, run, a)
      PROVE  EvidenceTypeOK' /\ VerdictsStand'
  <2>1. PICK verdict \in LabVerdicts(a, run) :
          Hold(c, [kind |-> "recovery_metrics", scenario |-> "lab_identity", run |-> run,
                   action |-> a, verdict |-> verdict, intact |-> TRUE])
    BY <1>2 DEF CollectLab
  <2> PICK e : e = [kind |-> "recovery_metrics", scenario |-> "lab_identity", run |-> run,
                    action |-> a, verdict |-> verdict, intact |-> TRUE]
    OBVIOUS
  <2>2. verdict \in {"verified", "failed", "inconclusive"}
    BY DEF LabVerdicts
  <2>3. e \in Ledger
    BY <2>2 DEF Ledger
  <2>4. Stands(e)
    BY LabStands
  <2> QED
    BY <2>1, <2>3, <2>4, HoldKeeps
<1>3. ASSUME NEW c \in Collectors, NEW run \in Runs \cup {NoRun}, NEW f \in Observations,
             CollectLive(c, run, f)
      PROVE  EvidenceTypeOK' /\ VerdictsStand'
  <2>1. PICK kind \in {"observation", "recovery_metrics"} :
          Hold(c, [kind |-> kind, scenario |-> "live", run |-> run, action |-> NoRun,
                   verdict |-> IF kind = "recovery_metrics" THEN "inconclusive" ELSE "none",
                   intact |-> TRUE])
    BY <1>3 DEF CollectLive
  <2> PICK e : e = [kind |-> kind, scenario |-> "live", run |-> run, action |-> NoRun,
                    verdict |-> IF kind = "recovery_metrics" THEN "inconclusive" ELSE "none",
                    intact |-> TRUE]
    OBVIOUS
  <2>2. e \in Ledger /\ e.verdict # "verified"
    BY DEF Ledger
  <2>3. Stands(e)
    BY <2>2 DEF Stands
  <2> QED
    BY <2>1, <2>2, <2>3, HoldKeeps
<1>4. ASSUME NEW c \in Collectors, AppendEvidence(c)
      PROVE  EvidenceTypeOK' /\ VerdictsStand'
  <2> PICK e : e = collecting[c]
    OBVIOUS
  <2>1. /\ e # Empty /\ e \in Ledger /\ Stands(e) /\ evidence \in Seq(Ledger)
        /\ collecting \in [Collectors -> Ledger \cup {Empty}]
    BY <1>4 DEF AppendEvidence, EvidenceTypeOK, VerdictsStand
  <2>2. /\ evidence' = Append(evidence, e) /\ collecting' = [collecting EXCEPT ![c] = Empty]
        /\ history' = history
    BY <1>4 DEF AppendEvidence, execVars
  <2>3. EvidenceTypeOK'
    BY <2>1, <2>2 DEF EvidenceTypeOK
  <2>4. \A x : Stands(x) => Stands(x)'
    BY <2>2 DEF Stands, Has
  <2>5. Stands(Empty)
    BY DEF Stands
  <2>6. ASSUME NEW d \in Collectors
        PROVE  Stands(collecting[d])'
    <3> PICK x : x = collecting'[d]
      OBVIOUS
    <3>1. x = Empty \/ x = collecting[d]
      BY <2>1, <2>2
    <3>2. Stands(x)'
      BY <2>4, <2>5, <3>1 DEF VerdictsStand
    <3> QED
      BY <3>2 DEF Stands
  <2>7. ASSUME NEW n \in DOMAIN evidence'
        PROVE  Stands(evidence[n])'
    <3> PICK x : x = evidence'[n]
      OBVIOUS
    <3>1. x = e \/ (n \in DOMAIN evidence /\ x = evidence[n])
      BY <2>1, <2>2
    <3>2. Stands(x)'
      BY <2>1, <2>4, <3>1 DEF VerdictsStand
    <3> QED
      BY <3>2 DEF Stands
  <2> QED
    BY <2>3, <2>6, <2>7 DEF VerdictsStand
<1>5. ASSUME NEW i \in DOMAIN evidence, EditEvidence(i)
      PROVE  EvidenceTypeOK' /\ VerdictsStand'
  <2> PICK e : e = [evidence[i] EXCEPT !.intact = FALSE]
    OBVIOUS
  <2>1. evidence \in Seq(Ledger) /\ evidence[i] \in Ledger
    BY DEF EvidenceTypeOK
  <2>2. /\ e \in Ledger /\ e.verdict = evidence[i].verdict /\ e.action = evidence[i].action
        /\ e.scenario = evidence[i].scenario
    BY <2>1 DEF Ledger
  <2>3. evidence' = [evidence EXCEPT ![i] = e] /\ collecting' = collecting /\ history' = history
    BY <1>5 DEF EditEvidence, execVars
  <2>4. EvidenceTypeOK'
    BY <2>1, <2>2, <2>3 DEF EvidenceTypeOK
  <2>5. \A x : Stands(x) => Stands(x)'
    BY <2>3 DEF Stands, Has
  <2>6. Stands(e)
    <3>1. evidence[i] # Empty
      BY <2>1 DEF Ledger, Empty
    <3>2. Stands(evidence[i])
      BY DEF VerdictsStand
    <3> QED
      BY <2>2, <3>1, <3>2 DEF Stands
  <2>7. ASSUME NEW n \in DOMAIN evidence'
        PROVE  Stands(evidence[n])'
    <3> PICK x : x = evidence'[n]
      OBVIOUS
    <3>1. x = e \/ (n \in DOMAIN evidence /\ x = evidence[n])
      BY <2>1, <2>3
    <3>2. Stands(x)'
      BY <2>5, <2>6, <3>1 DEF VerdictsStand
    <3> QED
      BY <3>2 DEF Stands
  <2>8. ASSUME NEW d \in Collectors
        PROVE  Stands(collecting[d])'
    <3> PICK x : x = collecting'[d]
      OBVIOUS
    <3>1. Stands(x)'
      BY <2>3, <2>5 DEF VerdictsStand
    <3> QED
      BY <3>1 DEF Stands
  <2> QED
    BY <2>4, <2>7, <2>8 DEF VerdictsStand
<1> QED
  BY <1>1, <1>2, <1>3, <1>4, <1>5 DEF EvidenceStep

(* A verdict stands as long as what was executed stays executed.           *)
LEMMA VerdictsStay ==
  ASSUME EvidenceTypeOK, VerdictsStand, UNCHANGED evidenceVars,
         \A a \in Actions : \A S : Has(a, S) => Has(a, S)'
  PROVE  EvidenceTypeOK' /\ VerdictsStand'
<1>1. evidence' = evidence /\ collecting' = collecting
  BY DEF evidenceVars
<1>2. EvidenceTypeOK'
  BY <1>1 DEF EvidenceTypeOK
<1>3. ASSUME NEW x, Stands(x)
      PROVE  Stands(x)'
  BY <1>3 DEF Stands
<1>4. ASSUME NEW n \in DOMAIN evidence'
      PROVE  Stands(evidence[n])'
  <2> PICK x : x = evidence'[n]
    OBVIOUS
  <2>1. Stands(x)'
    BY <1>1, <1>3 DEF VerdictsStand
  <2> QED
    BY <2>1 DEF Stands
<1>5. ASSUME NEW d \in Collectors
      PROVE  Stands(collecting[d])'
  <2> PICK x : x = collecting'[d]
    OBVIOUS
  <2>1. Stands(x)'
    BY <1>1, <1>3 DEF VerdictsStand
  <2> QED
    BY <2>1 DEF Stands
<1> QED
  BY <1>2, <1>4, <1>5 DEF VerdictsStand

(* An executed action whose rollback is not in its history, or whose last  *)
(* record is the execution, is active.                                     *)
LEMMA ExecutedIsActive ==
  ASSUME history \in [Actions -> Seq(Records)], NEW a \in Actions,
         \/ Has(a, {"executed"}) /\ ~Has(a, Undoing)
         \/ Proposed(a) /\ LastStatus(a) = "executed"
  PROVE  Active(a)
<1>1. CASE Has(a, {"executed"}) /\ ~Has(a, Undoing)
  BY <1>1 DEF Has, Undoing, Active
<1>2. CASE Proposed(a) /\ LastStatus(a) = "executed"
  <2>1. history[a] \in Seq(Records) /\ history[a] # <<>>
    BY <1>2 DEF Proposed
  <2>2. /\ Len(history[a]) \in DOMAIN history[a]
        /\ \A j \in DOMAIN history[a] : ~(j > Len(history[a]))
    BY <2>1
  <2> QED
    BY <1>2, <2>2 DEF LastStatus, Active
<1> QED
  BY <1>1, <1>2

(* A summary that says verified.                                           *)
LEMMA SummaryHolds ==
  ASSUME JournalInvariant, EvidenceTypeOK, VerdictsStand
  PROVE  VerifiedSummaryHolds
<1>1. /\ history \in [Actions -> Seq(Records)] /\ RollbackTells
      /\ evidence \in Seq(Ledger)
  BY DEF JournalInvariant, ExecInvariant, ExecTypeOK, EvidenceTypeOK
<1>2. SUFFICES ASSUME NEW n \in DOMAIN evidence, Summary(n) = "verified", ~RollbackOpen
               PROVE  IF evidence[n].scenario = "fixture"
                      THEN Required \subseteq ActivePairs
                      ELSE Active(evidence[n].action)
  BY DEF VerifiedSummaryHolds
<1>3. "rolled_back" \notin Statuses /\ evidence[n].verdict = "verified"
  BY <1>2 DEF Summary
<1>4. ASSUME NEW a \in Actions, Has(a, {"executed"})
      PROVE  Active(a)
  <2>1. Proposed(a)
    BY <1>4 DEF Has, Proposed
  <2>2. ~Has(a, {"rolled_back"})
    BY <1>3 DEF Statuses, Has
  <2>3. LastStatus(a) \notin {"rollback_dispatched", "rollback_unknown"}
    BY <1>2, <2>1 DEF RollbackOpen
  <2>4. LastStatus(a) # "rolled_back"
    <3>1. history[a] \in Seq(Records) /\ history[a] # <<>>
      BY <1>1, <2>1 DEF Proposed
    <3>2. Len(history[a]) \in DOMAIN history[a]
      BY <3>1
    <3> QED
      BY <2>2, <3>2 DEF Has, LastStatus
  <2>5. ~Has(a, Undoing)
    BY <1>1, <2>3, <2>4 DEF RollbackTells, Undoing
  <2> QED
    BY <1>1, <1>4, <2>5, ExecutedIsActive
<1>5. evidence[n] # Empty
  BY <1>1 DEF Ledger, Empty
<1>6. Stands(evidence[n])
  BY DEF VerdictsStand
<1>7. CASE evidence[n].scenario = "fixture"
  <2>1. \A p \in Required : \E a \in Actions : PairOf[a] = p /\ Has(a, {"executed"})
    BY <1>3, <1>5, <1>6, <1>7 DEF Stands
  <2>2. Required \subseteq ActivePairs
    BY <1>4, <2>1 DEF ActivePairs
  <2> QED
    BY <1>7, <2>2
<1>8. CASE evidence[n].scenario # "fixture"
  BY <1>3, <1>4, <1>5, <1>6, <1>8 DEF Stands
<1> QED
  BY <1>7, <1>8

(* A run that is shown green.                                              *)
LEMMA RunIsLive ==
  ASSUME ExecTypeOK, EvidenceTypeOK
  PROVE  GreenRunIsLive
<1>1. history \in [Actions -> Seq(Records)] /\ evidence \in Seq(Ledger)
  BY DEF ExecTypeOK, EvidenceTypeOK
<1>2. SUFFICES ASSUME NEW n \in DOMAIN evidence, NEW a \in Actions,
                      Verification(n, a) = "verified"
               PROVE  /\ Active(a)
                      /\ \A i \in 1..n : evidence[i].run = RunOf[a] => evidence[i].intact
                      /\ \E i \in 1..n : /\ evidence[i].action = a
                                         /\ evidence[i].run = RunOf[a]
                                         /\ evidence[i].verdict = "verified"
  BY DEF GreenRunIsLive
<1> PICK O : O = ObservationsOf(n, a)
  OBVIOUS
<1>3. /\ Proposed(a) /\ LastStatus(a) = "executed" /\ O # {}
      /\ \A i \in RunEvidence(n, RunOf[a]) : evidence[i].intact
      /\ evidence[Max(O)].verdict = "verified"
  BY <1>2 DEF Verification
<1>4. n \in Nat
  BY <1>1
<1>5. O \subseteq 1..n /\ O \in SUBSET Nat
  BY <1>4 DEF ObservationsOf, RunEvidence
<1>6. IsFiniteSet(O)
  <2>1. IsFiniteSet(1..n)
    BY <1>4, FS_Interval
  <2> QED
    BY <1>5, <2>1, FS_Subset
<1>7. Max(O) \in O
  BY <1>3, <1>5, <1>6, HasMax
<1>8. \A i \in O : i \in 1..n /\ evidence[i].action = a /\ evidence[i].run = RunOf[a]
  BY DEF ObservationsOf, RunEvidence
<1>9. Active(a)
  BY <1>1, <1>3, ExecutedIsActive
<1>10. \A i \in 1..n : evidence[i].run = RunOf[a] => evidence[i].intact
  BY <1>3 DEF RunEvidence
<1> QED
  BY <1>3, <1>7, <1>8, <1>9, <1>10

-----------------------------------------------------------------------------
(* The console's requests and replies.                                     *)

(* What one append does to a sequence of anything.                         *)
LEMMA AppendsAny ==
  ASSUME NEW E, NEW s \in Seq(E), NEW e
  PROVE  /\ Append(s, e) \in Seq(E \cup {e})
         /\ \A i \in DOMAIN s : i \in DOMAIN Append(s, e) /\ Append(s, e)[i] = s[i]
         /\ Len(s) + 1 \in DOMAIN Append(s, e) /\ Append(s, e)[Len(s) + 1] = e
<1>1. s \in Seq(E \cup {e}) /\ e \in E \cup {e}
  OBVIOUS
<1> QED
  BY <1>1

(* A thread of the console goes on.                                        *)
Progress(r, stage, session, end) ==
  /\ request[r] # Idle /\ request'[r] # Idle
  /\ request'[r].stage = stage /\ request'[r].session = session /\ request'[r].end = end
  /\ request'[r].via = request[r].via /\ request'[r].key = request[r].key
  /\ request'[r].order = request[r].order
  /\ \A q \in Requests : q # r => request'[q] = request[q]
  /\ \E S : request' \in [Requests -> ThreadsIn(S) \cup {Idle}]

(* It changes its stage...                                                 *)
LEMMA GotoProgress ==
  ASSUME ConsoleShape, NEW r \in Requests, request[r] # Idle, NEW stage \in Stages,
         Goto(r, stage)
  PROVE  Progress(r, stage, request[r].session, request[r].end)
<1>1. PICK S : request \in [Requests -> ThreadsIn(S) \cup {Idle}]
  BY DEF ConsoleShape
<1> PICK q : q = [request[r] EXCEPT !.stage = stage]
  OBVIOUS
<1>2. request[r] \in ThreadsIn(S)
  BY <1>1
<1>3. /\ q \in ThreadsIn(S) /\ q.stage = stage /\ q.session = request[r].session
      /\ q.end = request[r].end /\ q.via = request[r].via /\ q.key = request[r].key
      /\ q.order = request[r].order
  BY <1>2 DEF ThreadsIn
<1>4. q # Idle
  BY <1>3 DEF ThreadsIn, Idle, Stages
<1>5. request' = [request EXCEPT ![r] = q]
  BY DEF Goto
<1>6. request'[r] = q /\ \A p \in Requests : p # r => request'[p] = request[p]
  BY <1>1, <1>5
<1>7. request' \in [Requests -> ThreadsIn(S) \cup {Idle}]
  BY <1>1, <1>3, <1>5
<1> QED
  BY <1>3, <1>4, <1>6, <1>7 DEF Progress

(* ... or has its answer.                                                  *)
LEMMA FinishedProgress ==
  ASSUME ConsoleShape, NEW r \in Requests, request[r] # Idle, NEW end \in Ends,
         Finished(r, end)
  PROVE  Progress(r, "done", request[r].session, end)
<1>1. PICK S : request \in [Requests -> ThreadsIn(S) \cup {Idle}]
  BY DEF ConsoleShape
<1> PICK q : q = [request[r] EXCEPT !.stage = "done", !.end = end]
  OBVIOUS
<1>2. request[r] \in ThreadsIn(S)
  BY <1>1
<1>3. /\ q \in ThreadsIn(S) /\ q.stage = "done" /\ q.session = request[r].session
      /\ q.end = end /\ q.via = request[r].via /\ q.key = request[r].key
      /\ q.order = request[r].order
  BY <1>2 DEF ThreadsIn, Stages
<1>4. q # Idle
  BY <1>3 DEF ThreadsIn, Idle, Stages
<1>5. request' = [request EXCEPT ![r] = q]
  BY DEF Finished
<1>6. request'[r] = q /\ \A p \in Requests : p # r => request'[p] = request[p]
  BY <1>1, <1>5
<1>7. request' \in [Requests -> ThreadsIn(S) \cup {Idle}]
  BY <1>1, <1>3, <1>5
<1> QED
  BY <1>3, <1>4, <1>6, <1>7 DEF Progress

(* What is recorded and moved is never taken back.                         *)
RecordsGrow ==
  /\ \A o, key : Decided(o, key) => Decided(o, key)'
  /\ \A r, o : DecidedBy(r, o) => DecidedBy(r, o)'
  /\ \A state, session : Moved(state, session) => Moved(state, session)'

(* It is if both tables only grow.                                         *)
LEMMA TablesGrow ==
  ASSUME \A i \in DOMAIN decisions : i \in DOMAIN decisions' /\ decisions'[i] = decisions[i],
         \A i \in DOMAIN journal : i \in DOMAIN journal' /\ journal'[i] = journal[i]
  PROVE  RecordsGrow
<1>1. ASSUME NEW o, NEW key, Decided(o, key)
      PROVE  Decided(o, key)'
  BY <1>1 DEF Decided
<1>2. ASSUME NEW r, NEW o, DecidedBy(r, o)
      PROVE  DecidedBy(r, o)'
  BY <1>2 DEF DecidedBy
<1>3. ASSUME NEW state, NEW session, Moved(state, session)
      PROVE  Moved(state, session)'
  BY <1>3 DEF Moved
<1> QED
  BY <1>1, <1>2, <1>3 DEF RecordsGrow

(* A thread that does nothing stays honest.                                *)
LEMMA HonestStays ==
  ASSUME NEW r \in Requests, ThreadHonest(r), RecordsGrow, request'[r] = request[r],
         transit'[r] = transit[r] \/ transit'[r] = NoEvent
  PROVE  ThreadHonest(r)'
<1>1. CASE request[r] = Idle
  BY <1>1 DEF ThreadHonest
<1>2. CASE request[r] # Idle
  <2>1. Target(r)' = Target(r)
    BY DEF Target
  <2> QED
    BY <1>2, <2>1 DEF ThreadHonest, RecordsGrow
<1> QED
  BY <1>1, <1>2

(* What a step that stores no reply needs: the threads in T act, and       *)
(* unexpired replies stay.                                                 *)
LEMMA ThreadsKeepReplies ==
  ASSUME ReplyInvariant, ConsoleShape', RecordsGrow, aged \subseteq aged',
         stored' \subseteq stored, \A e \in stored : ~e.expired => e \in stored',
         NEW T \in SUBSET Requests,
         \A q \in Requests : q \notin T =>
           request'[q] = request[q] /\ (transit'[q] = transit[q] \/ transit'[q] = NoEvent),
         \A q \in T :
           /\ ThreadHonest(q)'
           /\ \/ request'[q] = request[q]
              \/ request'[q].end # "recorded" \/ request'[q].key = NoKey
  PROVE  ReplyInvariant'
<1>1. ASSUME NEW q \in Requests
      PROVE  ThreadHonest(q)'
  <2>1. CASE q \in T
    BY <2>1
  <2>2. CASE q \notin T
    BY <2>2, HonestStays DEF ReplyInvariant
  <2> QED
    BY <2>1, <2>2
<1>2. StoredBacked'
  <2> SUFFICES ASSUME NEW e \in stored'
               PROVE  IF e.order.kind = "decide" THEN Decided(e.order, e.key)'
                                                 ELSE Moved(e.order.state, e.order.session)'
    BY DEF StoredBacked
  <2>1. IF e.order.kind = "decide" THEN Decided(e.order, e.key)
                                   ELSE Moved(e.order.state, e.order.session)
    BY DEF ReplyInvariant, StoredBacked
  <2> QED
    BY <2>1 DEF RecordsGrow
<1>3. AnswersKept'
  <2> SUFFICES ASSUME NEW q \in Requests, request'[q] # Idle, request'[q].end = "recorded",
                      request'[q].key # NoKey
               PROVE  \/ <<request'[q].key, Scope(request'[q].order)>> \in aged'
                      \/ \E e \in stored' : /\ ~e.expired /\ e.key = request'[q].key
                                            /\ e.scope = Scope(request'[q].order)
    BY DEF AnswersKept, Scope
  <2>1. request'[q] = request[q]
    OBVIOUS
  <2>2. \/ <<request[q].key, Scope(request[q].order)>> \in aged
        \/ \E e \in stored : /\ ~e.expired /\ e.key = request[q].key
                             /\ e.scope = Scope(request[q].order)
    BY <2>1 DEF ReplyInvariant, AnswersKept
  <2> QED
    BY <2>1, <2>2
<1> QED
  BY <1>1, <1>2, <1>3 DEF ReplyInvariant

(* What a thread holds.                                                    *)
LEMMA ThreadFacts ==
  ASSUME ConsoleShape, NEW r \in Requests, request[r] # Idle
  PROVE  /\ request[r].key \in ReplayKeys \cup {NoKey} /\ request[r].order \in Orders
         /\ request[r].stage \in Stages /\ request[r].end \in Ends
         /\ request[r].via \in {"api", "page"}
         /\ request[r].order.kind \in {"decide", "workflow"}
         /\ request[r].order.kind = "decide" =>
              /\ request[r].order.action \in Actions
              /\ request[r].order.verdict \in {"approve", "deny"}
         /\ Scope(request[r].order) \in Scopes
<1>1. PICK S : request \in [Requests -> ThreadsIn(S) \cup {Idle}]
  BY DEF ConsoleShape
<1>2. request[r] \in ThreadsIn(S)
  BY <1>1
<1>3. /\ request[r].key \in ReplayKeys \cup {NoKey} /\ request[r].order \in Orders
      /\ request[r].stage \in Stages /\ request[r].end \in Ends
      /\ request[r].via \in {"api", "page"}
  BY <1>2 DEF ThreadsIn
<1>4. /\ request[r].order.kind \in {"decide", "workflow"}
      /\ request[r].order.kind = "decide" =>
           /\ request[r].order.action \in Actions
           /\ request[r].order.verdict \in {"approve", "deny"}
  BY <1>3 DEF Orders, Decide, Move
<1>5. Scope(request[r].order) \in Scopes
  BY <1>4 DEF Scope, Scopes
<1> QED
  BY <1>3, <1>4, <1>5

(* A thread that is idle, and one that is not.                             *)
LEMMA AtStage ==
  ASSUME ConsoleShape, NEW r \in Requests
  PROVE  /\ At(r, "idle") <=> request[r] = Idle
         /\ \A stage \in Stages : At(r, stage) => request[r] # Idle
<1>1. request[r] # Idle => request[r].stage \in Stages
  BY ThreadFacts
<1>2. Idle.stage = "idle" /\ "idle" \notin Stages
  BY DEF Idle, Stages
<1> QED
  BY <1>1, <1>2 DEF At

(* Where a thread goes after it found no answer.                           *)
LEMMA FirstCalls ==
  ASSUME NEW o \in Orders
  PROVE  /\ FirstCall(o) \in {"approve", "find", "session"}
         /\ FirstCall(o) = "approve" => o.kind = "decide" /\ o.verdict = "approve"
         /\ FirstCall(o) = "find" => o.kind = "decide"
<1>1. CASE o \in Decide /\ o.verdict = "approve"
  <2>1. o.kind = "decide"
    BY <1>1 DEF Decide
  <2>2. FirstCall(o) = "approve"
    BY <1>1, <2>1 DEF FirstCall
  <2> QED
    BY <1>1, <2>1, <2>2
<1>2. CASE o \in Decide /\ o.verdict # "approve"
  <2>1. o.kind = "decide" /\ o.verdict = "deny"
    BY <1>2 DEF Decide
  <2>2. FirstCall(o) = "find"
    BY <2>1 DEF FirstCall
  <2> QED
    BY <2>1, <2>2
<1>3. CASE o \in Move
  <2>1. o.kind = "workflow"
    BY <1>3 DEF Move
  <2>2. FirstCall(o) = "session"
    BY <2>1 DEF FirstCall
  <2> QED
    BY <2>2
<1> QED
  BY <1>1, <1>2, <1>3 DEF Orders

(* A step of one thread that stores no reply.                              *)
LEMMA OneThreadKeepsReplies ==
  ASSUME ReplyInvariant, NEW r \in Requests, ConsoleShape', RecordsGrow,
         aged' = aged, stored' \subseteq stored,
         \A e \in stored : ~e.expired => e \in stored',
         \A q \in Requests : q # r => request'[q] = request[q],
         \A q \in Requests : q # r => transit'[q] = transit[q],
         ThreadHonest(r)',
         \/ request'[r] = request[r]
         \/ request'[r].end # "recorded" \/ request'[r].key = NoKey
  PROVE  ReplyInvariant'
<1>1. \A q \in {r} :
        /\ ThreadHonest(q)'
        /\ \/ request'[q] = request[q]
           \/ request'[q].end # "recorded" \/ request'[q].key = NoKey
  <2> SUFFICES ASSUME NEW q \in {r}
               PROVE  /\ ThreadHonest(q)'
                      /\ \/ request'[q] = request[q]
                         \/ request'[q].end # "recorded" \/ request'[q].key = NoKey
    OBVIOUS
  <2>1. q = r
    OBVIOUS
  <2> QED
    BY <2>1
<1>2. {r} \in SUBSET Requests
  OBVIOUS
<1>3. \A q \in Requests : q \notin {r} =>
        request'[q] = request[q] /\ (transit'[q] = transit[q] \/ transit'[q] = NoEvent)
  OBVIOUS
<1> QED
  BY <1>1, <1>2, <1>3, ThreadsKeepReplies

(* Nothing but the threads changes.                                        *)
LEMMA QuietTables ==
  ASSUME ConsoleShape, UNCHANGED <<decisions, wfVars>>, stored' \subseteq stored
  PROVE  /\ RecordsGrow
         /\ (\E S : request' \in [Requests -> ThreadsIn(S) \cup {Idle}]) => ConsoleShape'
         /\ transit' = transit /\ journal' = journal
<1>1. decisions' = decisions /\ journal' = journal /\ transit' = transit
  BY DEF wfVars
<1>2. RecordsGrow
  BY <1>1, TablesGrow
<1> QED
  BY <1>1, <1>2 DEF ConsoleShape

(* A request arrives.                                                      *)
LEMMA ArriveKeeps ==
  ASSUME ReplyInvariant, NEW r \in Requests, NEW via \in {"api", "page"},
         NEW key \in ReplayKeys \cup {NoKey}, NEW o \in Orders, Arrive(r, via, key, o)
  PROVE  ReplyInvariant'
<1> PICK session : session = IF o.kind = "workflow" /\ o.session \in Sessions
                             THEN o.session ELSE "console"
  OBVIOUS
<1> PICK stage : stage = IF key = NoKey THEN FirstCall(o) ELSE "lookup"
  OBVIOUS
<1>1. PICK q : q = [stage |-> stage, via |-> via, key |-> key, order |-> o,
                    session |-> session, end |-> "none"]
  OBVIOUS
<1>2. PICK S : request \in [Requests -> ThreadsIn(S) \cup {Idle}]
  BY DEF ReplyInvariant, ConsoleShape
<1>3. /\ request' = [request EXCEPT ![r] = q]
      /\ UNCHANGED <<decisions, stored, aged, wfVars>>
      /\ At(r, "idle")
  BY <1>1 DEF Arrive
<1>4. request[r] = Idle /\ transit[r] = NoEvent
  BY <1>3, AtStage DEF ReplyInvariant, ThreadHonest
<1>5. /\ stage \in {"lookup", "approve", "find", "session"}
      /\ stage = "approve" => o.kind = "decide" /\ o.verdict = "approve"
      /\ stage = "find" => o.kind = "decide"
      /\ stage = "lookup" => key # NoKey
  BY FirstCalls
<1>6. q \in ThreadsIn(S \cup {session}) /\ ThreadsIn(S) \subseteq ThreadsIn(S \cup {session})
  BY <1>1, <1>5 DEF ThreadsIn, Stages, Ends
<1>7. request' \in [Requests -> ThreadsIn(S \cup {session}) \cup {Idle}]
  BY <1>2, <1>3, <1>6
<1>8. request'[r] = q /\ \A p \in Requests : p # r => request'[p] = request[p]
  BY <1>2, <1>3
<1>9. /\ q.stage = stage /\ q.via = via /\ q.key = key /\ q.order = o
      /\ q.session = session /\ q.end = "none"
  BY <1>1
<1>10. RecordsGrow /\ ConsoleShape' /\ transit' = transit
  BY <1>3, <1>7, QuietTables DEF ReplyInvariant
<1>11. o.kind = "workflow" /\ via = "api" => session = o.session
  <2>1. o.kind = "workflow" => o.session \in Sessions \cup {"latest"}
    BY DEF Orders, Decide, Move
  <2>2. o.kind = "workflow" /\ via = "api" => o.session # "latest"
    BY DEF Arrive
  <2> QED
    BY <2>1, <2>2
<1>12. key # NoKey => via = "api"
  BY DEF Arrive
<1>13. ThreadHonest(r)'
  BY <1>4, <1>5, <1>8, <1>9, <1>10, <1>11, <1>12 DEF ThreadHonest
<1>14. request'[r].end # "recorded"
  BY <1>8, <1>9
<1> QED
  BY <1>3, <1>8, <1>10, <1>13, <1>14, OneThreadKeepsReplies

(* A thread makes a call, or is refused: nothing is recorded yet.          *)
LEMMA CallKeeps ==
  ASSUME ReplyInvariant, NEW r \in Requests,
         UNCHANGED <<decisions, aged, wfVars>>, stored' \subseteq stored,
         \A e \in stored : ~e.expired => e \in stored',
         NEW stage, NEW session, NEW end, Progress(r, stage, session, end),
         stage \in {"approve", "find", "session", "moving", "record", "done"},
         request[r].stage \in {"lookup", "approve", "find", "session", "moving"},
         stage \in {"approve", "find", "session", "moving"} => transit[r] = NoEvent,
         stage \in {"approve", "find", "record"} => request[r].order.kind = "decide",
         stage = "approve" => request[r].order.verdict = "approve",
         request[r].order.kind = "workflow" /\ request[r].via = "api" =>
           session = request[r].session,
         end \in {"none", "replayed", "mismatch", "refused"},
         stage # "done" => end = "none",
         end = "replayed" =>
           IF request[r].order.kind = "decide"
           THEN Decided(request[r].order, request[r].key)
           ELSE Moved(request[r].order.state, session)
  PROVE  ReplyInvariant'
<1>1. RecordsGrow /\ ConsoleShape' /\ transit' = transit
  BY QuietTables DEF ReplyInvariant, Progress
<1>2. /\ request'[r].stage = stage /\ request'[r].session = session /\ request'[r].end = end
      /\ request'[r].via = request[r].via /\ request'[r].key = request[r].key
      /\ request'[r].order = request[r].order /\ request[r] # Idle /\ request'[r] # Idle
  BY DEF Progress
<1>3. ThreadHonest(r)
  BY DEF ReplyInvariant
<1>4. request[r].key # NoKey => request[r].via = "api"
  BY <1>2, <1>3 DEF ThreadHonest
<1>5. request[r].order.kind = "workflow" /\ request[r].via = "api" =>
        session = request[r].order.session
  BY <1>2, <1>3 DEF ThreadHonest
<1>6. end = "replayed" =>
        IF request[r].order.kind = "decide"
        THEN Decided(request[r].order, request[r].key)'
        ELSE Moved(request[r].order.state, session)'
  <2>1. /\ Decided(request[r].order, request[r].key) =>
             Decided(request[r].order, request[r].key)'
        /\ Moved(request[r].order.state, session) => Moved(request[r].order.state, session)'
    <3> PICK o : o = request[r].order
      OBVIOUS
    <3> PICK key : key = request[r].key
      OBVIOUS
    <3>1. Decided(o, key) => Decided(o, key)'
      BY <1>1 DEF RecordsGrow
    <3>2. Moved(o.state, session) => Moved(o.state, session)'
      BY <1>1 DEF RecordsGrow
    <3> QED
      BY <1>2, <3>1, <3>2 DEF Decided, Moved
  <2> QED
    BY <2>1
<1>7. ThreadHonest(r)'
  BY <1>1, <1>2, <1>4, <1>5, <1>6 DEF ThreadHonest
<1>8. request'[r].end # "recorded" /\ \A q \in Requests : q # r => request'[q] = request[q]
  BY <1>2 DEF Progress
<1> QED
  BY <1>1, <1>7, <1>8, OneThreadKeepsReplies

(* It goes on, or is given its answer.                                     *)
LEMMA GoesOnKeeps ==
  ASSUME ReplyInvariant, NEW r \in Requests,
         UNCHANGED <<decisions, aged, wfVars>>, stored' \subseteq stored,
         \A e \in stored : ~e.expired => e \in stored',
         At(r, "lookup") \/ At(r, "approve") \/ At(r, "find") \/ At(r, "session") \/ At(r, "moving"),
         \/ \E stage \in {"approve", "find", "session", "record"} :
              /\ Goto(r, stage)
              /\ stage \in {"approve", "find", "session"} => ~At(r, "moving")
              /\ stage \in {"approve", "find", "record"} => request[r].order.kind = "decide"
              /\ stage = "approve" => request[r].order.verdict = "approve"
         \/ \E end \in {"replayed", "mismatch", "refused"} :
              /\ Finished(r, end)
              /\ end = "replayed" =>
                   IF request[r].order.kind = "decide"
                   THEN Decided(request[r].order, request[r].key)
                   ELSE Moved(request[r].order.state, request[r].session)
  PROVE  ReplyInvariant'
<1>1. request[r] # Idle
  BY AtStage DEF ReplyInvariant, Stages
<1>2. request[r].stage \in {"lookup", "approve", "find", "session", "moving"}
  BY DEF At
<1>3. request[r].end = "none" /\ (~At(r, "moving") => transit[r] = NoEvent)
  <2>1. ThreadHonest(r)
    BY DEF ReplyInvariant
  <2> QED
    BY <1>1, <1>2, <2>1 DEF ThreadHonest, At
<1>4. ASSUME NEW stage \in {"approve", "find", "session", "record"}, Goto(r, stage),
             stage \in {"approve", "find", "session"} => ~At(r, "moving"),
             stage \in {"approve", "find", "record"} => request[r].order.kind = "decide",
             stage = "approve" => request[r].order.verdict = "approve"
      PROVE  ReplyInvariant'
  <2>1. Progress(r, stage, request[r].session, "none")
    <3>1. stage \in Stages
      BY DEF Stages
    <3> QED
      BY <1>1, <1>3, <1>4, <3>1, GotoProgress DEF ReplyInvariant
  <2> QED
    BY <1>2, <1>3, <1>4, <2>1, CallKeeps
<1>5. ASSUME NEW end \in {"replayed", "mismatch", "refused"}, Finished(r, end),
             end = "replayed" =>
               IF request[r].order.kind = "decide"
               THEN Decided(request[r].order, request[r].key)
               ELSE Moved(request[r].order.state, request[r].session)
      PROVE  ReplyInvariant'
  <2>1. Progress(r, "done", request[r].session, end)
    <3>1. end \in Ends
      BY DEF Ends
    <3> QED
      BY <1>1, <1>5, <3>1, FinishedProgress DEF ReplyInvariant
  <2> QED
    BY <1>2, <1>5, <2>1, CallKeeps
<1> QED
  BY <1>4, <1>5

(* An order that carries a key is looked up.                               *)
LEMMA LookupKeeps ==
  ASSUME ReplyInvariant, NEW r \in Requests, Lookup(r)
  PROVE  ReplyInvariant'
<1>1. request[r] # Idle /\ request[r].stage = "lookup"
  BY AtStage DEF ReplyInvariant, Lookup, At, Stages
<1>2. /\ request[r].key # NoKey /\ request[r].via = "api"
      /\ request[r].order.kind = "workflow" => request[r].session = request[r].order.session
  <2>1. ThreadHonest(r)
    BY DEF ReplyInvariant
  <2> QED
    BY <1>1, <2>1 DEF ThreadHonest
<1>3. ASSUME NEW e \in EntriesOf(r), e.order = request[r].order
      PROVE  IF request[r].order.kind = "decide"
             THEN Decided(request[r].order, request[r].key)
             ELSE Moved(request[r].order.state, request[r].session)
  <2>1. e \in stored /\ e.key = request[r].key
    BY DEF EntriesOf
  <2>2. IF e.order.kind = "decide" THEN Decided(e.order, e.key)
                                   ELSE Moved(e.order.state, e.order.session)
    BY <2>1 DEF ReplyInvariant, StoredBacked
  <2>3. request[r].order.kind \in {"decide", "workflow"}
    BY <1>1, ThreadFacts DEF ReplyInvariant
  <2> QED
    BY <1>2, <1>3, <2>1, <2>2, <2>3
<1>4. UNCHANGED <<decisions, aged, wfVars>>
  BY DEF Lookup
<1>5. ASSUME NEW e \in EntriesOf(r), UNCHANGED stored,
             Finished(r, IF e.order = request[r].order THEN "replayed" ELSE "mismatch")
      PROVE  ReplyInvariant'
  <2>1. \E end \in {"replayed", "mismatch", "refused"} :
          /\ Finished(r, end)
          /\ end = "replayed" => e.order = request[r].order
    BY <1>5
  <2>2. stored' \subseteq stored /\ \A x \in stored : ~x.expired => x \in stored'
    BY <1>5
  <2> QED
    BY <1>3, <1>4, <2>1, <2>2, GoesOnKeeps DEF Lookup
<1>6. ASSUME \A e \in EntriesOf(r) : e.expired, Goto(r, FirstCall(request[r].order)),
             stored' = stored \ EntriesOf(r)
      PROVE  ReplyInvariant'
  <2> PICK stage : stage = FirstCall(request[r].order)
    OBVIOUS
  <2>1. /\ stage \in {"approve", "find", "session"}
        /\ stage = "approve" =>
             request[r].order.kind = "decide" /\ request[r].order.verdict = "approve"
        /\ stage = "find" => request[r].order.kind = "decide"
    BY <1>1, ThreadFacts, FirstCalls DEF ReplyInvariant
  <2>2. stored' \subseteq stored /\ \A x \in stored : ~x.expired => x \in stored'
    BY <1>6
  <2>3. Goto(r, stage) /\ ~At(r, "moving")
    BY <1>1, <1>6 DEF At
  <2> QED
    BY <1>4, <2>1, <2>2, <2>3, GoesOnKeeps DEF Lookup
<1> QED
  BY <1>5, <1>6 DEF Lookup

(* The executor is asked, and the incident looked for.                     *)
LEMMA AskKeeps ==
  ASSUME ReplyInvariant, NEW r \in Requests, AskApprove(r) \/ FindIncident(r)
  PROVE  ReplyInvariant'
<1>1. UNCHANGED <<decisions, aged, wfVars>> /\ stored' = stored
  BY DEF AskApprove, FindIncident
<1>2. At(r, "approve") \/ At(r, "find")
  BY DEF AskApprove, FindIncident
<1>3. request[r] # Idle
  BY <1>2, AtStage DEF ReplyInvariant, Stages
<1>4. request[r].order.kind = "decide" /\ ~At(r, "moving")
  <2>1. ThreadHonest(r)
    BY DEF ReplyInvariant
  <2> QED
    BY <1>2, <1>3, <2>1 DEF ThreadHonest, At
<1>5. Goto(r, "session") \/ Goto(r, "find") \/ Goto(r, "record") \/ Finished(r, "refused")
  BY DEF AskApprove, FindIncident
<1>6. /\ stored' \subseteq stored
      /\ \A e \in stored : ~e.expired => e \in stored'
  BY <1>1
<1>7. ASSUME NEW stage \in {"session", "find", "record"}, Goto(r, stage)
      PROVE  ReplyInvariant'
  BY <1>1, <1>2, <1>4, <1>6, <1>7, GoesOnKeeps
<1>8. ASSUME Finished(r, "refused")
      PROVE  ReplyInvariant'
  BY <1>1, <1>2, <1>6, <1>8, GoesOnKeeps
<1> QED
  BY <1>5, <1>7, <1>8

(* A transition that fails.                                                *)
LEMMA MoveFailsKeeps ==
  ASSUME ReplyInvariant, NEW r \in Requests, At(r, "session") \/ At(r, "moving"),
         MoveFails(r), UNCHANGED <<decisions, stored, aged, wfVars>>
  PROVE  ReplyInvariant'
<1>1. /\ stored' \subseteq stored
      /\ \A e \in stored : ~e.expired => e \in stored'
  OBVIOUS
<1>2. ASSUME request[r].order.kind = "decide", Goto(r, "record")
      PROVE  ReplyInvariant'
  BY <1>1, <1>2, GoesOnKeeps
<1>3. ASSUME Finished(r, "refused")
      PROVE  ReplyInvariant'
  BY <1>1, <1>3, GoesOnKeeps
<1> QED
  BY <1>2, <1>3 DEF MoveFails

(* A session is chosen.                                                    *)
LEMMA ChooseProgress ==
  ASSUME ReplyInvariant, NEW r \in Requests, ChooseSession(r), ~MoveFails(r)
  PROVE  \E session :
           /\ Progress(r, "moving", session, "none")
           /\ request[r].order.kind = "workflow" /\ request[r].via = "api" =>
                session = request[r].session
<1>1. At(r, "session")
  BY DEF ChooseSession
<1>2. request[r] # Idle
  BY <1>1, AtStage DEF ReplyInvariant, Stages
<1> PICK old : old = request[r].session
  OBVIOUS
<1>3. PICK session :
        /\ request' = [request EXCEPT ![r].stage = "moving", ![r].session = session]
        /\ request[r].order.kind = "workflow" /\ request[r].via = "api" => session = old
  <2> PICK session : session =
        CASE request[r].order.kind = "decide" /\ AwaitingSessions # <<>>
               -> Head(AwaitingSessions)
          [] request[r].order.kind = "workflow" /\ request[r].via = "page" /\ journal # <<>>
               -> Last(journal).session
          [] OTHER -> old
    OBVIOUS
  <2>1. request' = [request EXCEPT ![r].stage = "moving", ![r].session = session]
    BY Zenon DEF ChooseSession
  <2>2. request[r].order.kind = "workflow" /\ request[r].via = "api" => session = old
    OBVIOUS
  <2> QED
    BY <2>1, <2>2
<1>4. PICK S : request \in [Requests -> ThreadsIn(S) \cup {Idle}]
  BY DEF ReplyInvariant, ConsoleShape
<1>5. PICK q : q = [[request[r] EXCEPT !.stage = "moving"] EXCEPT !.session = session]
  OBVIOUS
<1>6. PICK T : T = S \cup {session}
  OBVIOUS
<1>7. request[r] \in ThreadsIn(S) /\ ThreadsIn(S) \subseteq ThreadsIn(T)
  BY <1>2, <1>4, <1>6 DEF ThreadsIn
<1>8. request[r] \in ThreadsIn(T) /\ session \in T
  BY <1>6, <1>7
<1>9. PICK q1 : q1 = [request[r] EXCEPT !.stage = "moving"]
  OBVIOUS
<1>10. /\ q1 \in ThreadsIn(T) /\ q1.stage = "moving" /\ q1.end = request[r].end
      /\ q1.via = request[r].via /\ q1.key = request[r].key /\ q1.order = request[r].order
  BY <1>8, <1>9 DEF ThreadsIn, Stages
<1>11. q = [q1 EXCEPT !.session = session]
  BY <1>5, <1>9
<1>12. /\ q \in ThreadsIn(T) /\ q.stage = "moving" /\ q.session = session
       /\ q.end = request[r].end /\ q.via = request[r].via /\ q.key = request[r].key
       /\ q.order = request[r].order
  BY <1>8, <1>10, <1>11 DEF ThreadsIn, Stages
<1>13. request' = [request EXCEPT ![r] = q]
  BY <1>3, <1>5, Zenon
<1>14. q # Idle
  BY <1>12 DEF Idle
<1>15. /\ request' \in [Requests -> ThreadsIn(T) \cup {Idle}]
       /\ request'[r] = q /\ \A p \in Requests : p # r => request'[p] = request[p]
  BY <1>4, <1>7, <1>12, <1>13
<1>16. request[r].end = "none" /\ transit[r] = NoEvent
  <2>1. ThreadHonest(r)
    BY DEF ReplyInvariant
  <2> QED
    BY <1>1, <1>2, <2>1 DEF ThreadHonest, At
<1>17. Progress(r, "moving", session, "none")
  BY <1>2, <1>12, <1>14, <1>15, <1>16 DEF Progress
<1> QED
  BY <1>3, <1>17

(* The thread has chosen, or has failed.                                   *)
LEMMA ChooseKeeps ==
  ASSUME ReplyInvariant, NEW r \in Requests, ChooseSession(r)
  PROVE  ReplyInvariant'
<1>1. UNCHANGED <<decisions, stored, aged, wfVars>> /\ At(r, "session")
  BY DEF ChooseSession
<1>2. request[r] # Idle
  BY <1>1, AtStage DEF ReplyInvariant, Stages
<1>3. CASE MoveFails(r)
  BY <1>1, <1>3, MoveFailsKeeps
<1>4. CASE ~MoveFails(r)
  <2>1. PICK session :
          /\ Progress(r, "moving", session, "none")
          /\ request[r].order.kind = "workflow" /\ request[r].via = "api" =>
               session = request[r].session
    BY <1>4, ChooseProgress
  <2>2. transit[r] = NoEvent
    <3>1. ThreadHonest(r)
      BY DEF ReplyInvariant
    <3> QED
      BY <1>1, <1>2, <3>1 DEF ThreadHonest, At
  <2>3. /\ stored' \subseteq stored
        /\ \A e \in stored : ~e.expired => e \in stored'
    BY <1>1
  <2>4. request[r].stage = "session"
    BY <1>1 DEF At
  <2> QED
    BY <1>1, <2>1, <2>2, <2>3, <2>4, CallKeeps
<1> QED
  BY <1>3, <1>4

(* The gateway's thread checks the transition...                           *)
LEMMA SendKeeps ==
  ASSUME ReplyInvariant, NEW r \in Requests, SendTransition(r)
  PROVE  ReplyInvariant'
<1> PICK event : event = [session |-> request[r].session, previous |-> StateOf(request[r].session),
                          state |-> Target(r)]
  OBVIOUS
<1>1. /\ transit' = [transit EXCEPT ![r] = event] /\ journal' = journal
      /\ UNCHANGED consoleVars /\ At(r, "moving")
  BY DEF SendTransition, CheckTransition
<1>2. /\ request' = request /\ decisions' = decisions /\ stored' = stored /\ aged' = aged
  BY <1>1 DEF consoleVars
<1>3. PICK F : transit \in [Movers -> F]
  BY DEF ReplyInvariant, ConsoleShape
<1>4. r \in Movers
  BY RequestsAssumption
<1>5. /\ transit' \in [Movers -> F \cup {event}] /\ transit'[r] = event
      /\ \A q \in Requests : q # r => transit'[q] = transit[q]
  BY <1>1, <1>3, <1>4, RequestsAssumption
<1>6. ConsoleShape'
  BY <1>1, <1>2, <1>5 DEF ReplyInvariant, ConsoleShape
<1>7. RecordsGrow
  BY <1>1, <1>2, TablesGrow
<1>8. ThreadHonest(r)'
  <2>1. request[r] # Idle /\ request[r].stage = "moving" /\ ThreadHonest(r)
    BY <1>1, AtStage DEF ReplyInvariant, At, Stages
  <2>2. event.session = request[r].session /\ event.state = Target(r)
    OBVIOUS
  <2>3. Target(r)' = Target(r)
    BY <1>2 DEF Target
  <2>4. PICK q : q = request[r]
    OBVIOUS
  <2>5. q.end = "none" /\ (q.key # NoKey => q.via = "api")
        /\ (q.order.kind = "workflow" /\ q.via = "api" => q.session = q.order.session)
    BY <2>1, <2>4 DEF ThreadHonest
  <2> QED
    BY <1>2, <1>5, <2>1, <2>2, <2>3, <2>4, <2>5 DEF ThreadHonest
<1> QED
  BY <1>2, <1>5, <1>6, <1>7, <1>8, OneThreadKeepsReplies

(* ... and appends it.                                                     *)
LEMMA AppendGrows ==
  ASSUME ConsoleShape, NEW m \in Movers, AppendTransition(m), UNCHANGED decisions
  PROVE  /\ RecordsGrow /\ transit[m] # NoEvent /\ transit'[m] = NoEvent
         /\ \A q \in Movers : q # m => transit'[q] = transit[q]
         /\ \A event : event = transit[m] => Moved(event.state, event.session)'
         /\ (\E E : journal' \in Seq(E)) /\ (\E F : transit' \in [Movers -> F])
<1> PICK event : event = transit[m]
  OBVIOUS
<1>1. /\ journal' = Append(journal, event) /\ event # NoEvent
      /\ transit' = [transit EXCEPT ![m] = NoEvent]
  BY DEF AppendTransition
<1>2. PICK E : journal \in Seq(E)
  BY DEF ConsoleShape
<1>3. PICK F : transit \in [Movers -> F]
  BY DEF ConsoleShape
<1>4. /\ journal' \in Seq(E \cup {event})
      /\ \A i \in DOMAIN journal : i \in DOMAIN journal' /\ journal'[i] = journal[i]
      /\ Len(journal) + 1 \in DOMAIN journal' /\ journal'[Len(journal) + 1] = event
  BY <1>1, <1>2, AppendsAny
<1>5. RecordsGrow
  BY <1>4, TablesGrow
<1>6. /\ transit' \in [Movers -> F \cup {NoEvent}] /\ transit'[m] = NoEvent
      /\ \A q \in Movers : q # m => transit'[q] = transit[q]
  BY <1>1, <1>3
<1>7. Moved(event.state, event.session)'
  BY <1>4 DEF Moved
<1> QED
  BY <1>1, <1>4, <1>5, <1>6, <1>7

(* The transition is done.                                                 *)
LEMMA DoneKeeps ==
  ASSUME ReplyInvariant, NEW r \in Requests, TransitionDone(r)
  PROVE  ReplyInvariant'
<1>1. /\ AppendTransition(r) /\ UNCHANGED <<decisions, stored, aged>>
      /\ IF At(r, "moving") THEN Goto(r, "record") ELSE UNCHANGED request
  BY DEF TransitionDone
<1>2. r \in Movers /\ Requests \subseteq Movers
  BY RequestsAssumption
<1>3. /\ RecordsGrow /\ transit[r] # NoEvent /\ transit'[r] = NoEvent
      /\ \A q \in Movers : q # r => transit'[q] = transit[q]
      /\ (\E E : journal' \in Seq(E)) /\ (\E F : transit' \in [Movers -> F])
  BY <1>1, <1>2, AppendGrows DEF ReplyInvariant
<1> PICK event : event = transit[r]
  OBVIOUS
<1>4. PICK i \in DOMAIN journal' :
        journal'[i].state = event.state /\ journal'[i].session = event.session
  <2>1. Moved(event.state, event.session)'
    BY <1>1, <1>2, AppendGrows DEF ReplyInvariant
  <2> QED
    BY <2>1 DEF Moved
<1>5. ThreadHonest(r) /\ request[r] # Idle
  BY <1>3 DEF ReplyInvariant, ThreadHonest
<1>6. CASE At(r, "moving")
  <2>1. Progress(r, "record", request[r].session, request[r].end)
    BY <1>1, <1>5, <1>6, GotoProgress DEF ReplyInvariant, Stages
  <2>2. /\ request'[r].stage = "record" /\ request'[r].session = request[r].session
        /\ request'[r].end = request[r].end /\ request'[r].via = request[r].via
        /\ request'[r].key = request[r].key /\ request'[r].order = request[r].order
        /\ request'[r] # Idle /\ \A q \in Requests : q # r => request'[q] = request[q]
        /\ \E S : request' \in [Requests -> ThreadsIn(S) \cup {Idle}]
    BY <2>1 DEF Progress
  <2>3. request[r].stage = "moving" /\ event.session = request[r].session
        /\ event.state = Target(r)
    BY <1>3, <1>5, <1>6 DEF ThreadHonest, At
  <2>4. /\ request[r].end = "none" /\ (request[r].key # NoKey => request[r].via = "api")
        /\ (request[r].order.kind = "workflow" /\ request[r].via = "api" =>
              request[r].session = request[r].order.session)
    BY <1>5, <2>3 DEF ThreadHonest
  <2>5. request[r].order.kind = "workflow" => event.state = request[r].order.state
    BY <2>3 DEF Target
  <2>6. request'[r].order.kind = "workflow" =>
          Moved(request[r].order.state, request[r].session)'
    BY <1>4, <2>2, <2>3, <2>5 DEF Moved
  <2>7. ThreadHonest(r)'
    BY <2>2, <2>4, <2>6 DEF ThreadHonest
  <2>8. ConsoleShape'
    BY <1>1, <1>3, <2>2 DEF ReplyInvariant, ConsoleShape
  <2> QED
    BY <1>1, <1>2, <1>3, <2>2, <2>4, <2>7, <2>8, OneThreadKeepsReplies
<1>7. CASE ~At(r, "moving")
  <2>1. request' = request
    BY <1>1, <1>7
  <2>2. ThreadHonest(r)'
    BY <1>3, <1>5, <2>1, HonestStays
  <2>3. ConsoleShape'
    BY <1>1, <1>3, <2>1 DEF ReplyInvariant, ConsoleShape
  <2> QED
    BY <1>1, <1>2, <1>3, <2>1, <2>2, <2>3, OneThreadKeepsReplies
<1> QED
  BY <1>6, <1>7

(* An agent's transition.                                                  *)
LEMMA AgentKeeps ==
  ASSUME ReplyInvariant, NEW m \in Agents, AgentStep(m)
  PROVE  ReplyInvariant'
<1>1. /\ request' = request /\ decisions' = decisions /\ stored' = stored /\ aged' = aged
  BY DEF AgentStep, consoleVars
<1>2. m \in Movers /\ m \notin Requests /\ Requests \subseteq Movers
  BY RequestsAssumption
<1>3. /\ RecordsGrow /\ (\E E : journal' \in Seq(E)) /\ (\E F : transit' \in [Movers -> F])
      /\ \A q \in Movers : q # m => transit'[q] = transit[q]
  <2>1. CASE AppendTransition(m)
    BY <1>1, <1>2, <2>1, AppendGrows DEF ReplyInvariant
  <2>2. ASSUME NEW s \in Sessions, NEW state \in AgentMoves, CheckTransition(m, s, state)
        PROVE  /\ RecordsGrow /\ (\E E : journal' \in Seq(E))
               /\ (\E F : transit' \in [Movers -> F])
               /\ \A q \in Movers : q # m => transit'[q] = transit[q]
    <3> PICK event : event = [session |-> s, previous |-> StateOf(s), state |-> state]
      OBVIOUS
    <3>1. journal' = journal /\ transit' = [transit EXCEPT ![m] = event]
      BY <2>2 DEF CheckTransition
    <3>2. PICK F : transit \in [Movers -> F]
      BY DEF ReplyInvariant, ConsoleShape
    <3>3. /\ transit' \in [Movers -> F \cup {event}]
          /\ \A q \in Movers : q # m => transit'[q] = transit[q]
      BY <1>2, <3>1, <3>2
    <3>4. RecordsGrow
      BY <1>1, <3>1, TablesGrow
    <3> QED
      BY <3>1, <3>3, <3>4 DEF ReplyInvariant, ConsoleShape
  <2> QED
    BY <2>1, <2>2 DEF AgentStep
<1>4. ConsoleShape'
  BY <1>1, <1>3 DEF ReplyInvariant, ConsoleShape
<1>5. /\ \A q \in Requests : q \notin {} =>
           request'[q] = request[q] /\ (transit'[q] = transit[q] \/ transit'[q] = NoEvent)
      /\ {} \in SUBSET Requests
      /\ aged \subseteq aged' /\ stored' \subseteq stored
      /\ \A e \in stored : ~e.expired => e \in stored'
  BY <1>1, <1>2, <1>3
<1>6. \A q \in {} :
        /\ ThreadHonest(q)'
        /\ \/ request'[q] = request[q]
           \/ request'[q].end # "recorded" \/ request'[q].key = NoKey
  OBVIOUS
<1> QED
  BY <1>3, <1>4, <1>5, <1>6, ThreadsKeepReplies

(* The decision is recorded.                                               *)
LEMMA RecordGrows ==
  ASSUME ConsoleShape, NEW r \in Requests, RecordResult(r)
  PROVE  /\ RecordsGrow /\ decisions' \in Seq(Rows) /\ request[r] # Idle
         /\ request[r].order.kind = "decide" =>
              /\ \A o, key : o = request[r].order /\ key = request[r].key =>
                   DecidedBy(r, o)' /\ Decided(o, key)'
              /\ decisions' = Append(decisions, [action |-> request[r].order.action,
                                                 verdict |-> request[r].order.verdict,
                                                 by |-> r, key |-> request[r].key])
         /\ request[r].order.kind # "decide" => decisions' = decisions
<1>1. request[r] # Idle
  BY AtStage DEF RecordResult, Stages
<1> PICK o : o = request[r].order
  OBVIOUS
<1> PICK key : key = request[r].key
  OBVIOUS
<1>2. /\ key \in ReplayKeys \cup {NoKey}
      /\ o.kind = "decide" => o.action \in Actions /\ o.verdict \in {"approve", "deny"}
  BY <1>1, ThreadFacts
<1>3. journal' = journal /\ decisions \in Seq(Rows)
  BY DEF RecordResult, wfVars, ConsoleShape
<1>4. PICK row : row = [action |-> o.action, verdict |-> o.verdict, by |-> r, key |-> key]
  OBVIOUS
<1>5. decisions' = IF o.kind = "decide" THEN Append(decisions, row) ELSE decisions
  BY <1>4 DEF RecordResult
<1>6. CASE o.kind = "decide"
  <2>1. /\ row \in Rows /\ row.action = o.action /\ row.verdict = o.verdict
        /\ row.by = r /\ row.key = key
    BY <1>2, <1>4, <1>6 DEF Rows
  <2>2. /\ decisions' \in Seq(Rows)
        /\ \A i \in DOMAIN decisions : i \in DOMAIN decisions' /\ decisions'[i] = decisions[i]
        /\ Len(decisions) + 1 \in DOMAIN decisions' /\ decisions'[Len(decisions) + 1] = row
    BY <1>3, <1>5, <1>6, <2>1
  <2>3. RecordsGrow
    BY <1>3, <2>2, TablesGrow
  <2>4. DecidedBy(r, o)' /\ Decided(o, key)'
    BY <2>1, <2>2 DEF DecidedBy, Decided
  <2> QED
    BY <1>1, <1>4, <1>5, <1>6, <2>2, <2>3, <2>4
<1>7. CASE o.kind # "decide"
  <2>1. RecordsGrow
    BY <1>3, <1>5, <1>7, TablesGrow
  <2> QED
    BY <1>1, <1>3, <1>5, <1>7, <2>1
<1> QED
  BY <1>6, <1>7

(* The decision, or the transition that was made, is recorded.             *)
LEMMA RecordKeeps ==
  ASSUME ReplyInvariant, NEW r \in Requests, RecordResult(r)
  PROVE  ReplyInvariant'
<1>1. /\ UNCHANGED <<stored, aged, wfVars>> /\ At(r, "record")
      /\ IF request[r].key # NoKey THEN Goto(r, "store") ELSE Finished(r, "recorded")
  BY DEF RecordResult
<1>2. /\ RecordsGrow /\ decisions' \in Seq(Rows) /\ request[r] # Idle /\ ThreadHonest(r)
  BY RecordGrows DEF ReplyInvariant
<1> PICK q : q = request[r]
  OBVIOUS
<1>3. PICK stage, end :
        /\ Progress(r, stage, q.session, end)
        /\ q.key # NoKey => stage = "store" /\ end = "none"
        /\ q.key = NoKey => stage = "done" /\ end = "recorded"
  <2>1. q.end = "none"
    BY <1>1, <1>2 DEF ThreadHonest, At
  <2>2. CASE q.key # NoKey
    <3>1. Progress(r, "store", q.session, "none")
      BY <1>1, <1>2, <2>1, <2>2, GotoProgress DEF ReplyInvariant, Stages
    <3> QED
      BY <2>2, <3>1
  <2>3. CASE q.key = NoKey
    <3>1. Progress(r, "done", q.session, "recorded")
      BY <1>1, <1>2, <2>3, FinishedProgress DEF ReplyInvariant, Ends
    <3> QED
      BY <2>3, <3>1
  <2> QED
    BY <2>2, <2>3
<1>4. /\ request'[r].stage = stage /\ request'[r].session = q.session
      /\ request'[r].end = end /\ request'[r].via = q.via /\ request'[r].key = q.key
      /\ request'[r].order = q.order /\ request'[r] # Idle
      /\ \A p \in Requests : p # r => request'[p] = request[p]
      /\ \E S : request' \in [Requests -> ThreadsIn(S) \cup {Idle}]
  BY <1>3 DEF Progress
<1>5. /\ q.order.kind = "workflow" => Moved(q.order.state, q.session)
      /\ q.key # NoKey => q.via = "api"
      /\ q.order.kind = "workflow" /\ q.via = "api" => q.session = q.order.session
  BY <1>1, <1>2 DEF ThreadHonest, At
<1>6. q.order.kind = "workflow" => Moved(q.order.state, q.session)'
  BY <1>2, <1>5 DEF RecordsGrow
<1>7. q.order.kind = "decide" => DecidedBy(r, q.order)' /\ Decided(q.order, q.key)'
  BY RecordGrows DEF ReplyInvariant
<1>8. ThreadHonest(r)'
  <2>1. stage \in {"store", "done"} /\ end \in {"none", "recorded"}
    BY <1>3
  <2>2. stage # "done" => end = "none"
    BY <1>3
  <2>3. stage = "store" => q.key # NoKey
    BY <1>3
  <2> QED
    BY <1>4, <1>5, <1>6, <1>7, <2>1, <2>2, <2>3 DEF ThreadHonest
<1>9. ConsoleShape'
  BY <1>1, <1>2, <1>4 DEF ReplyInvariant, ConsoleShape, wfVars
<1>10. request'[r].end # "recorded" \/ request'[r].key = NoKey
  BY <1>3, <1>4
<1> QED
  BY <1>1, <1>2, <1>4, <1>8, <1>9, <1>10, OneThreadKeepsReplies DEF wfVars

(* The reply is stored before it is given.                                 *)
LEMMA StoreKeeps ==
  ASSUME ReplyInvariant, NEW r \in Requests, StoreReply(r)
  PROVE  ReplyInvariant'
<1> PICK q : q = request[r]
  OBVIOUS
<1>1. /\ decisions' = decisions /\ aged' = aged /\ journal' = journal /\ transit' = transit
      /\ At(r, "store") /\ Finished(r, "recorded")
  BY DEF StoreReply, wfVars
<1>2. q # Idle /\ ThreadHonest(r) /\ q.stage = "store"
  BY <1>1, AtStage DEF ReplyInvariant, At, Stages
<1>3. PICK entry : entry = [key |-> q.key, scope |-> Scope(q.order), order |-> q.order,
                            expired |-> FALSE]
  OBVIOUS
<1>4. stored' = (stored \ EntriesOf(r)) \cup {entry}
  BY <1>3 DEF StoreReply
<1>5. /\ q.key # NoKey /\ q.via = "api"
      /\ q.order.kind = "workflow" => Moved(q.order.state, q.session) /\ q.session = q.order.session
      /\ q.order.kind = "decide" => DecidedBy(r, q.order) /\ Decided(q.order, q.key)
  BY <1>2 DEF ThreadHonest
<1>6. /\ q.key \in ReplayKeys /\ q.order \in Orders /\ Scope(q.order) \in Scopes
      /\ q.order.kind \in {"decide", "workflow"}
  BY <1>2, <1>5, ThreadFacts DEF ReplyInvariant
<1>7. /\ entry \in Replies /\ ~entry.expired /\ entry.key = q.key
      /\ entry.scope = Scope(q.order) /\ entry.order = q.order
  BY <1>3, <1>6 DEF Replies
<1>8. Progress(r, "done", q.session, "recorded")
  BY <1>1, <1>2, FinishedProgress DEF ReplyInvariant, Ends
<1>9. /\ request'[r].stage = "done" /\ request'[r].session = q.session
      /\ request'[r].end = "recorded" /\ request'[r].via = q.via /\ request'[r].key = q.key
      /\ request'[r].order = q.order /\ request'[r] # Idle
      /\ \A p \in Requests : p # r => request'[p] = request[p]
      /\ \E S : request' \in [Requests -> ThreadsIn(S) \cup {Idle}]
  BY <1>8 DEF Progress
<1>10. RecordsGrow
  BY <1>1, TablesGrow
<1>11. /\ q.order.kind = "workflow" => Moved(q.order.state, q.session)'
       /\ q.order.kind = "decide" => DecidedBy(r, q.order)' /\ Decided(q.order, q.key)'
  BY <1>5, <1>10 DEF RecordsGrow
<1>12. ThreadHonest(r)'
  BY <1>5, <1>9, <1>11 DEF ThreadHonest
<1>13. \A p \in Requests : ThreadHonest(p)'
  <2> SUFFICES ASSUME NEW p \in Requests
               PROVE  ThreadHonest(p)'
    OBVIOUS
  <2>1. CASE p = r
    BY <1>12, <2>1
  <2>2. CASE p # r
    BY <1>1, <1>9, <1>10, <2>2, HonestStays DEF ReplyInvariant
  <2> QED
    BY <2>1, <2>2
<1>14. ConsoleShape'
  BY <1>1, <1>4, <1>7, <1>9 DEF ReplyInvariant, ConsoleShape
<1>15. StoredBacked'
  <2> SUFFICES ASSUME NEW e \in stored'
               PROVE  IF e.order.kind = "decide" THEN Decided(e.order, e.key)'
                                                 ELSE Moved(e.order.state, e.order.session)'
    BY DEF StoredBacked
  <2>1. CASE e \in stored
    <3>1. IF e.order.kind = "decide" THEN Decided(e.order, e.key)
                                     ELSE Moved(e.order.state, e.order.session)
      BY <2>1 DEF ReplyInvariant, StoredBacked
    <3> QED
      BY <1>10, <3>1 DEF RecordsGrow
  <2>2. CASE e \notin stored
    <3>1. e = entry
      BY <1>4, <2>2
    <3>2. IF q.order.kind = "decide" THEN Decided(q.order, q.key)'
                                     ELSE Moved(q.order.state, q.order.session)'
      BY <1>5, <1>6, <1>11
    <3> QED
      BY <1>7, <3>1, <3>2
  <2> QED
    BY <2>1, <2>2
<1>16. AnswersKept'
  <2> SUFFICES ASSUME NEW p \in Requests, request'[p] # Idle, request'[p].end = "recorded",
                      request'[p].key # NoKey
               PROVE  \/ <<request'[p].key, Scope(request'[p].order)>> \in aged'
                      \/ \E e \in stored' : /\ ~e.expired /\ e.key = request'[p].key
                                            /\ e.scope = Scope(request'[p].order)
    BY DEF AnswersKept, Scope
  <2>1. entry \in stored'
    BY <1>4
  <2>2. CASE p = r
    BY <1>7, <1>9, <2>1, <2>2
  <2>3. CASE p # r
    <3>1. request'[p] = request[p]
      BY <1>9, <2>3
    <3>2. CASE <<request[p].key, Scope(request[p].order)>> \in aged
      BY <1>1, <3>1, <3>2
    <3>3. ASSUME NEW e \in stored, ~e.expired, e.key = request[p].key,
                 e.scope = Scope(request[p].order)
          PROVE  \E x \in stored' : /\ ~x.expired /\ x.key = request[p].key
                                    /\ x.scope = Scope(request[p].order)
      <4>1. CASE e \in stored'
        BY <3>3, <4>1
      <4>2. CASE e \notin stored'
        <5>1. e \in EntriesOf(r)
          BY <1>4, <4>2
        <5>2. e.key = q.key /\ e.scope = Scope(q.order)
          BY <5>1 DEF EntriesOf
        <5> QED
          BY <1>7, <2>1, <3>3, <5>2
      <4> QED
        BY <4>1, <4>2
    <3>4. \/ <<request[p].key, Scope(request[p].order)>> \in aged
          \/ \E e \in stored : /\ ~e.expired /\ e.key = request[p].key
                               /\ e.scope = Scope(request[p].order)
      BY <3>1 DEF ReplyInvariant, AnswersKept
    <3> QED
      BY <3>1, <3>2, <3>3, <3>4
  <2> QED
    BY <2>2, <2>3
<1> QED
  BY <1>13, <1>14, <1>15, <1>16 DEF ReplyInvariant

(* The 24 hours of an entry are over.                                      *)
LEMMA ExpiryKeeps ==
  ASSUME ReplyInvariant, NEW e \in stored, KeyExpires(e)
  PROVE  ReplyInvariant'
<1>1. /\ request' = request /\ decisions' = decisions /\ journal' = journal
      /\ transit' = transit /\ aged' = aged \cup {<<e.key, e.scope>>}
  BY DEF KeyExpires, wfVars
<1>2. PICK x : x = [e EXCEPT !.expired = TRUE]
  OBVIOUS
<1>3. stored' = (stored \ {e}) \cup {x}
  BY <1>2 DEF KeyExpires
<1>4. e \in Replies
  BY DEF ReplyInvariant, ConsoleShape
<1>5. x \in Replies /\ x.key = e.key /\ x.scope = e.scope /\ x.order = e.order
  BY <1>2, <1>4 DEF Replies
<1>6. RecordsGrow
  BY <1>1, TablesGrow
<1>7. \A p \in Requests : ThreadHonest(p)'
  BY <1>1, <1>6, HonestStays DEF ReplyInvariant
<1>8. ConsoleShape'
  BY <1>1, <1>3, <1>5 DEF ReplyInvariant, ConsoleShape
<1>9. StoredBacked'
  <2> SUFFICES ASSUME NEW y \in stored'
               PROVE  IF y.order.kind = "decide" THEN Decided(y.order, y.key)'
                                                 ELSE Moved(y.order.state, y.order.session)'
    BY DEF StoredBacked
  <2>1. PICK z \in stored : z.order = y.order /\ z.key = y.key
    BY <1>3, <1>5
  <2>2. IF z.order.kind = "decide" THEN Decided(z.order, z.key)
                                   ELSE Moved(z.order.state, z.order.session)
    BY <2>1 DEF ReplyInvariant, StoredBacked
  <2>3. IF z.order.kind = "decide" THEN Decided(z.order, z.key)'
                                   ELSE Moved(z.order.state, z.order.session)'
    BY <1>6, <2>2 DEF RecordsGrow
  <2> QED
    BY <2>1, <2>3
<1>10. AnswersKept'
  <2> SUFFICES ASSUME NEW p \in Requests, request[p] # Idle, request[p].end = "recorded",
                      request[p].key # NoKey
               PROVE  \/ <<request[p].key, Scope(request[p].order)>> \in aged'
                      \/ \E y \in stored' : /\ ~y.expired /\ y.key = request[p].key
                                            /\ y.scope = Scope(request[p].order)
    BY <1>1 DEF AnswersKept, Scope
  <2>1. \/ <<request[p].key, Scope(request[p].order)>> \in aged
        \/ \E y \in stored : /\ ~y.expired /\ y.key = request[p].key
                             /\ y.scope = Scope(request[p].order)
    BY DEF ReplyInvariant, AnswersKept
  <2> QED
    BY <1>1, <1>3, <2>1
<1> QED
  BY <1>7, <1>8, <1>9, <1>10 DEF ReplyInvariant

(* The console ends: no thread goes on, and none is answered.              *)
LEMMA CrashKeeps ==
  ASSUME ReplyInvariant, ConsoleCrash
  PROVE  ReplyInvariant'
<1>1. /\ UNCHANGED <<decisions, aged, wfVars>> /\ stored' = {e \in stored : ~e.expired}
      /\ request' = [r \in Requests |->
           IF request[r].stage \in {"idle", "done"} THEN request[r]
           ELSE [request[r] EXCEPT !.stage = "done", !.end = "crashed"]]
  BY DEF ConsoleCrash
<1>2. PICK S : request \in [Requests -> ThreadsIn(S) \cup {Idle}]
  BY DEF ReplyInvariant, ConsoleShape
<1>3. ASSUME NEW r \in Requests
      PROVE  \/ request'[r] = request[r]
             \/ /\ request[r] \in ThreadsIn(S) /\ request'[r] \in ThreadsIn(S)
                /\ request'[r].stage = "done" /\ request'[r].end = "crashed"
                /\ request'[r].via = request[r].via /\ request'[r].key = request[r].key
                /\ request'[r].order = request[r].order
                /\ request'[r].session = request[r].session
                /\ request[r] # Idle /\ request'[r] # Idle
  <2>1. CASE request[r].stage \in {"idle", "done"}
    BY <1>1, <2>1
  <2>2. CASE request[r].stage \notin {"idle", "done"}
    <3> PICK q : q = [request[r] EXCEPT !.stage = "done", !.end = "crashed"]
      OBVIOUS
    <3>1. request'[r] = q
      BY <1>1, <2>2
    <3>2. request[r] # Idle
      BY <2>2 DEF Idle
    <3>3. request[r] \in ThreadsIn(S)
      BY <1>2, <3>2
    <3>4. /\ q \in ThreadsIn(S) /\ q.stage = "done" /\ q.end = "crashed"
          /\ q.via = request[r].via /\ q.key = request[r].key
          /\ q.order = request[r].order /\ q.session = request[r].session
      BY <3>3 DEF ThreadsIn, Stages, Ends
    <3>5. q # Idle
      BY <3>4 DEF Idle
    <3> QED
      BY <3>1, <3>2, <3>3, <3>4, <3>5
  <2> QED
    BY <2>1, <2>2
<1>4. request' \in [Requests -> ThreadsIn(S) \cup {Idle}]
  <2>1. \A r \in Requests : request'[r] \in ThreadsIn(S) \cup {Idle}
    BY <1>2, <1>3
  <2>2. request' = [r \in Requests |-> request'[r]]
    BY <1>1
  <2> QED
    BY <2>1, <2>2
<1>5. stored' \subseteq stored /\ \A e \in stored : ~e.expired => e \in stored'
  BY <1>1
<1>6. RecordsGrow /\ ConsoleShape' /\ transit' = transit
  BY <1>1, <1>4, <1>5, QuietTables DEF ReplyInvariant
<1>7. ASSUME NEW r \in Requests
      PROVE  /\ ThreadHonest(r)'
             /\ \/ request'[r] = request[r]
                \/ request'[r].end # "recorded" \/ request'[r].key = NoKey
  <2>1. ThreadHonest(r)
    BY DEF ReplyInvariant
  <2>2. CASE request'[r] = request[r]
    BY <1>6, <2>1, <2>2, HonestStays
  <2>3. CASE request'[r] # request[r]
    <3>1. /\ request'[r].stage = "done" /\ request'[r].end = "crashed"
          /\ request'[r].via = request[r].via /\ request'[r].key = request[r].key
          /\ request'[r].order = request[r].order
          /\ request'[r].session = request[r].session
          /\ request[r] # Idle /\ request'[r] # Idle
      BY <1>3, <2>3
    <3>2. /\ request[r].key # NoKey => request[r].via = "api"
          /\ request[r].order.kind = "workflow" /\ request[r].via = "api" =>
               request[r].session = request[r].order.session
      BY <2>1, <3>1 DEF ThreadHonest
    <3>3. ThreadHonest(r)'
      BY <3>1, <3>2 DEF ThreadHonest
    <3> QED
      BY <3>1, <3>3
  <2> QED
    BY <2>2, <2>3
<1>8. aged \subseteq aged' /\ Requests \in SUBSET Requests
  BY <1>1
<1>9. \A r \in Requests : r \notin Requests =>
        request'[r] = request[r] /\ (transit'[r] = transit[r] \/ transit'[r] = NoEvent)
  OBVIOUS
<1> QED
  BY <1>5, <1>6, <1>7, <1>8, <1>9, ThreadsKeepReplies

(* What the executor and the evidence do leaves the console alone.         *)
LEMMA OthersKeepReplies ==
  ASSUME ReplyInvariant, UNCHANGED <<wfVars, consoleVars>>
  PROVE  ReplyInvariant'
<1>1. /\ journal' = journal /\ transit' = transit /\ request' = request
      /\ decisions' = decisions /\ stored' = stored /\ aged' = aged
  BY DEF wfVars, consoleVars
<1>2. RecordsGrow
  BY <1>1, TablesGrow
<1>3. ConsoleShape'
  BY <1>1 DEF ReplyInvariant, ConsoleShape
<1>4. /\ \A q \in Requests : q \notin {} =>
           request'[q] = request[q] /\ (transit'[q] = transit[q] \/ transit'[q] = NoEvent)
      /\ {} \in SUBSET Requests
      /\ aged \subseteq aged' /\ stored' \subseteq stored
      /\ \A e \in stored : ~e.expired => e \in stored'
  BY <1>1
<1>5. \A q \in {} :
        /\ ThreadHonest(q)'
        /\ \/ request'[q] = request[q]
           \/ request'[q].end # "recorded" \/ request'[q].key = NoKey
  OBVIOUS
<1> QED
  BY <1>2, <1>3, <1>4, <1>5, ThreadsKeepReplies

(* A step of the system keeps replies honest.                              *)
LEMMA StepKeepsReplies ==
  ASSUME ReplyInvariant, ConsoleSystemStep
  PROVE  ReplyInvariant'
<1>1. CASE UNCHANGED <<wfVars, consoleVars>>
  BY <1>1, OthersKeepReplies
<1>2. ASSUME NEW r \in Requests, ConsoleStep(r)
      PROVE  ReplyInvariant'
  <2>1. ASSUME TransitionFails(r)
        PROVE  ReplyInvariant'
    BY <2>1, MoveFailsKeeps DEF TransitionFails
  <2> QED
    BY <1>2, <2>1, ArriveKeeps, LookupKeeps, StoreKeeps, AskKeeps, ChooseKeeps, SendKeeps,
       DoneKeeps, RecordKeeps DEF ConsoleStep, Asked
<1> QED
  BY <1>1, <1>2, ExpiryKeeps, CrashKeeps, AgentKeeps DEF ConsoleSystemStep, DecisionStep

(* An answer that says recorded is true.                                   *)
LEMMA AnswersAreBacked ==
  ASSUME ReplyInvariant
  PROVE  RepliesBacked
<1> SUFFICES ASSUME NEW r \in Requests, request[r] # Idle,
                    request[r].end \in {"recorded", "replayed"}
             PROVE  LET o == request[r].order IN
                    \/ /\ o.kind = "decide"
                       /\ \E i \in DOMAIN decisions :
                            /\ decisions[i].action = o.action
                            /\ decisions[i].verdict = o.verdict
                            /\ IF request[r].end = "recorded" THEN decisions[i].by = r
                                                              ELSE decisions[i].key = request[r].key
                    \/ /\ o.kind = "workflow"
                       /\ \E i \in DOMAIN journal :
                            /\ journal[i].state = o.state
                            /\ journal[i].session = request[r].session
  BY DEF RepliesBacked
<1> PICK q : q = request[r]
  OBVIOUS
<1>1. ThreadHonest(r) /\ q.order.kind \in {"decide", "workflow"}
  BY ThreadFacts DEF ReplyInvariant
<1>2. CASE q.order.kind = "decide"
  <2>1. CASE q.end = "recorded"
    <3>1. DecidedBy(r, q.order)
      BY <1>1, <1>2, <2>1 DEF ThreadHonest
    <3> QED
      BY <1>2, <2>1, <3>1 DEF DecidedBy
  <2>2. CASE q.end = "replayed"
    <3>1. Decided(q.order, q.key)
      BY <1>1, <1>2, <2>2 DEF ThreadHonest
    <3> QED
      BY <1>2, <2>2, <3>1 DEF Decided
  <2> QED
    BY <2>1, <2>2
<1>3. CASE q.order.kind = "workflow"
  <2>1. Moved(q.order.state, q.session)
    BY <1>1, <1>3 DEF ThreadHonest
  <2> QED
    BY <1>3, <2>1 DEF Moved
<1> QED
  BY <1>1, <1>2, <1>3

(* A retry that goes on to the handler found no answer.                    *)
LEMMA RetriesFind ==
  ASSUME ReplyInvariant, ConsoleSystemStep
  PROVE  RetryStep
<1> SUFFICES ASSUME NEW r \in Requests, At(r, "lookup"),
                    request'[r].stage \notin {"lookup", "done"},
                    NEW q \in Requests, request[q] # Idle, request[q].end = "recorded",
                    SameKey(q, r)
             PROVE  <<request[r].key, Scope(request[r].order)>> \in aged
  BY DEF RetryStep
<1>1. request[r] # Idle /\ request[r].stage = "lookup" /\ ThreadHonest(r)
  BY AtStage DEF ReplyInvariant, At, Stages
<1>2. request'[r] # request[r]
  BY <1>1
<1>3. PICK S : request \in [Requests -> ThreadsIn(S) \cup {Idle}]
  BY DEF ReplyInvariant, ConsoleShape
<1>4. \E p \in Requests : ConsoleStep(p)
  <2>1. ~ConsoleCrash
    <3>1. ASSUME ConsoleCrash PROVE FALSE
      <4>1. request'[r] = [request[r] EXCEPT !.stage = "done", !.end = "crashed"]
        BY <1>1, <3>1 DEF ConsoleCrash
      <4>2. request[r] \in ThreadsIn(S)
        BY <1>1, <1>3
      <4>3. request'[r].stage = "done"
        BY <4>1, <4>2 DEF ThreadsIn
      <4> QED
        BY <4>3
    <3> QED
      BY <3>1
  <2> QED
    BY <1>2, <2>1
    DEF ConsoleSystemStep, DecisionStep, KeyExpires, AgentStep, consoleVars
<1>5. Lookup(r)
  <2>1. PICK p \in Requests : ConsoleStep(p)
    BY <1>4
  <2>2. CASE p # r
    <3>1. \E x : request' = [request EXCEPT ![p] = x] \/ request' = request
      BY <2>1, Zenon
      DEF ConsoleStep, Arrive, Lookup, StoreReply, AskApprove, FindIncident, ChooseSession,
          MoveFails, SendTransition, TransitionDone, TransitionFails, RecordResult, Goto,
          Finished, consoleVars
    <3> QED
      BY <1>2, <1>3, <2>2, <3>1
  <2>3. CASE p = r
    BY <1>1, <2>1, <2>3, <1>2
    DEF ConsoleStep, Arrive, StoreReply, AskApprove, FindIncident, ChooseSession, At,
        SendTransition, TransitionDone, TransitionFails, RecordResult, consoleVars
  <2> QED
    BY <2>2, <2>3
<1>6. \A e \in EntriesOf(r) : e.expired
  <2>1. ASSUME NEW end \in Ends, Finished(r, end) PROVE FALSE
    <3>1. Progress(r, "done", request[r].session, end)
      BY <1>1, <2>1, FinishedProgress DEF ReplyInvariant
    <3> QED
      BY <3>1 DEF Progress
  <2>2. "replayed" \in Ends /\ "mismatch" \in Ends
    BY DEF Ends
  <2> QED
    BY <1>5, <2>1, <2>2 DEF Lookup
<1>7. request[r].key # NoKey
  BY <1>1 DEF ThreadHonest
<1>8. /\ request[q].key = request[r].key
      /\ Scope(request[q].order) = Scope(request[r].order)
  BY DEF SameKey
<1>9. \/ <<request[q].key, Scope(request[q].order)>> \in aged
      \/ \E e \in stored : /\ ~e.expired /\ e.key = request[q].key
                           /\ e.scope = Scope(request[q].order)
  BY <1>7, <1>8 DEF ReplyInvariant, AnswersKept
<1>10. \A e \in stored : e.key = request[r].key /\ e.scope = Scope(request[r].order) => e.expired
  BY <1>6 DEF EntriesOf
<1> QED
  BY <1>8, <1>9, <1>10

-----------------------------------------------------------------------------
(* The console's approvals and the executor's.                             *)

(* What the properties count.                                              *)
LEMMA Counts ==
  ASSUME NEW a
  PROVE  /\ ApprovalCount(a) = Cardinality(ApprovalsOf(a))
         /\ ApproveRows(a) = Cardinality(RowsOf(a))
         /\ Unrecorded(a) = Cardinality(Open(a))
BY DEF ApprovalCount, ApprovalsOf, ApproveRows, RowsOf, Unrecorded, Open, IsOpen, Approves,
   UnderWay, Quantify

(* It is finite.                                                           *)
LEMMA CountedAreFinite ==
  ASSUME history \in [Actions -> Seq(Records)], decisions \in Seq(Rows), NEW a \in Actions
  PROVE  /\ IsFiniteSet(ApprovalsOf(a)) /\ IsFiniteSet(RowsOf(a))
         /\ IsFiniteSet(Owing(a)) /\ IsFiniteSet(Open(a))
<1>1. history[a] \in Seq(Records)
  OBVIOUS
<1>2. Len(history[a]) \in Nat /\ DOMAIN history[a] = 1..Len(history[a])
  BY <1>1
<1>3. Len(decisions) \in Nat /\ DOMAIN decisions = 1..Len(decisions)
  OBVIOUS
<1>4. IsFiniteSet(1..Len(history[a])) /\ IsFiniteSet(1..Len(decisions))
  BY <1>2, <1>3, FS_Interval
<1>5. ApprovalsOf(a) \subseteq 1..Len(history[a]) /\ RowsOf(a) \subseteq 1..Len(decisions)
  BY <1>2, <1>3 DEF ApprovalsOf, RowsOf
<1>6. Owing(a) \subseteq Requests /\ Open(a) \subseteq Requests
  BY DEF Owing, Open
<1> QED
  BY <1>4, <1>5, <1>6, FS_Subset, RequestsAssumption

(* A thread that owes no more rows than it did, and accounts for as many   *)
(* approvals.                                                              *)
Calm(r) ==
  \A a : (Owes(r, a)' => Owes(r, a)) /\ (IsOpen(r, a) => IsOpen(r, a)')

(* The numbers, where no approval is given or recorded.                    *)
LEMMA CalmKeepsAccounts ==
  ASSUME Accounted, history \in [Actions -> Seq(Records)], decisions \in Seq(Rows),
         history' \in [Actions -> Seq(Records)], decisions' \in Seq(Rows),
         \A a \in Actions : ApprovalsOf(a)' = ApprovalsOf(a) /\ RowsOf(a)' = RowsOf(a),
         \A r \in Requests : Calm(r)
  PROVE  Accounted'
<1> SUFFICES ASSUME NEW a \in Actions
             PROVE  /\ Cardinality(RowsOf(a)') + Cardinality(Owing(a)')
                         <= Cardinality(ApprovalsOf(a)')
                    /\ Cardinality(ApprovalsOf(a)')
                         <= Cardinality(RowsOf(a)') + Cardinality(Open(a)')
  BY DEF Accounted
<1>1. /\ Cardinality(RowsOf(a)) + Cardinality(Owing(a)) <= Cardinality(ApprovalsOf(a))
      /\ Cardinality(ApprovalsOf(a)) <= Cardinality(RowsOf(a)) + Cardinality(Open(a))
  BY DEF Accounted
<1>2. Owing(a)' \subseteq Owing(a) /\ Open(a) \subseteq Open(a)'
  BY DEF Calm, Owing, Open
<1>3. IsFiniteSet(Owing(a)) /\ IsFiniteSet(Open(a)) /\ IsFiniteSet(RowsOf(a))
      /\ IsFiniteSet(ApprovalsOf(a))
  BY CountedAreFinite
<1>4. Open(a)' \subseteq Requests
  BY DEF Open
<1>5. IsFiniteSet(Open(a)')
  BY <1>4, FS_Subset, RequestsAssumption
<1>6. IsFiniteSet(Owing(a)') /\ Cardinality(Owing(a)') <= Cardinality(Owing(a))
  BY <1>2, <1>3, FS_Subset
<1>7. Cardinality(Open(a)) <= Cardinality(Open(a)')
  BY <1>2, <1>5, FS_Subset
<1>8. /\ Cardinality(Owing(a)) \in Nat /\ Cardinality(Owing(a)') \in Nat
      /\ Cardinality(Open(a)) \in Nat /\ Cardinality(Open(a)') \in Nat
      /\ Cardinality(RowsOf(a)) \in Nat /\ Cardinality(ApprovalsOf(a)) \in Nat
  BY <1>3, <1>5, <1>6, FS_CardinalityType
<1> PICK rows, approvals : rows = Cardinality(RowsOf(a)) /\ approvals = Cardinality(ApprovalsOf(a))
  OBVIOUS
<1>9. Cardinality(RowsOf(a)') = rows /\ Cardinality(ApprovalsOf(a)') = approvals
  OBVIOUS
<1> QED
  BY <1>1, <1>6, <1>7, <1>8, <1>9

(* What one record does to the approvals.                                  *)
LEMMA ApprovalsAfterRecord ==
  ASSUME history \in [Actions -> Seq(Records)], NEW a \in Actions, NEW e \in Records,
         Record(a, e)
  PROVE  /\ history' \in [Actions -> Seq(Records)]
         /\ \A b \in Actions :
              ApprovalsOf(b)' = IF b = a /\ e.status = "approved"
                                THEN ApprovalsOf(b) \cup {Len(history[b]) + 1}
                                ELSE ApprovalsOf(b)
         /\ Len(history[a]) + 1 \notin ApprovalsOf(a)
<1>1. /\ history' \in [Actions -> Seq(Records)]
      /\ \A b \in Actions : b # a => history'[b] = history[b]
      /\ history'[a][Len(history[a]) + 1] = e
      /\ \A i \in DOMAIN history[a] : history'[a][i] = history[a][i]
      /\ DOMAIN history[a] = 1..Len(history[a])
      /\ DOMAIN history'[a] = 1..(Len(history[a]) + 1)
      /\ Len(history[a]) \in Nat
  BY RecordAppends
<1>2. ASSUME NEW b \in Actions, b # a
      PROVE  ApprovalsOf(b)' = ApprovalsOf(b)
  BY <1>1, <1>2 DEF ApprovalsOf
<1>3. ApprovalsOf(a)' = IF e.status = "approved"
                        THEN ApprovalsOf(a) \cup {Len(history[a]) + 1}
                        ELSE ApprovalsOf(a)
  <2>1. DOMAIN history'[a] = DOMAIN history[a] \cup {Len(history[a]) + 1}
    BY <1>1
  <2>2. Len(history[a]) + 1 \notin DOMAIN history[a]
    BY <1>1
  <2> QED
    BY <1>1, <2>1, <2>2, Zenon DEF ApprovalsOf
<1>4. Len(history[a]) + 1 \notin ApprovalsOf(a)
  BY <1>1 DEF ApprovalsOf
<1> QED
  BY <1>1, <1>2, <1>3, <1>4

(* Threads that stay where they are are calm...                            *)
LEMMA SameIsCalm ==
  ASSUME NEW r, request'[r] = request[r]
  PROVE  Calm(r)
BY DEF Calm, Owes, IsOpen, Approves

(* ... and those that move on without having asked for an approval, or     *)
(* with it in hand.                                                        *)
LEMMA ProgressIsCalm ==
  ASSUME NEW r \in Requests, ThreadHonest(r), NEW stage, NEW session, NEW end,
         Progress(r, stage, session, end), request[r].stage # "done",
         \/ ~(request[r].order.kind = "decide" /\ request[r].order.verdict = "approve")
         \/ request[r].stage \in UnderWay /\ stage \in UnderWay
         \/ request[r].stage \notin UnderWay /\ stage \notin UnderWay
  PROVE  \A q \in Requests : Calm(q)
<1>1. \A q \in Requests : q # r => Calm(q)
  BY SameIsCalm DEF Progress
<1>2. /\ request'[r].stage = stage /\ request'[r].order = request[r].order
      /\ request[r] # Idle /\ request'[r] # Idle
  BY DEF Progress
<1>3. request[r].end = "none"
  BY <1>2 DEF ThreadHonest
<1>4. Calm(r)
  BY <1>2, <1>3 DEF Calm, Owes, IsOpen, Approves
<1> QED
  BY <1>1, <1>4


-----------------------------------------------------------------------------
(* The numbers at each step.                                               *)

(* What the steps below need of the state, beside the numbers.             *)
BooksInvariant == JournalInvariant /\ ReplyInvariant /\ Accounted

(* The tables have the types the numbers need.                             *)
LEMMA BooksTyped ==
  ASSUME JournalInvariant, ReplyInvariant
  PROVE  history \in [Actions -> Seq(Records)] /\ decisions \in Seq(Rows)
BY DEF JournalInvariant, ExecInvariant, ExecTypeOK, ReplyInvariant, ConsoleShape

(* Neither the executor's journal nor the decisions change: only threads   *)
(* do.                                                                     *)
LEMMA ThreadsKeepAccounts ==
  ASSUME BooksInvariant, history' = history, decisions' = decisions,
         \A r \in Requests : Calm(r)
  PROVE  Accounted'
<1>1. history \in [Actions -> Seq(Records)] /\ decisions \in Seq(Rows)
  BY BooksTyped DEF BooksInvariant
<1>2. \A a \in Actions : ApprovalsOf(a)' = ApprovalsOf(a) /\ RowsOf(a)' = RowsOf(a)
  BY DEF ApprovalsOf, RowsOf
<1> QED
  BY <1>1, <1>2, CalmKeepsAccounts DEF BooksInvariant

(* The executor on its own approves nothing.                               *)
LEMMA ExecutorKeepsAccounts ==
  ASSUME BooksInvariant, ExecutorMoves, UNCHANGED <<request, decisions>>
  PROVE  Accounted'
<1>1. \A r \in Requests : Calm(r)
  BY SameIsCalm
<1>2. CASE UNCHANGED history
  BY <1>1, <1>2, ThreadsKeepAccounts
<1>3. CASE \E a \in Actions, e \in Records : Record(a, e) /\ e.status # "approved"
  <2>1. PICK a \in Actions, e \in Records : Record(a, e) /\ e.status # "approved"
    BY <1>3
  <2>2. history \in [Actions -> Seq(Records)] /\ decisions \in Seq(Rows)
    BY BooksTyped DEF BooksInvariant
  <2>3. /\ history' \in [Actions -> Seq(Records)]
        /\ \A b \in Actions : ApprovalsOf(b)' = ApprovalsOf(b)
    BY <2>1, <2>2, ApprovalsAfterRecord
  <2>4. \A b \in Actions : RowsOf(b)' = RowsOf(b)
    BY DEF RowsOf
  <2> QED
    BY <1>1, <2>2, <2>3, <2>4, CalmKeepsAccounts DEF BooksInvariant
<1> QED
  BY <1>2, <1>3, MovesAppend DEF BooksInvariant, JournalInvariant

(* A request arrives: it owes nothing yet.                                 *)
LEMMA ArriveIsCalm ==
  ASSUME ConsoleShape, NEW r \in Requests, NEW via, NEW key, NEW o \in Orders,
         Arrive(r, via, key, o)
  PROVE  \A q \in Requests : Calm(q)
<1>1. PICK S : request \in [Requests -> ThreadsIn(S) \cup {Idle}]
  BY DEF ConsoleShape
<1> PICK session : session = IF o.kind = "workflow" /\ o.session \in Sessions
                             THEN o.session ELSE "console"
  OBVIOUS
<1> PICK stage : stage = IF key = NoKey THEN FirstCall(o) ELSE "lookup"
  OBVIOUS
<1>2. PICK p : p = [stage |-> stage, via |-> via, key |-> key, order |-> o,
                    session |-> session, end |-> "none"]
  OBVIOUS
<1>3. request' = [request EXCEPT ![r] = p]
  BY <1>2 DEF Arrive
<1>4. request'[r] = p /\ \A q \in Requests : q # r => request'[q] = request[q]
  BY <1>1, <1>3
<1>5. request[r] = Idle
  BY AtStage DEF Arrive
<1>6. o.kind = "decide" /\ o.verdict = "approve" => stage \in {"approve", "lookup"}
  BY DEF FirstCall
<1>7. p.stage = stage /\ p.order = o
  BY <1>2
<1>8. Calm(r)
  BY <1>4, <1>5, <1>6, <1>7 DEF Calm, Owes, IsOpen, Approves, UnderWay
<1> QED
  BY <1>4, <1>8, SameIsCalm

(* A thread looks its key up, or stores its answer.                        *)
LEMMA KeyIsCalm ==
  ASSUME ReplyInvariant, NEW r \in Requests, Lookup(r) \/ StoreReply(r)
  PROVE  \A q \in Requests : Calm(q)
<1>1. /\ ConsoleShape /\ ThreadHonest(r) /\ request[r] # Idle
      /\ request[r].stage \in {"lookup", "store"}
  BY AtStage DEF ReplyInvariant, Lookup, StoreReply, At, Stages
<1>2. ASSUME NEW end \in Ends, Finished(r, end)
      PROVE  \A q \in Requests : Calm(q)
  <2>1. Progress(r, "done", request[r].session, end)
    BY <1>1, <1>2, FinishedProgress
  <2> QED
    BY <1>1, <2>1, ProgressIsCalm DEF UnderWay
<1>3. ASSUME Goto(r, FirstCall(request[r].order))
      PROVE  \A q \in Requests : Calm(q)
  <2>1. PICK stage : stage = FirstCall(request[r].order)
    OBVIOUS
  <2>2. request[r].order \in Orders
    BY <1>1, ThreadFacts
  <2>3. stage \in Stages
    BY <2>1, <2>2, FirstCalls DEF Stages
  <2>4. Progress(r, stage, request[r].session, request[r].end)
    BY <1>1, <1>3, <2>1, <2>3, GotoProgress
  <2>5. request[r].order.kind = "decide" /\ request[r].order.verdict = "approve" =>
          stage = "approve"
    BY <2>1 DEF FirstCall
  <2> QED
    BY <1>1, <2>4, <2>5, ProgressIsCalm DEF UnderWay
<1>4. {"replayed", "mismatch", "recorded"} \subseteq Ends
  BY DEF Ends
<1> QED
  BY <1>2, <1>3, <1>4 DEF Lookup, StoreReply

(* A thread mirrors its decision, or moves the workflow.                   *)
LEMMA MirrorIsCalm ==
  ASSUME ReplyInvariant, NEW r \in Requests,
         \/ FindIncident(r) \/ ChooseSession(r) \/ SendTransition(r)
         \/ TransitionDone(r) \/ TransitionFails(r)
  PROVE  \A q \in Requests : Calm(q)
<1>1. ConsoleShape /\ ThreadHonest(r)
  BY DEF ReplyInvariant
<1>2. CASE UNCHANGED request
  BY <1>2, SameIsCalm
<1>3. ASSUME NEW stage \in {"session", "record"},
             At(r, "find") \/ At(r, "session") \/ At(r, "moving"), Goto(r, stage)
      PROVE  \A q \in Requests : Calm(q)
  <2>1. request[r] # Idle /\ request[r].stage \in {"find", "session", "moving"}
    BY <1>1, <1>3, AtStage DEF At, Stages
  <2>2. Progress(r, stage, request[r].session, request[r].end)
    BY <1>1, <1>3, <2>1, GotoProgress DEF Stages
  <2> QED
    BY <1>1, <2>1, <2>2, ProgressIsCalm DEF UnderWay
<1>4. ASSUME At(r, "session") \/ At(r, "moving"), MoveFails(r)
      PROVE  \A q \in Requests : Calm(q)
  <2>1. CASE request[r].order.kind = "decide"
    BY <1>3, <1>4, <2>1 DEF MoveFails
  <2>2. CASE request[r].order.kind # "decide"
    <3>1. request[r] # Idle /\ request[r].stage # "done"
      BY <1>1, <1>4, AtStage DEF At, Stages
    <3>2. Finished(r, "refused") /\ "refused" \in Ends
      BY <1>4, <2>2 DEF MoveFails, Ends
    <3>3. Progress(r, "done", request[r].session, "refused")
      BY <1>1, <3>1, <3>2, FinishedProgress
    <3> QED
      BY <1>1, <2>2, <3>1, <3>3, ProgressIsCalm
  <2> QED
    BY <2>1, <2>2
<1>5. ASSUME ChooseSession(r), ~MoveFails(r)
      PROVE  \A q \in Requests : Calm(q)
  <2>1. PICK session : Progress(r, "moving", session, "none")
    BY <1>5, ChooseProgress
  <2>2. request[r].stage = "session"
    BY <1>5 DEF ChooseSession, At
  <2> QED
    BY <1>1, <2>1, <2>2, ProgressIsCalm DEF UnderWay
<1> QED
  BY <1>2, <1>3, <1>4, <1>5
  DEF FindIncident, ChooseSession, SendTransition, TransitionDone, TransitionFails, consoleVars

(* The console's process ends: what a thread owes, it still accounts for.  *)
LEMMA CrashIsCalm ==
  ASSUME ConsoleShape, ConsoleCrash
  PROVE  \A r \in Requests : Calm(r)
<1>1. PICK S : request \in [Requests -> ThreadsIn(S) \cup {Idle}]
  BY DEF ConsoleShape
<1> SUFFICES ASSUME NEW r \in Requests, request'[r] # request[r]
             PROVE  Calm(r)
  BY SameIsCalm
<1>2. /\ request[r].stage \notin {"idle", "done"}
      /\ request'[r] = [request[r] EXCEPT !.stage = "done", !.end = "crashed"]
  BY DEF ConsoleCrash
<1>3. request[r] # Idle
  BY <1>2 DEF Idle
<1>4. request[r] \in ThreadsIn(S)
  BY <1>1, <1>3
<1>5. /\ request'[r].stage = "done" /\ request'[r].end = "crashed"
      /\ request'[r].order = request[r].order
  BY <1>2, <1>4 DEF ThreadsIn
<1>6. request'[r] # Idle
  BY <1>5 DEF Idle
<1> QED
  BY <1>3, <1>5, <1>6 DEF Calm, Owes, IsOpen, Approves, UnderWay

(* The numbers, where one thread's approval is counted on either side: one *)
(* more approval and one more thread, or one more row and one less.        *)
LEMMA OneMoreApproval ==
  ASSUME NEW rows, NEW owing, NEW open, NEW approvals, NEW x, NEW r,
         NEW owing1, NEW open1,
         IsFiniteSet(rows), IsFiniteSet(owing), IsFiniteSet(open), IsFiniteSet(approvals),
         Cardinality(rows) + Cardinality(owing) <= Cardinality(approvals),
         Cardinality(approvals) <= Cardinality(rows) + Cardinality(open),
         x \notin approvals, r \notin open,
         owing1 = owing \/ owing1 = owing \cup {r}, open1 = open \cup {r}
  PROVE  /\ Cardinality(rows) + Cardinality(owing1) <= Cardinality(approvals \cup {x})
         /\ Cardinality(approvals \cup {x}) <= Cardinality(rows) + Cardinality(open1)
<1>1. /\ Cardinality(rows) \in Nat /\ Cardinality(owing) \in Nat
      /\ Cardinality(open) \in Nat /\ Cardinality(approvals) \in Nat
  BY FS_CardinalityType
<1>2. Cardinality(approvals \cup {x}) = Cardinality(approvals) + 1
  BY FS_AddElement
<1>3. Cardinality(open1) = Cardinality(open) + 1
  BY FS_AddElement
<1>4. Cardinality(owing \cup {r}) = IF r \in owing THEN Cardinality(owing)
                                                   ELSE Cardinality(owing) + 1
  BY FS_AddElement
<1>5. Cardinality(owing1) \in Nat /\ Cardinality(owing1) <= Cardinality(owing) + 1
  BY <1>1, <1>4
<1> QED
  BY <1>1, <1>2, <1>3, <1>5

(* The same for a row.                                                     *)
LEMMA OneMoreRow ==
  ASSUME NEW rows, NEW owing, NEW open, NEW approvals, NEW x, NEW r,
         IsFiniteSet(rows), IsFiniteSet(owing), IsFiniteSet(open), IsFiniteSet(approvals),
         Cardinality(rows) + Cardinality(owing) <= Cardinality(approvals),
         Cardinality(approvals) <= Cardinality(rows) + Cardinality(open),
         x \notin rows, r \in owing, r \in open
  PROVE  /\ Cardinality(rows \cup {x}) + Cardinality(owing \ {r}) <= Cardinality(approvals)
         /\ Cardinality(approvals) <= Cardinality(rows \cup {x}) + Cardinality(open \ {r})
<1>1. /\ Cardinality(rows) \in Nat /\ Cardinality(owing) \in Nat
      /\ Cardinality(open) \in Nat /\ Cardinality(approvals) \in Nat
  BY FS_CardinalityType
<1>2. Cardinality(rows \cup {x}) = Cardinality(rows) + 1
  BY FS_AddElement
<1>3. Cardinality(owing \ {r}) = Cardinality(owing) - 1
  BY FS_RemoveElement
<1>4. Cardinality(open \ {r}) = Cardinality(open) - 1
  BY FS_RemoveElement
<1> QED
  BY <1>1, <1>2, <1>3, <1>4

(* The console asks for an approval: one that is given is owed, or its     *)
(* thread was refused the answer.                                          *)
LEMMA AskKeepsAccounts ==
  ASSUME BooksInvariant, NEW r \in Requests, AskApprove(r)
  PROVE  Accounted'
<1>1. /\ ConsoleShape /\ ThreadHonest(r) /\ At(r, "approve")
      /\ history \in [Actions -> Seq(Records)] /\ decisions \in Seq(Rows)
  BY BooksTyped DEF BooksInvariant, ReplyInvariant, AskApprove
<1> PICK a : a = request[r].order.action
  OBVIOUS
<1>2. /\ request[r] # Idle /\ a \in Actions
      /\ request[r].order.kind = "decide" /\ request[r].order.verdict = "approve"
  BY <1>1, AskedFor
<1>3. request[r].stage = "approve" /\ request[r].end = "none"
  BY <1>1, <1>2 DEF ThreadHonest, At
<1>4. decisions' = decisions
  BY DEF AskApprove
<1>5. ASSUME Finished(r, "refused")
      PROVE  Progress(r, "done", request[r].session, "refused")
  BY <1>1, <1>2, <1>5, FinishedProgress DEF Ends
<1>6. ASSUME Finished(r, "refused"), UNCHANGED execVars
      PROVE  Accounted'
  <2>1. \A q \in Requests : Calm(q)
    BY <1>1, <1>3, <1>5, <1>6, ProgressIsCalm DEF UnderWay
  <2> QED
    BY <1>4, <1>6, <2>1, ThreadsKeepAccounts DEF execVars
<1>7. ASSUME NEW m \in Minutes, Approve(a, m), NEW stage, NEW end,
             Progress(r, stage, request[r].session, end),
             stage \in UnderWay \/ end = "refused"
      PROVE  Accounted'
  <2>1. PICK e \in Records : Record(a, e) /\ e.status = "approved"
    BY <1>2, <1>7, ApproveAppends DEF BooksInvariant, JournalInvariant
  <2>2. /\ history' \in [Actions -> Seq(Records)]
        /\ \A b \in Actions : b # a => ApprovalsOf(b)' = ApprovalsOf(b)
        /\ ApprovalsOf(a)' = ApprovalsOf(a) \cup {Len(history[a]) + 1}
        /\ Len(history[a]) + 1 \notin ApprovalsOf(a)
    BY <1>1, <1>2, <2>1, ApprovalsAfterRecord
  <2>3. /\ request'[r].stage = stage /\ request'[r].end = end
        /\ request'[r].order = request[r].order /\ request'[r] # Idle
        /\ \A q \in Requests : q # r => request'[q] = request[q]
    BY <1>7 DEF Progress
  <2>4. ASSUME NEW b \in Actions
        PROVE  RowsOf(b)' = RowsOf(b)
    BY <1>4 DEF RowsOf
  <2>5. ASSUME NEW b, NEW q \in Requests, q # r
        PROVE  /\ Owes(q, b)' <=> Owes(q, b)
               /\ IsOpen(q, b)' <=> IsOpen(q, b)
    BY <2>3, <2>5 DEF Owes, IsOpen, Approves
  <2>6. \A b : ~Owes(r, b) /\ ~IsOpen(r, b)
    BY <1>3 DEF Owes, IsOpen, UnderWay
  <2>7. /\ \A b : b # a => ~Owes(r, b)' /\ ~IsOpen(r, b)'
        /\ IsOpen(r, a)'
    BY <1>2, <1>7, <2>3 DEF Owes, IsOpen, Approves
  <2>8. ASSUME NEW b \in Actions, b # a
        PROVE  Owing(b)' = Owing(b) /\ Open(b)' = Open(b)
    BY <2>5, <2>6, <2>7, <2>8 DEF Owing, Open
  <2>9. /\ Owing(a)' = Owing(a) \/ Owing(a)' = Owing(a) \cup {r}
        /\ Open(a)' = Open(a) \cup {r} /\ r \notin Open(a)
    BY <2>5, <2>6, <2>7 DEF Owing, Open
  <2>10. /\ IsFiniteSet(ApprovalsOf(a)) /\ IsFiniteSet(RowsOf(a))
         /\ IsFiniteSet(Owing(a)) /\ IsFiniteSet(Open(a))
    BY <1>1, <1>2, CountedAreFinite
  <2>11. \A b \in Actions :
           /\ Cardinality(RowsOf(b)) + Cardinality(Owing(b)) <= Cardinality(ApprovalsOf(b))
           /\ Cardinality(ApprovalsOf(b)) <= Cardinality(RowsOf(b)) + Cardinality(Open(b))
    BY DEF BooksInvariant, Accounted
  <2>12. /\ Cardinality(RowsOf(a)) + Cardinality(Owing(a)')
              <= Cardinality(ApprovalsOf(a)')
         /\ Cardinality(ApprovalsOf(a)')
              <= Cardinality(RowsOf(a)) + Cardinality(Open(a)')
    <3> PICK rows, owing, open, approvals, x, owing1, open1 :
          /\ rows = RowsOf(a) /\ owing = Owing(a) /\ open = Open(a)
          /\ approvals = ApprovalsOf(a) /\ x = Len(history[a]) + 1
          /\ owing1 = Owing(a)' /\ open1 = Open(a)'
      OBVIOUS
    <3>1. /\ IsFiniteSet(rows) /\ IsFiniteSet(owing) /\ IsFiniteSet(open)
          /\ IsFiniteSet(approvals)
      BY <2>10
    <3>2. /\ Cardinality(rows) + Cardinality(owing) <= Cardinality(approvals)
          /\ Cardinality(approvals) <= Cardinality(rows) + Cardinality(open)
      BY <1>2, <2>11
    <3>3. /\ x \notin approvals /\ r \notin open
          /\ owing1 = owing \/ owing1 = owing \cup {r}
          /\ open1 = open \cup {r}
      BY <2>2, <2>9
    <3>4. /\ Cardinality(rows) + Cardinality(owing1) <= Cardinality(approvals \cup {x})
          /\ Cardinality(approvals \cup {x}) <= Cardinality(rows) + Cardinality(open1)
      BY <3>1, <3>2, <3>3, OneMoreApproval
    <3>5. ApprovalsOf(a)' = approvals \cup {x}
      BY <2>2
    <3> QED
      BY <3>4, <3>5
  <2> SUFFICES ASSUME NEW b \in Actions
               PROVE  /\ Cardinality(RowsOf(b)') + Cardinality(Owing(b)')
                           <= Cardinality(ApprovalsOf(b)')
                      /\ Cardinality(ApprovalsOf(b)')
                           <= Cardinality(RowsOf(b)') + Cardinality(Open(b)')
    BY DEF Accounted
  <2>13. CASE b = a
    BY <2>4, <2>12, <2>13
  <2>14. CASE b # a
    BY <2>2, <2>4, <2>8, <2>11, <2>14
  <2> QED
    BY <2>13, <2>14
<1>8. ASSUME NEW m \in Minutes, Approve(a, m), Finished(r, "refused")
      PROVE  Accounted'
  BY <1>5, <1>7, <1>8
<1>9. ASSUME NEW m \in Minutes, Approve(a, m), NEW stage \in {"session", "find"},
             Goto(r, stage)
      PROVE  Accounted'
  <2>1. Progress(r, stage, request[r].session, request[r].end)
    BY <1>1, <1>2, <1>9, GotoProgress DEF Stages
  <2> QED
    BY <1>7, <1>9, <2>1 DEF UnderWay
<1> QED
  BY <1>6, <1>8, <1>9 DEF AskApprove

(* A thread that records its result goes on.                               *)
LEMMA RecordProgress ==
  ASSUME ConsoleShape, NEW r \in Requests, RecordResult(r)
  PROVE  /\ request[r] # Idle /\ request[r].stage = "record"
         /\ \E stage, end :
              /\ stage \in {"store", "done"}
              /\ Progress(r, stage, request[r].session, end)
              /\ end = "recorded" \/ end = request[r].end
<1>1. request[r] # Idle /\ request[r].stage = "record"
  BY AtStage DEF RecordResult, At, Stages
<1>2. CASE Goto(r, "store")
  BY <1>1, <1>2, GotoProgress DEF Stages
<1>3. CASE Finished(r, "recorded")
  BY <1>1, <1>3, FinishedProgress DEF Ends
<1> QED
  BY <1>1, <1>2, <1>3 DEF RecordResult

(* An approval is recorded: its thread owes it no more.                    *)
LEMMA RowKeepsAccounts ==
  ASSUME BooksInvariant, NEW r \in Requests, RecordResult(r),
         request[r].order.kind = "decide", request[r].order.verdict = "approve"
  PROVE  Accounted'
<1>1. /\ ConsoleShape /\ ThreadHonest(r)
      /\ history \in [Actions -> Seq(Records)] /\ decisions \in Seq(Rows)
  BY BooksTyped DEF BooksInvariant, ReplyInvariant
<1> PICK a : a = request[r].order.action
  OBVIOUS
<1>2. request[r] # Idle /\ request[r].stage = "record"
  BY <1>1, RecordProgress
<1>3. a \in Actions /\ request[r].end = "none"
  BY <1>1, <1>2, ThreadFacts DEF ThreadHonest
<1>4. PICK stage, end : /\ stage \in {"store", "done"}
                        /\ Progress(r, stage, request[r].session, end)
                        /\ end = "recorded" \/ end = "none"
  BY <1>1, <1>3, RecordProgress
<1>5. /\ request'[r].stage = stage /\ request'[r].end = end
      /\ request'[r].order = request[r].order /\ request'[r] # Idle
      /\ \A q \in Requests : q # r => request'[q] = request[q]
  BY <1>4 DEF Progress
<1>6. PICK row : row = [action |-> request[r].order.action,
                        verdict |-> request[r].order.verdict,
                        by |-> r, key |-> request[r].key]
  OBVIOUS
<1>7. /\ decisions' = Append(decisions, row) /\ decisions' \in Seq(Rows)
      /\ row.action = a /\ row.verdict = "approve"
  BY <1>1, <1>6, RecordGrows
<1>8. history' = history
  BY DEF RecordResult, execVars
<1>9. /\ Len(decisions) \in Nat /\ DOMAIN decisions = 1..Len(decisions)
      /\ DOMAIN decisions' = DOMAIN decisions \cup {Len(decisions) + 1}
      /\ Len(decisions) + 1 \notin DOMAIN decisions
      /\ \A i \in DOMAIN decisions : decisions'[i] = decisions[i]
      /\ decisions'[Len(decisions) + 1] = row
  <2>1. row \in Rows
    BY <1>1, <1>2, <1>3, <1>6, ThreadFacts DEF Rows
  <2> QED
    BY <1>1, <1>7, <2>1
<1>10. /\ RowsOf(a)' = RowsOf(a) \cup {Len(decisions) + 1}
       /\ Len(decisions) + 1 \notin RowsOf(a)
       /\ \A b : b # a => RowsOf(b)' = RowsOf(b)
  <2>1. \A b : RowsOf(b)' = {i \in DOMAIN decisions' : decisions'[i].action = b
                                                     /\ decisions'[i].verdict = "approve"}
    BY DEF RowsOf
  <2> QED
    BY <1>7, <1>9, <2>1, Zenon DEF RowsOf
<1>11. \A b \in Actions : ApprovalsOf(b)' = ApprovalsOf(b)
  BY <1>8 DEF ApprovalsOf
<1>12. ASSUME NEW b, NEW q \in Requests, q # r
       PROVE  /\ Owes(q, b)' <=> Owes(q, b)
              /\ IsOpen(q, b)' <=> IsOpen(q, b)
  BY <1>5, <1>12 DEF Owes, IsOpen, Approves
<1>13. /\ \A b : ~Owes(r, b)' /\ ~IsOpen(r, b)'
       /\ \A b : b # a => ~Owes(r, b) /\ ~IsOpen(r, b)
       /\ Owes(r, a) /\ IsOpen(r, a)
  BY <1>2, <1>4, <1>5 DEF Owes, IsOpen, Approves, UnderWay
<1>14. ASSUME NEW b \in Actions, b # a
       PROVE  Owing(b)' = Owing(b) /\ Open(b)' = Open(b)
  BY <1>12, <1>13, <1>14 DEF Owing, Open
<1>15. /\ Owing(a)' = Owing(a) \ {r} /\ Open(a)' = Open(a) \ {r}
       /\ r \in Owing(a) /\ r \in Open(a)
  BY <1>12, <1>13 DEF Owing, Open
<1>16. \A b \in Actions :
         /\ Cardinality(RowsOf(b)) + Cardinality(Owing(b)) <= Cardinality(ApprovalsOf(b))
         /\ Cardinality(ApprovalsOf(b)) <= Cardinality(RowsOf(b)) + Cardinality(Open(b))
  BY DEF BooksInvariant, Accounted
<1>17. /\ Cardinality(RowsOf(a)') + Cardinality(Owing(a)') <= Cardinality(ApprovalsOf(a))
       /\ Cardinality(ApprovalsOf(a)) <= Cardinality(RowsOf(a)') + Cardinality(Open(a)')
  <2> PICK rows, owing, open, approvals, x :
        /\ rows = RowsOf(a) /\ owing = Owing(a) /\ open = Open(a)
        /\ approvals = ApprovalsOf(a) /\ x = Len(decisions) + 1
    OBVIOUS
  <2>1. /\ IsFiniteSet(rows) /\ IsFiniteSet(owing) /\ IsFiniteSet(open)
        /\ IsFiniteSet(approvals)
    BY <1>1, <1>3, CountedAreFinite
  <2>2. /\ Cardinality(rows) + Cardinality(owing) <= Cardinality(approvals)
        /\ Cardinality(approvals) <= Cardinality(rows) + Cardinality(open)
    BY <1>3, <1>16
  <2>3. x \notin rows /\ r \in owing /\ r \in open
    BY <1>10, <1>15
  <2>4. /\ Cardinality(rows \cup {x}) + Cardinality(owing \ {r}) <= Cardinality(approvals)
        /\ Cardinality(approvals) <= Cardinality(rows \cup {x}) + Cardinality(open \ {r})
    BY <2>1, <2>2, <2>3, OneMoreRow
  <2>5. RowsOf(a)' = rows \cup {x} /\ Owing(a)' = owing \ {r} /\ Open(a)' = open \ {r}
    BY <1>10, <1>15
  <2> QED
    BY <2>4, <2>5
<1> SUFFICES ASSUME NEW b \in Actions
             PROVE  /\ Cardinality(RowsOf(b)') + Cardinality(Owing(b)')
                         <= Cardinality(ApprovalsOf(b)')
                    /\ Cardinality(ApprovalsOf(b)')
                         <= Cardinality(RowsOf(b)') + Cardinality(Open(b)')
  BY DEF Accounted
<1>18. CASE b = a
  BY <1>11, <1>17, <1>18
<1>19. CASE b # a
  BY <1>10, <1>11, <1>14, <1>16, <1>19
<1> QED
  BY <1>18, <1>19

(* A thread records its result.                                            *)
LEMMA ResultKeepsAccounts ==
  ASSUME BooksInvariant, NEW r \in Requests, RecordResult(r)
  PROVE  Accounted'
<1>1. /\ ConsoleShape /\ ThreadHonest(r)
      /\ history \in [Actions -> Seq(Records)] /\ decisions \in Seq(Rows)
  BY BooksTyped DEF BooksInvariant, ReplyInvariant
<1>2. CASE request[r].order.kind = "decide" /\ request[r].order.verdict = "approve"
  BY <1>2, RowKeepsAccounts
<1>3. CASE ~(request[r].order.kind = "decide" /\ request[r].order.verdict = "approve")
  <2>1. /\ request[r].stage = "record"
        /\ \E stage, end : Progress(r, stage, request[r].session, end)
    BY <1>1, RecordProgress
  <2>2. \A q \in Requests : Calm(q)
    BY <1>1, <1>3, <2>1, ProgressIsCalm
  <2>3. history' = history
    BY DEF RecordResult, execVars
  <2>4. decisions' \in Seq(Rows)
    BY <1>1, RecordGrows
  <2>5. \A b : RowsOf(b)' = RowsOf(b)
    <3>1. CASE request[r].order.kind = "decide"
      <4>1. PICK row : row = [action |-> request[r].order.action,
                              verdict |-> request[r].order.verdict,
                              by |-> r, key |-> request[r].key]
        OBVIOUS
      <4>2. request[r] # Idle
        BY <1>1, RecordProgress
      <4>3. row \in Rows /\ row.verdict # "approve"
        BY <1>1, <1>3, <3>1, <4>1, <4>2, ThreadFacts DEF Rows
      <4>4. decisions' = Append(decisions, row)
        BY <1>1, <3>1, <4>1, RecordGrows
      <4>5. /\ DOMAIN decisions' = DOMAIN decisions \cup {Len(decisions) + 1}
            /\ Len(decisions) + 1 \notin DOMAIN decisions
            /\ \A i \in DOMAIN decisions : decisions'[i] = decisions[i]
            /\ decisions'[Len(decisions) + 1] = row
        BY <1>1, <4>3, <4>4
      <4>6. \A b : RowsOf(b)' = {i \in DOMAIN decisions' :
                                    /\ decisions'[i].action = b
                                    /\ decisions'[i].verdict = "approve"}
        BY DEF RowsOf
      <4> QED
        BY <4>3, <4>5, <4>6, Zenon DEF RowsOf
    <3>2. CASE request[r].order.kind # "decide"
      BY <1>1, <3>2, RecordGrows DEF RowsOf
    <3> QED
      BY <3>1, <3>2
  <2>6. \A a \in Actions : ApprovalsOf(a)' = ApprovalsOf(a) /\ RowsOf(a)' = RowsOf(a)
    BY <2>3, <2>5 DEF ApprovalsOf
  <2>7. history' \in [Actions -> Seq(Records)]
    BY <1>1, <2>3
  <2> QED
    BY <1>1, <2>2, <2>4, <2>6, <2>7, CalmKeepsAccounts DEF BooksInvariant
<1> QED
  BY <1>2, <1>3

(* A step of the system keeps the accounts.                                *)
LEMMA StepKeepsAccounts ==
  ASSUME BooksInvariant, ConsoleSystemStep
  PROVE  Accounted'
<1>1. ReplyInvariant /\ ConsoleShape
  BY DEF BooksInvariant, ReplyInvariant
<1>2. ASSUME NEW r \in Requests, ConsoleStep(r)
      PROVE  Accounted'
  <2>1. CASE AskApprove(r)
    BY <2>1, AskKeepsAccounts
  <2>2. CASE RecordResult(r)
    BY <2>2, ResultKeepsAccounts
  <2>3. ASSUME NEW via \in {"api", "page"}, NEW key \in ReplayKeys \cup {NoKey},
               NEW o \in Orders, Arrive(r, via, key, o)
        PROVE  Accounted'
    <3>1. \A q \in Requests : Calm(q)
      BY <1>1, <2>3, ArriveIsCalm
    <3>2. history' = history /\ decisions' = decisions
      BY <2>3 DEF Arrive, execVars
    <3> QED
      BY <3>1, <3>2, ThreadsKeepAccounts
  <2>4. ASSUME Lookup(r) \/ StoreReply(r)
        PROVE  Accounted'
    <3>1. history' = history /\ decisions' = decisions
      BY <2>4 DEF Lookup, StoreReply, execVars
    <3> QED
      BY <1>1, <2>4, <3>1, KeyIsCalm, ThreadsKeepAccounts
  <2>5. ASSUME FindIncident(r) \/ ChooseSession(r) \/ SendTransition(r)
               \/ TransitionDone(r) \/ TransitionFails(r)
        PROVE  Accounted'
    <3>1. history' = history /\ decisions' = decisions
      BY <2>5 DEF FindIncident, ChooseSession, SendTransition, TransitionDone,
                  TransitionFails, execVars, consoleVars
    <3> QED
      BY <1>1, <2>5, <3>1, MirrorIsCalm, ThreadsKeepAccounts
  <2> QED
    BY <1>2, <2>1, <2>2, <2>3, <2>4, <2>5 DEF ConsoleStep, Asked
<1>3. CASE ConsoleCrash
  <2>1. history' = history /\ decisions' = decisions
    BY <1>3 DEF ConsoleCrash, execVars
  <2> QED
    BY <1>1, <1>3, <2>1, CrashIsCalm, ThreadsKeepAccounts
<1>4. ASSUME \/ \E e \in stored : KeyExpires(e)
             \/ \E m \in Agents : AgentStep(m)
             \/ EvidenceStep /\ UNCHANGED <<wfVars, consoleVars>>
      PROVE  Accounted'
  <2>1. history' = history /\ decisions' = decisions /\ request' = request
    BY <1>4 DEF KeyExpires, AgentStep, execVars, consoleVars, EvidenceStep, CollectFixture,
                CollectLab, CollectLive, Hold, AppendEvidence, EditEvidence
  <2>2. \A r \in Requests : Calm(r)
    BY <2>1, SameIsCalm
  <2> QED
    BY <2>1, <2>2, ThreadsKeepAccounts
<1>5. CASE ExecutorMoves /\ UNCHANGED <<wfVars, consoleVars, evidenceVars>>
  BY <1>5, ExecutorKeepsAccounts DEF consoleVars
<1> QED
  BY <1>2, <1>3, <1>4, <1>5 DEF ConsoleSystemStep, DecisionStep

-----------------------------------------------------------------------------
(* The theorems.                                                           *)

(* All that the system preserves, together.                                *)
ConsoleSystemInvariant == EvidenceInvariant /\ ReplyInvariant /\ Accounted

(* The services before any of them was called.                             *)
LEMMA SystemStarts ==
  ASSUME ConsoleSystemInit
  PROVE  ConsoleSystemInvariant
<1>1. ExecInvariant /\ \A a \in Actions : ~Proposed(a) /\ \A S : ~Has(a, S)
  BY ExecutorStarts DEF ConsoleSystemInit
<1>2. /\ history = [a \in Actions |-> <<>>] /\ call = NoCall
      /\ journal = <<>> /\ transit = [m \in Movers |-> NoEvent]
      /\ request = [r \in Requests |-> Idle]
      /\ decisions = <<>> /\ stored = {}
      /\ evidence = <<>> /\ collecting = [c \in Collectors |-> Empty]
  BY DEF ConsoleSystemInit, ExecInit, WorkflowInit, ConsoleInit, EvidenceInit
<1>3. JournalInvariant
  BY <1>1, <1>2 DEF JournalInvariant, RollbackTells, CallStillOpen
<1>4. EvidenceTypeOK
  BY <1>2 DEF EvidenceTypeOK
<1>5. VerdictsStand
  <2>1. \A n \in DOMAIN evidence : FALSE
    BY <1>2
  <2>2. \A c \in Collectors : Stands(collecting[c])
    BY <1>2 DEF Stands
  <2> QED
    BY <2>1, <2>2 DEF VerdictsStand
<1>6. ConsoleShape
  <2>1. request \in [Requests -> ThreadsIn({}) \cup {Idle}]
    BY <1>2
  <2>2. decisions \in Seq(Rows) /\ stored \subseteq Replies
    BY <1>2
  <2>3. journal \in Seq({}) /\ transit \in [Movers -> {NoEvent}]
    BY <1>2
  <2> QED
    BY <2>1, <2>2, <2>3 DEF ConsoleShape
<1>7. \A r \in Requests : ThreadHonest(r)
  <2>1. Requests \subseteq Movers
    BY RequestsAssumption
  <2> QED
    BY <1>2, <2>1 DEF ThreadHonest
<1>8. StoredBacked /\ AnswersKept
  BY <1>2 DEF StoredBacked, AnswersKept
<1>9. Accounted
  <2> SUFFICES ASSUME NEW a \in Actions
               PROVE  /\ Cardinality(RowsOf(a)) + Cardinality(Owing(a))
                           <= Cardinality(ApprovalsOf(a))
                      /\ Cardinality(ApprovalsOf(a))
                           <= Cardinality(RowsOf(a)) + Cardinality(Open(a))
    BY DEF Accounted
  <2>1. RowsOf(a) = {} /\ ApprovalsOf(a) = {}
    BY <1>2 DEF RowsOf, ApprovalsOf
  <2>2. Owing(a) = {} /\ Open(a) = {}
    BY <1>2 DEF Owing, Open, Owes, IsOpen, Approves
  <2>3. Cardinality({}) = 0
    BY FS_EmptySet
  <2> QED
    BY <2>1, <2>2, <2>3
<1> QED
  BY <1>3, <1>4, <1>5, <1>6, <1>7, <1>8, <1>9
  DEF ConsoleSystemInvariant, EvidenceInvariant, ReplyInvariant

(* A step of the evidence keeps what the ledger rests on, and so does one  *)
(* of the others.                                                          *)
LEMMA StepKeepsEvidence ==
  ASSUME ConsoleSystemInvariant, ConsoleSystemStep
  PROVE  EvidenceInvariant'
<1>1. JournalInvariant' /\ \A a \in Actions : \A S : Has(a, S) => Has(a, S)'
  BY HasStays DEF ConsoleSystemInvariant, EvidenceInvariant, ReplyInvariant
<1>2. EvidenceTypeOK /\ VerdictsStand
  BY DEF ConsoleSystemInvariant, EvidenceInvariant
<1>3. EvidenceTypeOK' /\ VerdictsStand'
  BY <1>1, <1>2, EvidenceStepKeeps, VerdictsStay DEF ConsoleSystemStep
<1> QED
  BY <1>1, <1>3 DEF EvidenceInvariant

(* A step of the system keeps the invariant, and so does none.             *)
LEMMA StepKeepsSystem ==
  ASSUME ConsoleSystemInvariant, [ConsoleSystemStep]_allVars
  PROVE  ConsoleSystemInvariant'
<1>1. /\ JournalInvariant /\ EvidenceTypeOK /\ VerdictsStand /\ ReplyInvariant
      /\ BooksInvariant
  BY DEF ConsoleSystemInvariant, EvidenceInvariant, BooksInvariant
<1>2. CASE ConsoleSystemStep
  BY <1>1, <1>2, StepKeepsEvidence, StepKeepsReplies, StepKeepsAccounts
  DEF ConsoleSystemInvariant
<1>3. CASE UNCHANGED allVars
  <2>1. /\ UNCHANGED execVars /\ UNCHANGED <<wfVars, consoleVars>> /\ UNCHANGED evidenceVars
        /\ history' = history /\ decisions' = decisions /\ request' = request
    BY <1>3 DEF allVars, execVars, wfVars, consoleVars, evidenceVars
  <2>2. \A a \in Actions : \A S : Has(a, S) => Has(a, S)'
    BY <2>1 DEF Has
  <2>3. JournalInvariant' /\ EvidenceTypeOK' /\ VerdictsStand'
    BY <1>1, <2>1, <2>2, StillKeepsJournal, VerdictsStay
  <2>4. ReplyInvariant'
    BY <1>1, <2>1, OthersKeepReplies
  <2>5. \A r \in Requests : Calm(r)
    BY <2>1, SameIsCalm
  <2>6. Accounted'
    BY <1>1, <2>1, <2>5, ThreadsKeepAccounts
  <2> QED
    BY <2>3, <2>4, <2>6 DEF ConsoleSystemInvariant, EvidenceInvariant
<1> QED
  BY <1>2, <1>3

(* The accounts say what the property counts.                              *)
LEMMA AccountsAgree ==
  ASSUME JournalInvariant, ReplyInvariant, Accounted
  PROVE  ApprovalsAccounted
<1> SUFFICES ASSUME NEW a \in Actions
             PROVE  /\ ApproveRows(a) <= ApprovalCount(a)
                    /\ ApprovalCount(a) <= ApproveRows(a) + Unrecorded(a)
  BY DEF ApprovalsAccounted
<1>1. history \in [Actions -> Seq(Records)] /\ decisions \in Seq(Rows)
  BY BooksTyped
<1>2. IsFiniteSet(RowsOf(a)) /\ IsFiniteSet(Owing(a)) /\ IsFiniteSet(ApprovalsOf(a))
  BY <1>1, CountedAreFinite
<1>3. /\ Cardinality(RowsOf(a)) \in Nat /\ Cardinality(Owing(a)) \in Nat
      /\ Cardinality(ApprovalsOf(a)) \in Nat
  BY <1>2, FS_CardinalityType
<1>4. /\ Cardinality(RowsOf(a)) + Cardinality(Owing(a)) <= Cardinality(ApprovalsOf(a))
      /\ Cardinality(ApprovalsOf(a)) <= Cardinality(RowsOf(a)) + Cardinality(Open(a))
  BY DEF Accounted
<1>5. Cardinality(RowsOf(a)) <= Cardinality(ApprovalsOf(a))
  BY <1>3, <1>4
<1> QED
  BY <1>4, <1>5, Counts

(* The next-state relation a run explores, a part of this system's.        *)
LEMMA RunStepsAreSteps ==
  ASSUME ExecTypeOK, Next
  PROVE  ConsoleSystemStep
<1>1. ASSUME call # NoCall, Reply(call.verb, <<call.action, call.phase>>, "applied"),
             UNCHANGED <<history, auditValid, config, now, inflight, posts>>
      PROVE  ExecutorMoves
  <2>1. call \in Calls
    BY <1>1 DEF ExecTypeOK
  <2>2. /\ call.verb \in {"POST", "GET"} /\ <<call.action, call.phase>> \in Ops
    BY <2>1 DEF Calls, Ops
  <2> QED
    BY <1>1, <2>2, Zenon DEF ExecutorMoves
<1>2. ExecutorGoesOn => ExecutorMoves
  BY <1>1 DEF ExecutorGoesOn, ExecutorMoves
<1> QED
  BY <1>2 DEF Next, ConsoleSystemStep

(* Whatever they are asked and whenever they crash, the services keep the  *)
(* inductive invariant.                                                    *)
THEOREM ConsoleSystemSafe == ConsoleSystemSpec => []ConsoleSystemInvariant
<1>1. ConsoleSystemInit => ConsoleSystemInvariant
  BY SystemStarts
<1>2. ConsoleSystemInvariant /\ [ConsoleSystemStep]_allVars => ConsoleSystemInvariant'
  BY StepKeepsSystem
<1> QED
  BY <1>1, <1>2, PTL DEF ConsoleSystemSpec

(* The invariant needs no other: started from any state that has it, as    *)
(* the run of OperationsConsole is, the services keep it.                  *)
THEOREM SafeFromAnyState ==
  ConsoleSystemInvariant /\ [][Next]_allVars => []ConsoleSystemInvariant
<1>1. ConsoleSystemInvariant /\ [Next]_allVars => ConsoleSystemInvariant'
  <2> SUFFICES ASSUME ConsoleSystemInvariant, [Next]_allVars
               PROVE  ConsoleSystemInvariant'
    OBVIOUS
  <2>1. ExecTypeOK
    BY DEF ConsoleSystemInvariant, EvidenceInvariant, JournalInvariant, ExecInvariant
  <2>2. [ConsoleSystemStep]_allVars
    BY <2>1, RunStepsAreSteps
  <2> QED
    BY <2>2, StepKeepsSystem
<1> QED
  BY <1>1, PTL

(* A view that calls an incident's recovery verified rests on responses    *)
(* that are in force, unless a rollback is under way.                      *)
THEOREM SummariesHold == ConsoleSystemSpec => []VerifiedSummaryHolds
<1>1. ConsoleSystemInvariant => VerifiedSummaryHolds
  BY SummaryHolds DEF ConsoleSystemInvariant, EvidenceInvariant
<1> QED
  BY <1>1, ConsoleSystemSafe, PTL

(* A run shown green has its response in force, all its evidence intact    *)
(* and a verified record of its own.                                       *)
THEOREM GreenRunsAreLive == ConsoleSystemSpec => []GreenRunIsLive
<1>1. ConsoleSystemInvariant => GreenRunIsLive
  BY RunIsLive
  DEF ConsoleSystemInvariant, EvidenceInvariant, JournalInvariant, ExecInvariant
<1> QED
  BY <1>1, ConsoleSystemSafe, PTL

(* An answer that says recorded is true of the order it answers, at first  *)
(* hand or replayed.                                                       *)
THEOREM RepliesAreBacked == ConsoleSystemSpec => []RepliesBacked
<1>1. ConsoleSystemInvariant => RepliesBacked
  BY AnswersAreBacked DEF ConsoleSystemInvariant
<1> QED
  BY <1>1, ConsoleSystemSafe, PTL

(* A retry that reaches the handler found no answer given within the day.  *)
THEOREM RetriesFindReplies == ConsoleSystemSpec => RetryFindsReply
<1>1. ConsoleSystemInvariant /\ [ConsoleSystemStep]_allVars => [RetryStep]_decisionVars
  <2>1. ASSUME ConsoleSystemInvariant, ConsoleSystemStep
        PROVE  RetryStep
    BY <2>1, RetriesFind DEF ConsoleSystemInvariant
  <2>2. UNCHANGED allVars => UNCHANGED decisionVars
    BY DEF allVars, decisionVars
  <2> QED
    BY <2>1, <2>2
<1> QED
  BY <1>1, ConsoleSystemSafe, PTL DEF ConsoleSystemSpec, RetryFindsReply

(* Every recorded approval is one of its own in the executor's journal,    *)
(* and one that is not recorded belongs to a request under way, refused    *)
(* its answer or crashed.                                                  *)
THEOREM ApprovalsAreAccounted == ConsoleSystemSpec => []ApprovalsAccounted
<1>1. ConsoleSystemInvariant => ApprovalsAccounted
  BY AccountsAgree DEF ConsoleSystemInvariant, EvidenceInvariant
<1> QED
  BY <1>1, ConsoleSystemSafe, PTL
=============================================================================
