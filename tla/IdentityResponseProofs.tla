----------------------- MODULE IdentityResponseProofs -----------------------
(***************************************************************************)
(* Theorems about the executor wired to the identity laboratory, for every *)
(* set of actions, keys, configurations and approval lifetimes, and for    *)
(* every bound on the clock.                                               *)
(***************************************************************************)
EXTENDS IdentityResponse, ExecutorProofs

-----------------------------------------------------------------------------
(* The inductive invariant.                                                *)

(* A history starts with its proposal, made in a mode of this deployment.  *)
ProposalFirst ==
  \A a \in Actions :
    Proposed(a) => /\ Proposal(a) \in Proposals
                   /\ Proposal(a).mode \in {"simulation", "lab"}

(* The last record tells how far an action has gone.                       *)
LastTells ==
  \A a \in Actions :
    /\ ~Has(a, {"execution_rejected"})
    /\ \A phase \in Phases :
         Has(a, {Unknown[phase]}) => Has(a, {Dispatched[phase]})
    /\ Has(a, {"rolled_back"}) =>
         Has(a, {"executed"}) /\ LastStatus(a) = "rolled_back"
    /\ Has(a, {"executed"}) =>
         LastStatus(a) \in {"executed", "rollback_dispatched",
                            "rollback_unknown", "rolled_back"}
    /\ Has(a, {"rollback_dispatched"}) =>
         /\ Has(a, {"executed"})
         /\ LastStatus(a) \in {"rollback_dispatched", "rollback_unknown",
                               "rolled_back"}
         /\ ~Active(a)

(* Nothing is posted that is not in the journal, and nothing twice.        *)
IntentBeforePost ==
  \A a \in Actions, phase \in Phases :
    /\ posts[<<a, phase>>] \in {0, 1}
    /\ posts[<<a, phase>>] = 1 => Has(a, {Dispatched[phase]})

(* Whatever is on the wire or at the laboratory was posted.                *)
WireWasPosted == \A op \in inflight \cup receipts : posts[op] = 1

(* A handler that waits for the laboratory works on a dispatched operation *)
(* that is still open, and has only seen receipts that exist.              *)
CallIsOpen ==
  call # NoCall =>
    /\ InLab(call.action)
    /\ Has(call.action, {Dispatched[call.phase]})
    /\ ~Has(call.action, {"rolled_back"})
    /\ call.phase = "execution" =>
         ~Has(call.action, {"executed", "rollback_dispatched"})
    /\ call.reply # "rejected"
    /\ call.reply = "unsent" => /\ call.verb = "POST"
                                /\ posts[<<call.action, call.phase>>] = 0
    /\ call.reply = "applied" => <<call.action, call.phase>> \in receipts

IInv ==
  /\ TypeOK
  /\ Lab!OwnerHoldsAccount
  /\ ProposalFirst
  /\ IntentsApproved
  /\ LastTells
  /\ IntentBeforePost
  /\ WireWasPosted
  /\ CallIsOpen
  /\ OutcomesHaveReceipts

-----------------------------------------------------------------------------

(* The laboratory's account and receipts keep their types and stay in step *)
(* whatever operations reach it, in whatever order.                        *)
LEMMA LabKeepsOwner ==
  ASSUME Lab!LabTypeOK, Lab!OwnerHoldsAccount, NEW op \in Ops, Lab!Apply(op)
  PROVE  /\ Lab!LabTypeOK'
         /\ Lab!OwnerHoldsAccount'
         /\ receipts \subseteq receipts'
         /\ receipts' \subseteq receipts \cup {op}
<1>1. PICK a \in Actions, phase \in Phases : op = <<a, phase>>
  BY DEF Ops
<1>2. op[1] = a /\ op[2] = phase /\ phase \in {"execution", "rollback"}
  BY <1>1 DEF Phases
<1>. DEFINE Applies(enabled, owner) ==
              /\ receipts' = receipts \cup {<<a, phase>>}
              /\ account' = [enabled |-> enabled, owner |-> owner]
<1>3. CASE phase = "execution" /\ op \notin receipts /\ Lab!CanApply(op)
  <2>1. Applies(FALSE, a)
    BY <1>1, <1>2, <1>3 DEF Lab!Apply
  <2>2. account.enabled /\ account.owner = NoOwner
    BY <1>2, <1>3 DEF Lab!CanApply
  <2>3. <<a, "rollback">> \notin receipts
    BY <1>1, <1>3, <2>2, NoOwnerAssumption DEF Lab!OwnerHoldsAccount
  <2>. QED
    BY <1>1, <1>3, <2>1, <2>2, <2>3, NoOwnerAssumption
    DEF Lab!LabTypeOK, Lab!OwnerHoldsAccount, Lab!LabOps
<1>4. CASE phase = "rollback" /\ op \notin receipts /\ Lab!CanApply(op)
  <2>1. Applies(TRUE, NoOwner)
    BY <1>1, <1>2, <1>4 DEF Lab!Apply
  <2>2. <<a, "execution">> \in receipts /\ account.owner = a
    BY <1>2, <1>4 DEF Lab!CanApply
  <2>. QED
    BY <1>1, <1>4, <2>1, <2>2, NoOwnerAssumption
    DEF Lab!LabTypeOK, Lab!OwnerHoldsAccount, Lab!LabOps
<1>5. CASE ~(op \notin receipts /\ Lab!CanApply(op))
  <2>1. account' = account /\ receipts' = receipts
    BY <1>5 DEF Lab!Apply, Lab!labVars
  <2>. QED
    BY <2>1 DEF Lab!LabTypeOK, Lab!OwnerHoldsAccount
<1>. QED
  BY <1>2, <1>3, <1>4, <1>5
-----------------------------------------------------------------------------
(* Each step preserves the inductive invariant.                            *)

(* The invariant holds at the start.                                       *)
LEMMA InitIInv == Init => IInv
<1>. SUFFICES ASSUME Init PROVE IInv
  OBVIOUS
<1>. USE DEF Init, ExecInit, Lab!LabInit
<1>1. TypeOK
  BY NoOwnerAssumption
  DEF TypeOK, ExecTypeOK, Lab!LabTypeOK, Lab!LabOps, Ops
<1>2. Lab!OwnerHoldsAccount
  BY NoOwnerAssumption DEF Lab!OwnerHoldsAccount
<1>3. \A a \in Actions : ~Proposed(a) /\ \A S : ~Has(a, S)
  <2>1. \A a \in Actions : history[a] = <<>>
    OBVIOUS
  <2>2. DOMAIN <<>> = {}
    OBVIOUS
  <2>. QED
    BY <2>1, <2>2 DEF Proposed, Has
<1>4. ProposalFirst /\ LastTells /\ OutcomesHaveReceipts
  BY <1>3 DEF ProposalFirst, LastTells, OutcomesHaveReceipts, InLab
<1>5. IntentsApproved
  BY DEF IntentsApproved
<1>6. IntentBeforePost /\ WireWasPosted /\ CallIsOpen
  BY DEF IntentBeforePost, WireWasPosted, CallIsOpen, Ops, Phases
<1>. QED
  BY <1>1, <1>2, <1>4, <1>5, <1>6 DEF IInv

(* What every history invariant needs of a step that appends nothing.      *)
LEMMA QuietStep ==
  ASSUME IInv, TypeOK', history' = history, Lab!OwnerHoldsAccount',
         IntentBeforePost', WireWasPosted', CallIsOpen',
         receipts \subseteq receipts'
  PROVE  IInv'
<1>1. ProposalFirst' /\ IntentsApproved' /\ LastTells'
  BY DEF IInv, ProposalFirst, IntentsApproved, LastTells, Proposed,
     Proposal, CitesApproval, Has, LastStatus, Active
<1>2. OutcomesHaveReceipts'
  BY DEF IInv, OutcomesHaveReceipts, InLab, Proposed, Proposal, Has
<1>. QED
  BY <1>1, <1>2 DEF IInv

(* A reconciliation only asks for a receipt.                               *)
LEMMA ReconcileKeeps ==
  ASSUME IInv, TypeOK', NEW a \in Actions, Reconcile(a), UNCHANGED labVars
  PROVE  IInv'
<1>1. /\ history' = history /\ posts' = posts /\ inflight' = inflight
      /\ account' = account /\ receipts' = receipts
  BY DEF Reconcile, labVars
<1>2. Lab!OwnerHoldsAccount' /\ IntentBeforePost' /\ WireWasPosted'
  BY <1>1 DEF IInv, Lab!OwnerHoldsAccount, IntentBeforePost, WireWasPosted, Has
<1>3. PICK phase \in Phases :
        /\ LastStatus(a) \in {Dispatched[phase], Unknown[phase]}
        /\ call' = [verb |-> "GET", action |-> a, phase |-> phase,
                    reply |-> "waiting"]
  BY DEF Reconcile
<1>4. /\ InLab(a)
      /\ Has(a, {Dispatched[phase]})
      /\ ~Has(a, {"rolled_back"})
      /\ phase = "execution" => ~Has(a, {"executed", "rollback_dispatched"})
  <2>1. InLab(a)
    BY DEF IInv, ProposalFirst, Reconcile, InLab, LabModes
  <2>2. history[a] \in Seq(Records) /\ history[a] # <<>>
    BY DEF IInv, TypeOK, ExecTypeOK, Reconcile, Proposed
  <2>3. Len(history[a]) \in DOMAIN history[a]
    BY <2>2
  <2>4. Has(a, {LastStatus(a)})
    BY <2>3 DEF Has, LastStatus
  <2>5. ~Has(a, {"rolled_back"})
    BY <1>3 DEF IInv, LastTells, Dispatched, Unknown, Phases
  <2>6. phase = "execution" => ~Has(a, {"executed"}) /\
                               ~Has(a, {"rollback_dispatched"})
    BY <1>3 DEF IInv, LastTells, Dispatched, Unknown
  <2>7. Has(a, {Dispatched[phase]})
    <3>1. CASE LastStatus(a) = Dispatched[phase]
      BY <2>4, <3>1
    <3>2. CASE LastStatus(a) = Unknown[phase]
      <4>1. Has(a, {Unknown[phase]})
        BY <2>4, <3>2
      <4>. QED
        BY <4>1 DEF IInv, LastTells
    <3>. QED
      BY <1>3, <3>1, <3>2
  <2>8. phase = "execution" => ~Has(a, {"executed", "rollback_dispatched"})
    BY <2>6 DEF Has
  <2>. QED
    BY <2>1, <2>5, <2>7, <2>8
<1>5. CallIsOpen'
  BY <1>1, <1>3, <1>4 DEF CallIsOpen, InLab, Proposed, Proposal, Has
<1>. QED
  BY <1>1, <1>2, <1>5, QuietStep
(* A request leaves once, after its intent.                                *)
LEMMA SendPostKeeps ==
  ASSUME IInv, TypeOK', SendPost, UNCHANGED labVars
  PROVE  IInv'
<1>. DEFINE op == <<call.action, call.phase>>
<1>1. /\ history' = history /\ account' = account /\ receipts' = receipts
      /\ inflight' = inflight \cup {op}
      /\ posts' = [posts EXCEPT ![op] = posts[op] + 1]
      /\ call' = [call EXCEPT !.reply = "waiting"]
      /\ call # NoCall /\ call.reply = "unsent"
  BY DEF SendPost, labVars
<1>2. call \in Calls /\ posts \in [Ops -> Nat]
  BY <1>1 DEF IInv, TypeOK, ExecTypeOK
<1>3. /\ op \in Ops /\ call.action \in Actions /\ call.phase \in Phases
      /\ posts[op] = 0
      /\ Has(call.action, {Dispatched[call.phase]})
  BY <1>1, <1>2 DEF IInv, CallIsOpen, Calls, Ops
<1>4. posts'[op] = 1 /\ \A o \in Ops : o # op => posts'[o] = posts[o]
  BY <1>1, <1>2, <1>3
<1>5. IntentBeforePost'
  <2>. SUFFICES ASSUME NEW a \in Actions, NEW phase \in Phases
                PROVE  /\ posts'[<<a, phase>>] \in {0, 1}
                       /\ posts'[<<a, phase>>] = 1 =>
                            Has(a, {Dispatched[phase]})
    BY <1>1 DEF IntentBeforePost, Has
  <2>1. CASE <<a, phase>> = op
    BY <1>3, <1>4, <2>1
  <2>2. CASE <<a, phase>> # op
    BY <1>4, <2>2 DEF IInv, IntentBeforePost, Ops
  <2>. QED
    BY <2>1, <2>2
<1>6. WireWasPosted'
  <2>1. inflight \cup receipts \subseteq Ops
    BY DEF IInv, TypeOK, ExecTypeOK, Lab!LabTypeOK, Lab!LabOps, Ops, Phases
  <2>. QED
    BY <1>1, <1>4, <2>1 DEF IInv, WireWasPosted
<1>7. CallIsOpen'
  <2>1. /\ call'.action = call.action /\ call'.phase = call.phase
        /\ call'.reply = "waiting"
    BY <1>1, <1>2 DEF Calls
  <2>. QED
    BY <1>1, <2>1 DEF IInv, CallIsOpen, InLab, Proposed, Proposal, Has
<1>8. Lab!OwnerHoldsAccount'
  BY <1>1 DEF IInv, Lab!OwnerHoldsAccount
<1>. QED
  BY <1>1, <1>5, <1>6, <1>7, <1>8, QuietStep

(* A lost request takes nothing with it.                                   *)
LEMMA LosePostKeeps ==
  ASSUME IInv, TypeOK', NEW op \in Ops, LosePost(op), UNCHANGED labVars
  PROVE  IInv'
<1>1. /\ history' = history /\ account' = account /\ receipts' = receipts
      /\ inflight' \subseteq inflight /\ posts' = posts /\ call' = call
  BY DEF LosePost, labVars
<1>2. /\ Lab!OwnerHoldsAccount' /\ IntentBeforePost' /\ WireWasPosted'
      /\ CallIsOpen'
  BY <1>1 DEF IInv, Lab!OwnerHoldsAccount, IntentBeforePost, WireWasPosted,
     CallIsOpen, InLab, Proposed, Proposal, Has
<1>. QED
  BY <1>1, <1>2, QuietStep

(* A crash, a torn append and the clock: no handler waits any more, or the *)
(* same one does.                                                          *)
LEMMA ProcessKeeps ==
  ASSUME IInv, TypeOK', UNCHANGED labVars,
         \/ \E c \in Configs : Crash(c)
         \/ TornAppend
         \/ Tick
  PROVE  IInv'
<1>1. /\ history' = history /\ account' = account /\ receipts' = receipts
      /\ inflight' = inflight /\ posts' = posts
      /\ call' = call \/ call' = NoCall
  BY DEF Crash, TornAppend, Tick, labVars
<1>2. /\ Lab!OwnerHoldsAccount' /\ IntentBeforePost' /\ WireWasPosted'
  BY <1>1 DEF IInv, Lab!OwnerHoldsAccount, IntentBeforePost, WireWasPosted, Has
<1>3. CallIsOpen'
  BY <1>1 DEF IInv, CallIsOpen, InLab, Proposed, Proposal, Has
<1>. QED
  BY <1>1, <1>2, <1>3, QuietStep

(* The laboratory serves a request or answers a question.                  *)
LEMMA LabStepKeeps ==
  ASSUME IInv, TypeOK', NEW op \in Ops, LabPost(op) \/ LabGet(op)
  PROVE  IInv'
<1>1. /\ history' = history /\ posts' = posts
      /\ inflight' \subseteq inflight
      /\ receipts \subseteq receipts'
      /\ receipts' \subseteq receipts \cup inflight
      /\ Lab!OwnerHoldsAccount'
  <2>1. CASE LabPost(op)
    <3>1. Lab!LabTypeOK /\ Lab!OwnerHoldsAccount /\ Lab!Apply(op)
      BY <2>1 DEF IInv, TypeOK, LabPost
    <3>. QED
      BY <2>1, <3>1, LabKeepsOwner DEF LabPost
  <2>2. CASE LabGet(op)
    BY <2>2 DEF LabGet, labVars, IInv, Lab!OwnerHoldsAccount
  <2>. QED
    BY <2>1, <2>2
<1>2. \/ call' = call
      \/ /\ call # NoCall
         /\ <<call.action, call.phase>> = op
         /\ \E answer \in {"applied", "error"} :
              /\ call' = [call EXCEPT !.reply = answer]
              /\ answer = "applied" => op \in receipts'
  BY DEF LabPost, LabGet, Reply, labVars
<1>3. IntentBeforePost' /\ WireWasPosted'
  BY <1>1 DEF IInv, IntentBeforePost, WireWasPosted, Has
<1>4. CallIsOpen'
  <2>1. CASE call' = call
    BY <1>1, <2>1
    DEF IInv, CallIsOpen, InLab, Proposed, Proposal, Has
  <2>2. CASE call' # call
    <3>1. call \in Calls
      BY <1>2, <2>2 DEF IInv, TypeOK, ExecTypeOK
    <3>2. /\ call # NoCall
          /\ call'.action = call.action /\ call'.phase = call.phase
          /\ call'.reply \in {"applied", "error"}
          /\ call'.reply = "applied" =>
               <<call.action, call.phase>> \in receipts'
      BY <1>2, <2>2, <3>1 DEF Calls
    <3>. QED
      BY <1>1, <3>2 DEF IInv, CallIsOpen, InLab, Proposed, Proposal, Has
  <2>. QED
    BY <2>1, <2>2
<1>. QED
  BY <1>1, <1>3, <1>4, QuietStep
(* The steps that append a record e to the history of a.  What they leave  *)
(* to show is that e extends the history lawfully and, where the handler   *)
(* goes on to call the laboratory, that the call is open.                  *)
LEMMA RecordStep ==
  ASSUME IInv, TypeOK', UNCHANGED <<labVars, inflight, posts>>,
         NEW a \in Actions, NEW e \in Records, Record(a, e),
         Proposed(a),
         IntentsApproved',
         CallIsOpen',
         (* an outcome of a laboratory action has its receipt              *)
         e.status \notin {"pending_approval", "execution_rejected"},
         InLab(a) => \A phase \in Phases :
           e.status = Done[phase] => <<a, phase>> \in receipts,
         (* the order of records in one history                            *)
         ~Has(a, {"rolled_back"}),
         Has(a, {"executed"}) =>
           e.status \in {"rollback_dispatched", "rollback_unknown",
                        "rolled_back"},
         Has(a, {"rollback_dispatched"}) =>
           e.status \in {"rollback_unknown", "rolled_back"},
         e.status = "execution_unknown" => Has(a, {"execution_dispatched"}),
         e.status = "rollback_unknown" => Has(a, {"rollback_dispatched"}),
         e.status \in {"rollback_dispatched", "rolled_back"} =>
           Has(a, {"executed"})
  PROVE  IInv'
<1>1. /\ history \in [Actions -> Seq(Records)]
      /\ account' = account /\ receipts' = receipts
      /\ inflight' = inflight /\ posts' = posts
  BY DEF IInv, TypeOK, ExecTypeOK, labVars
<1>2. \A b \in Actions :
        /\ Proposed(b)' <=> Proposed(b)
        /\ Proposed(b) => Proposal(b)' = Proposal(b)
        /\ LastStatus(b)' = IF b = a THEN e.status ELSE LastStatus(b)
  BY <1>1, ProposalAfterRecord
<1>3. \A b \in Actions : \A S :
        Has(b, S)' <=> Has(b, S) \/ (b = a /\ e.status \in S)
  BY <1>1, HasAfterRecord
<1>4. Lab!OwnerHoldsAccount'
  BY <1>1 DEF IInv, Lab!OwnerHoldsAccount
<1>5. ProposalFirst'
  BY <1>2 DEF IInv, ProposalFirst
<1>6. IntentBeforePost'
  BY <1>1, <1>3 DEF IInv, IntentBeforePost
<1>7. WireWasPosted'
  BY <1>1 DEF IInv, WireWasPosted
<1>8. OutcomesHaveReceipts'
  BY <1>1, <1>2, <1>3 DEF IInv, OutcomesHaveReceipts, InLab
<1>9. LastTells'
  <2>. SUFFICES ASSUME NEW b \in Actions
       PROVE
         /\ ~Has(b, {"execution_rejected"})'
         /\ \A phase \in Phases :
              Has(b, {Unknown[phase]})' => Has(b, {Dispatched[phase]})'
         /\ Has(b, {"rolled_back"})' =>
              Has(b, {"executed"})' /\ LastStatus(b)' = "rolled_back"
         /\ Has(b, {"executed"})' =>
              LastStatus(b)' \in {"executed", "rollback_dispatched",
                                  "rollback_unknown", "rolled_back"}
         /\ Has(b, {"rollback_dispatched"})' =>
              /\ Has(b, {"executed"})'
              /\ LastStatus(b)' \in {"rollback_dispatched",
                                    "rollback_unknown", "rolled_back"}
              /\ ~Active(b)'
    BY DEF LastTells
  <2>1. CASE b # a
    <3>1. history'[b] = history[b]
      BY <1>1, <2>1, RecordAppends
    <3>2. \A S : Has(b, S)' <=> Has(b, S)
      BY <1>3, <2>1
    <3>3. LastStatus(b)' = LastStatus(b) /\ (Active(b)' <=> Active(b))
      BY <1>2, <2>1, <3>1 DEF Active
    <3>. QED
      BY <3>2, <3>3 DEF IInv, LastTells
  <2>2. CASE b = a
    <3>1. \A S : Has(a, S)' <=> Has(a, S) \/ e.status \in S
      BY <1>3
    <3>2. LastStatus(a)' = e.status
      BY <1>2
    <3>3. ~Has(a, {"execution_rejected"})'
      BY <3>1 DEF IInv, LastTells
    <3>4. ASSUME NEW phase \in Phases, Has(a, {Unknown[phase]})'
          PROVE  Has(a, {Dispatched[phase]})'
      <4>1. CASE Has(a, {Unknown[phase]})
        BY <3>1, <4>1 DEF IInv, LastTells
      <4>2. CASE e.status = Unknown[phase]
        <5>1. phase = "execution" => Has(a, {"execution_dispatched"})
          BY <4>2 DEF Unknown
        <5>2. phase = "rollback" => Has(a, {"rollback_dispatched"})
          BY <4>2 DEF Unknown
        <5>3. Has(a, {Dispatched[phase]})
          BY <5>1, <5>2 DEF Dispatched, Phases
        <5>. QED
          BY <3>1, <5>3
      <4>. QED
        BY <3>1, <3>4, <4>1, <4>2
    <3>5. Has(a, {"rolled_back"})' =>
            Has(a, {"executed"})' /\ LastStatus(a)' = "rolled_back"
      BY <3>1, <3>2
    <3>6. Has(a, {"executed"})' =>
            LastStatus(a)' \in {"executed", "rollback_dispatched",
                                "rollback_unknown", "rolled_back"}
      BY <3>1, <3>2
    <3>7. ASSUME Has(a, {"rollback_dispatched"})'
          PROVE  /\ Has(a, {"executed"})'
                 /\ LastStatus(a)' \in {"rollback_dispatched",
                                       "rollback_unknown", "rolled_back"}
                 /\ ~Active(a)'
      <4>1. e.status \in {"rollback_dispatched", "rollback_unknown",
                         "rolled_back"}
        BY <3>1, <3>7
      <4>2. Has(a, {"executed"})
        BY <3>1, <3>7 DEF IInv, LastTells
      <4>3. ~Active(a)'
        BY <1>1, <4>1, ActiveAfterRecord
      <4>. QED
        BY <3>1, <3>2, <4>1, <4>2, <4>3
    <3>. QED
      BY <2>2, <3>3, <3>4, <3>5, <3>6, <3>7
  <2>. QED
    BY <2>1, <2>2
<1>. QED
  BY <1>4, <1>5, <1>6, <1>7, <1>8, <1>9 DEF IInv
(* A proposal opens a history.                                             *)
LEMMA ProposeKeeps ==
  ASSUME IInv, TypeOK', NEW a \in Actions, NEW key \in Keys,
         NEW kind \in Kinds, Propose(a, key, kind, LabEnv), UNCHANGED labVars
  PROVE  IInv'
<1>. DEFINE e == [status |-> "pending_approval", key |-> key, kind |-> kind,
                  mode |-> config.mode, url |-> config.url,
                  env |-> IF config.mode \in LabModes THEN LabEnv ELSE 0]
<1>1. /\ history \in [Actions -> Seq(Records)]
      /\ account' = account /\ receipts' = receipts
      /\ inflight' = inflight /\ posts' = posts /\ call' = call
      /\ call = NoCall
      /\ Record(a, e) /\ ~Proposed(a)
      /\ config \in Configs
  BY DEF IInv, TypeOK, ExecTypeOK, labVars, Propose, Ready
<1>2. e \in Proposals /\ e.mode \in {"simulation", "lab"}
  BY <1>1, ConfigsAssumption, ModesAssumption DEF Proposals, LabEnv
<1>3. e \in Records
  BY <1>2 DEF Records
<1>. HIDE DEF e
<1>4. \A b \in Actions :
        /\ Proposed(b)' <=> Proposed(b) \/ b = a
        /\ Proposed(b) => Proposal(b)' = Proposal(b)
        /\ Proposal(a)' = e
  BY <1>1, <1>3, ProposalAfterRecord
<1>5. e.status = "pending_approval"
  BY DEF e
<1>6. \A b \in Actions : \A S : "pending_approval" \notin S =>
        (Has(b, S)' <=> Has(b, S))
  BY <1>1, <1>3, <1>5, HasAfterRecord
<1>7. \A S : ~Has(a, S)
  BY <1>1 DEF Has, Proposed
<1>8. \A b \in Actions : b # a => history'[b] = history[b]
  BY <1>1, <1>3, RecordAppends
<1>9. ProposalFirst'
  BY <1>2, <1>4 DEF IInv, ProposalFirst
<1>11. IntentsApproved'
  BY <1>1, <1>3, <1>5, IntentsAfterRecord DEF IInv
<1>12. LastTells'
  <2>. SUFFICES ASSUME NEW b \in Actions
       PROVE
         /\ ~Has(b, {"execution_rejected"})'
         /\ \A phase \in Phases :
              Has(b, {Unknown[phase]})' => Has(b, {Dispatched[phase]})'
         /\ Has(b, {"rolled_back"})' =>
              Has(b, {"executed"})' /\ LastStatus(b)' = "rolled_back"
         /\ Has(b, {"executed"})' =>
              LastStatus(b)' \in {"executed", "rollback_dispatched",
                                  "rollback_unknown", "rolled_back"}
         /\ Has(b, {"rollback_dispatched"})' =>
              /\ Has(b, {"executed"})'
              /\ LastStatus(b)' \in {"rollback_dispatched",
                                    "rollback_unknown", "rolled_back"}
              /\ ~Active(b)'
    BY DEF LastTells
  <2>1. CASE b # a
    BY <1>8, <2>1 DEF IInv, LastTells, Has, LastStatus, Active
  <2>2. CASE b = a
    <3>1. \A phase \in Phases : ~Has(a, {Unknown[phase]})'
      BY <1>6, <1>7 DEF Unknown, Phases
    <3>. QED
      BY <1>6, <1>7, <2>2, <3>1
  <2>. QED
    BY <2>1, <2>2
<1>13. IntentBeforePost'
  <2>1. \A b \in Actions, phase \in Phases :
          Has(b, {Dispatched[phase]}) => Has(b, {Dispatched[phase]})'
    BY <1>6 DEF Dispatched, Phases
  <2>. QED
    BY <1>1, <2>1 DEF IInv, IntentBeforePost
<1>14. WireWasPosted' /\ CallIsOpen' /\ Lab!OwnerHoldsAccount'
  BY <1>1 DEF IInv, WireWasPosted, CallIsOpen, Lab!OwnerHoldsAccount
<1>15. OutcomesHaveReceipts'
  <2>1. \A b \in Actions, phase \in Phases :
          Has(b, {Done[phase]})' => Has(b, {Done[phase]})
    BY <1>6 DEF Done, Phases
  <2>2. \A b \in Actions : b # a => (InLab(b)' <=> InLab(b))
    BY <1>4 DEF InLab
  <2>. QED
    BY <1>1, <1>7, <2>1, <2>2 DEF IInv, OutcomesHaveReceipts
<1>. QED
  BY <1>9, <1>11, <1>12, <1>13, <1>14, <1>15 DEF IInv

(* An approval reopens nothing.                                            *)
LEMMA ApproveKeeps ==
  ASSUME IInv, TypeOK', NEW a \in Actions, NEW m \in Minutes,
         Approve(a, m), UNCHANGED labVars
  PROVE  IInv'
<1>. DEFINE e == [status |-> "approved", cites |-> 1, expires |-> now + m]
<1>1. e \in Records
  BY TimeAssumption DEF Records, Approvals, IInv, TypeOK, ExecTypeOK
<1>2. /\ Record(a, e) /\ Proposed(a) /\ call' = NoCall
      /\ ~Has(a, {"execution_dispatched", "executed", "rolled_back"})
      /\ UNCHANGED <<labVars, inflight, posts>>
  BY DEF Approve, Ready, labVars
<1>3. ~Has(a, {"executed"}) /\ ~Has(a, {"rolled_back"})
  BY <1>2 DEF Has
<1>4. ~Has(a, {"rollback_dispatched"})
  BY <1>3 DEF IInv, LastTells
<1>5. e.status = "approved"
  OBVIOUS
<1>. HIDE DEF e
<1>6. IntentsApproved' /\ CallIsOpen'
  <2>1. history \in [Actions -> Seq(Records)] /\ IntentsApproved
    BY DEF IInv, TypeOK, ExecTypeOK
  <2>. QED
    BY <1>1, <1>2, <1>5, <2>1, IntentsAfterRecord DEF CallIsOpen
<1>7. \A phase \in Phases : e.status # Done[phase]
  BY <1>5 DEF Done, Phases
<1>. QED
  BY <1>1, <1>2, <1>3, <1>4, <1>5, <1>6, <1>7, RecordStep
(* A handler that dispatches opens a call on what it has just recorded.    *)
LEMMA DispatchExecutionKeeps ==
  ASSUME IInv, TypeOK', NEW a \in Actions, NEW i \in DOMAIN history[a],
         Proposed(a), config.mode \in LabModes,
         ~Has(a, {"rolled_back"}), ~Has(a, {"rollback_dispatched"}),
         ~Has(a, {"executed"}), ~Has(a, {"execution_dispatched"}),
         Authorises(a, i),
         Dispatch(a, "execution", i), UNCHANGED labVars
  PROVE  IInv'
<1>. DEFINE e == [status |-> "execution_dispatched", cites |-> i, at |-> now]
<1>1. history \in [Actions -> Seq(Records)] /\ now \in Nat
  BY DEF IInv, TypeOK, ExecTypeOK
<1>2. i \in Nat
  BY <1>1
<1>3. e \in Records
  BY <1>1, <1>2 DEF Records, Decisions
<1>4. /\ Record(a, e)
      /\ call' = [verb |-> "POST", action |-> a, phase |-> "execution",
                  reply |-> "unsent"]
      /\ UNCHANGED <<labVars, inflight, posts>>
  BY DEF Dispatch, Dispatched, labVars
<1>5. e.status = "execution_dispatched" /\ e.cites = i /\ e.at = now
  OBVIOUS
<1>. HIDE DEF e
<1>6. IntentsApproved'
  <2>1. /\ history[a][i].status = "approved"
        /\ history[a][i].cites = 1
        /\ e.at <= history[a][i].expires
    BY <1>5 DEF Authorises, IsLatest
  <2>2. IntentsApproved
    BY DEF IInv
  <2>. QED
    BY <1>1, <1>3, <1>4, <1>5, <2>1, <2>2, IntentsAfterRecord
<1>7. CallIsOpen'
  <2>1. /\ InLab(a)'
        /\ \A S : Has(a, S)' <=> Has(a, S) \/ e.status \in S
    <3>1. InLab(a)
      BY DEF IInv, ProposalFirst, Dispatch, Bound, InLab, LabModes
    <3>. QED
      BY <1>1, <1>3, <1>4, <3>1, ProposalAfterRecord, HasAfterRecord
      DEF InLab
  <2>2. /\ Has(a, {"execution_dispatched"})'
        /\ ~Has(a, {"rolled_back"})'
        /\ ~Has(a, {"executed", "rollback_dispatched"})'
    <3>1. ~Has(a, {"executed", "rollback_dispatched"})
      BY DEF Has
    <3>. QED
      BY <1>5, <2>1, <3>1
  <2>3. posts[<<a, "execution">>] = 0
    BY DEF IInv, IntentBeforePost, Dispatched, Phases
  <2>. QED
    BY <1>4, <2>1, <2>2, <2>3 DEF CallIsOpen, Dispatched
<1>8. \A phase \in Phases : e.status # Done[phase]
  BY <1>5 DEF Done, Phases
<1>. QED
  BY <1>3, <1>4, <1>5, <1>6, <1>7, <1>8, RecordStep

(* A rollback is dispatched once, after a recorded execution.              *)
LEMMA DispatchRollbackKeeps ==
  ASSUME IInv, TypeOK', NEW a \in Actions, NEW i \in DOMAIN history[a],
         Proposed(a), config.mode = "lab",
         ~Has(a, {"rolled_back"}), ~Has(a, {"rollback_dispatched"}),
         Has(a, {"executed"}),
         Dispatch(a, "rollback", i), UNCHANGED labVars
  PROVE  IInv'
<1>. DEFINE e == [status |-> "rollback_dispatched", cites |-> i, at |-> now]
<1>1. history \in [Actions -> Seq(Records)] /\ now \in Nat
  BY DEF IInv, TypeOK, ExecTypeOK
<1>2. i \in Nat
  BY <1>1
<1>3. e \in Records
  BY <1>1, <1>2 DEF Records, Decisions
<1>4. /\ Record(a, e)
      /\ call' = [verb |-> "POST", action |-> a, phase |-> "rollback",
                  reply |-> "unsent"]
      /\ UNCHANGED <<labVars, inflight, posts>>
  BY DEF Dispatch, Dispatched, labVars
<1>5. e.status = "rollback_dispatched"
  OBVIOUS
<1>. HIDE DEF e
<1>6. IntentsApproved'
  <2>1. IntentsApproved
    BY DEF IInv
  <2>. QED
    BY <1>1, <1>3, <1>4, <1>5, <2>1, IntentsAfterRecord
<1>7. CallIsOpen'
  <2>1. /\ InLab(a)'
        /\ \A S : Has(a, S)' <=> Has(a, S) \/ e.status \in S
    <3>1. InLab(a)
      BY DEF Dispatch, Bound, InLab
    <3>. QED
      BY <1>1, <1>3, <1>4, <3>1, ProposalAfterRecord, HasAfterRecord
      DEF InLab
  <2>2. Has(a, {"rollback_dispatched"})' /\ ~Has(a, {"rolled_back"})'
    BY <1>5, <2>1
  <2>3. posts[<<a, "rollback">>] = 0
    BY DEF IInv, IntentBeforePost, Dispatched, Phases
  <2>. QED
    BY <1>4, <2>1, <2>2, <2>3 DEF CallIsOpen, Dispatched
<1>8. \A phase \in Phases : e.status # Done[phase]
  BY <1>5 DEF Done, Phases
<1>. QED
  BY <1>3, <1>4, <1>5, <1>6, <1>7, <1>8, RecordStep

(* Simulated executions and rollbacks have no effect to account for.       *)
LEMMA SimulatedKeeps ==
  ASSUME IInv, TypeOK', NEW a \in Actions, NEW i \in DOMAIN history[a],
         NEW status \in {"executed", "rolled_back"},
         Proposed(a), Proposal(a).mode = config.mode, config.mode # "lab",
         call = NoCall,
         ~Has(a, {"rolled_back"}),
         status = "executed" =>
           ~Has(a, {"executed"}) /\ ~Has(a, {"rollback_dispatched"}),
         status = "rolled_back" => Has(a, {"executed"}),
         Record(a, [status |-> status, cites |-> i, at |-> now]),
         UNCHANGED <<auditValid, config, now, call, inflight, posts>>,
         UNCHANGED labVars
  PROVE  IInv'
<1>. DEFINE e == [status |-> status, cites |-> i, at |-> now]
<1>1. history \in [Actions -> Seq(Records)] /\ now \in Nat
  BY DEF IInv, TypeOK, ExecTypeOK
<1>2. i \in Nat
  BY <1>1
<1>3. e \in Records
  BY <1>1, <1>2 DEF Records, Decisions
<1>4. /\ Record(a, e) /\ ~InLab(a) /\ call' = NoCall
      /\ UNCHANGED <<labVars, inflight, posts>>
  BY DEF InLab, labVars
<1>5. e.status = status
  OBVIOUS
<1>. HIDE DEF e
<1>6. IntentsApproved' /\ CallIsOpen'
  <2>1. IntentsApproved
    BY DEF IInv
  <2>. QED
    BY <1>1, <1>3, <1>4, <1>5, <2>1, IntentsAfterRecord DEF CallIsOpen
<1>. QED
  BY <1>3, <1>4, <1>5, <1>6, RecordStep

(* Executing keeps the invariant in each of its three ways.                *)
LEMMA ExecuteKeeps ==
  ASSUME IInv, TypeOK', NEW a \in Actions, Execute(a), UNCHANGED labVars
  PROVE  IInv'
<1>1. /\ ~Has(a, {"rolled_back"}) /\ ~Has(a, {"rollback_dispatched"})
      /\ ~Has(a, {"executed"}) /\ Proposed(a) /\ call = NoCall
      /\ Proposal(a).mode = config.mode
  BY DEF Execute, Has, Ready
<1>2. CASE Reconcile(a)
  BY <1>2, ReconcileKeeps
<1>3. ASSUME ~Has(a, {"execution_dispatched"}),
             NEW i \in DOMAIN history[a], Authorises(a, i),
             config.mode \in LabModes, Dispatch(a, "execution", i)
      PROVE  IInv'
  BY <1>1, <1>3, DispatchExecutionKeeps
<1>4. ASSUME NEW i \in DOMAIN history[a], config.mode = "simulation",
             Record(a, [status |-> "executed", cites |-> i, at |-> now]),
             UNCHANGED <<auditValid, config, now, call, inflight, posts>>
      PROVE  IInv'
  BY <1>1, <1>4, SimulatedKeeps
<1>. QED
  BY <1>2, <1>3, <1>4 DEF Execute

(* So does rolling back.                                                   *)
LEMMA RollbackKeeps ==
  ASSUME IInv, TypeOK', NEW a \in Actions, Rollback(a), UNCHANGED labVars
  PROVE  IInv'
<1>1. /\ ~Has(a, {"rolled_back"}) /\ call = NoCall
      /\ Has(a, {"executed"}) /\ Proposed(a)
      /\ Proposal(a).mode = config.mode
  <2>1. PICK i \in DOMAIN history[a] : IsLatest(a, "executed", i)
    BY DEF Rollback
  <2>2. Has(a, {"executed"})
    BY <2>1 DEF Has, IsLatest
  <2>3. Proposed(a)
    <3>1. DOMAIN <<>> = {}
      OBVIOUS
    <3>. QED
      BY <2>1, <3>1 DEF Proposed
  <2>. QED
    BY <2>2, <2>3 DEF Rollback, Ready
<1>2. CASE Reconcile(a)
  BY <1>2, ReconcileKeeps
<1>3. ASSUME ~Has(a, {"rollback_dispatched"}), config.mode = "lab",
             NEW i \in DOMAIN history[a], Dispatch(a, "rollback", i)
      PROVE  IInv'
  BY <1>1, <1>3, DispatchRollbackKeeps
<1>4. ASSUME NEW i \in DOMAIN history[a], config.mode # "lab",
             Record(a, [status |-> "rolled_back", cites |-> i, at |-> now]),
             UNCHANGED <<auditValid, config, now, call, inflight, posts>>
      PROVE  IInv'
  BY <1>1, <1>4, SimulatedKeeps
<1>. QED
  BY <1>2, <1>3, <1>4 DEF Rollback
(* A receipt becomes the outcome it stands for.                            *)
LEMMA FinishKeeps ==
  ASSUME IInv, TypeOK', Finish, UNCHANGED labVars
  PROVE  IInv'
<1>. DEFINE a == call.action
            e == [status |-> IF call.reply = "rejected"
                               THEN "execution_rejected"
                               ELSE Done[call.phase]]
<1>1. /\ history \in [Actions -> Seq(Records)]
      /\ call # NoCall /\ call \in Calls
      /\ a \in Actions /\ call.phase \in Phases
  BY DEF IInv, TypeOK, ExecTypeOK, Finish, Calls
<1>2. /\ InLab(a)
      /\ Has(a, {Dispatched[call.phase]})
      /\ ~Has(a, {"rolled_back"})
      /\ call.phase = "execution" => ~Has(a, {"executed", "rollback_dispatched"})
      /\ call.reply = "applied"
      /\ <<a, call.phase>> \in receipts
  BY <1>1 DEF IInv, CallIsOpen, Finish, ValidReceipt
<1>3. e.status = Done[call.phase]
  BY <1>2
<1>4. e \in Records
  BY <1>1, <1>2 DEF Records, Outcomes, Done, Phases
<1>5. Record(a, e) /\ call' = NoCall /\ UNCHANGED <<labVars, inflight, posts>>
  BY DEF Finish, labVars
<1>. HIDE DEF e, a
<1>6. /\ e.status \in {"executed", "rolled_back"}
      /\ call.phase = "execution" <=> e.status = "executed"
  BY <1>1, <1>3 DEF Done, Phases
<1>7. IntentsApproved' /\ CallIsOpen'
  <2>1. IntentsApproved
    BY DEF IInv
  <2>. QED
    BY <1>1, <1>4, <1>5, <1>6, <2>1, IntentsAfterRecord DEF CallIsOpen
<1>8. \A phase \in Phases : e.status = Done[phase] => <<a, phase>> \in receipts
  BY <1>1, <1>2, <1>3 DEF Done, Phases
<1>9. call.phase = "execution" =>
        ~Has(a, {"executed"}) /\ ~Has(a, {"rollback_dispatched"})
  BY <1>2 DEF Has
<1>10. call.phase = "rollback" => Has(a, {"executed"})
  <2>1. call.phase = "rollback" => Has(a, {"rollback_dispatched"})
    BY <1>2 DEF Dispatched
  <2>. QED
    BY <1>1, <2>1 DEF IInv, LastTells
<1>11. Proposed(a)
  BY <1>2 DEF InLab
<1>. QED
  BY <1>1, <1>2, <1>4, <1>5, <1>6, <1>7, <1>8, <1>9, <1>10, <1>11, RecordStep
  DEF Phases

(* A call without a receipt reports nothing.                               *)
LEMMA NoReceiptKeeps ==
  ASSUME IInv, TypeOK', NoReceipt, UNCHANGED labVars
  PROVE  IInv'
<1>. DEFINE a == call.action
            e == [status |-> Unknown[call.phase]]
<1>1. /\ history \in [Actions -> Seq(Records)]
      /\ call # NoCall /\ call \in Calls
      /\ a \in Actions /\ call.phase \in Phases
      /\ call' = NoCall /\ UNCHANGED <<labVars, inflight, posts>>
  BY DEF IInv, TypeOK, ExecTypeOK, NoReceipt, Calls, labVars
<1>2. /\ InLab(a)
      /\ Has(a, {Dispatched[call.phase]})
      /\ ~Has(a, {"rolled_back"})
      /\ call.phase = "execution" => ~Has(a, {"executed", "rollback_dispatched"})
  BY <1>1 DEF IInv, CallIsOpen
<1>3. CASE history' = history
  <2>1. /\ Lab!OwnerHoldsAccount' /\ IntentBeforePost' /\ WireWasPosted'
        /\ CallIsOpen' /\ receipts' = receipts
    BY <1>1, <1>3 DEF IInv, Lab!OwnerHoldsAccount, IntentBeforePost,
       WireWasPosted, CallIsOpen, Has, labVars
  <2>. QED
    BY <1>3, <2>1, QuietStep
<1>4. CASE Record(a, e)
  <2>1. e.status = Unknown[call.phase]
    OBVIOUS
  <2>2. e \in Records
    BY <1>1 DEF Records, Outcomes, Unknown, Phases
  <2>. HIDE DEF e, a
  <2>3. /\ e.status \in {"execution_unknown", "rollback_unknown"}
        /\ call.phase = "execution" <=> e.status = "execution_unknown"
    BY <1>1, <2>1 DEF Unknown, Phases
  <2>4. IntentsApproved' /\ CallIsOpen'
    <3>1. IntentsApproved
      BY DEF IInv
    <3>. QED
      BY <1>1, <1>4, <2>2, <2>3, <3>1, IntentsAfterRecord DEF CallIsOpen
  <2>5. \A phase \in Phases : e.status # Done[phase]
    BY <2>3 DEF Done, Phases
  <2>6. call.phase = "execution" =>
          /\ ~Has(a, {"executed"}) /\ ~Has(a, {"rollback_dispatched"})
          /\ Has(a, {"execution_dispatched"})
    BY <1>2 DEF Has, Dispatched
  <2>7. call.phase = "rollback" => Has(a, {"rollback_dispatched"})
    BY <1>2 DEF Dispatched
  <2>8. Proposed(a)
    BY <1>2 DEF InLab
  <2>. QED
    BY <1>1, <1>2, <1>4, <2>2, <2>3, <2>4, <2>5, <2>6, <2>7, <2>8, RecordStep
    DEF Phases
<1>. QED
  BY <1>3, <1>4 DEF NoReceipt

-----------------------------------------------------------------------------
(* The theorems.                                                           *)

(* Every step keeps the types.                                             *)
LEMMA TypesKeep == TypeOK /\ Lab!OwnerHoldsAccount /\ [Next]_vars => TypeOK'
<1>. SUFFICES ASSUME TypeOK, Lab!OwnerHoldsAccount, [Next]_vars PROVE TypeOK'
  OBVIOUS
<1>1. CASE ExecutorStep(LabEnv) /\ UNCHANGED labVars
  BY <1>1, ExecutorTypes DEF TypeOK, labVars, Lab!LabTypeOK, LabEnv
<1>2. ASSUME NEW op \in Ops, LabPost(op) PROVE TypeOK'
  <2>1. Lab!LabTypeOK'
    BY <1>2, LabKeepsOwner DEF LabPost, TypeOK
  <2>2. call' \in Calls \cup {NoCall}
    BY <1>2 DEF LabPost, Reply, TypeOK, ExecTypeOK, Calls
  <2>. QED
    BY <1>2, <2>1, <2>2 DEF LabPost, TypeOK, ExecTypeOK
<1>3. ASSUME NEW op \in Ops, LabGet(op) PROVE TypeOK'
  <2>1. call' \in Calls \cup {NoCall}
    BY <1>3 DEF LabGet, Reply, TypeOK, ExecTypeOK, Calls
  <2>. QED
    BY <1>3, <2>1
    DEF LabGet, TypeOK, ExecTypeOK, Lab!LabTypeOK, labVars
<1>4. CASE UNCHANGED vars
  BY <1>4 DEF vars, TypeOK, ExecTypeOK, Lab!LabTypeOK
<1>. QED
  BY <1>1, <1>2, <1>3, <1>4 DEF Next, LabStep

(* Every step keeps the invariant.                                         *)
LEMMA NextIInv == IInv /\ [Next]_vars => IInv'
<1>. SUFFICES ASSUME IInv, [Next]_vars PROVE IInv'
  OBVIOUS
<1>1. TypeOK'
  BY TypesKeep DEF IInv
<1>2. CASE ExecutorStep(LabEnv) /\ UNCHANGED labVars
  BY <1>1, <1>2, ProposeKeeps, ApproveKeeps, ExecuteKeeps, RollbackKeeps,
     ReconcileKeeps, SendPostKeeps, FinishKeeps, NoReceiptKeeps, ProcessKeeps,
     LosePostKeeps
  DEF ExecutorStep, HandlerStep
<1>3. CASE LabStep
  BY <1>1, <1>3, LabStepKeeps DEF LabStep
<1>4. CASE UNCHANGED vars
  <2>1. /\ history' = history /\ receipts' = receipts
        /\ Lab!OwnerHoldsAccount' /\ IntentBeforePost' /\ WireWasPosted'
        /\ CallIsOpen'
    BY <1>4 DEF vars, IInv, Lab!OwnerHoldsAccount, IntentBeforePost,
       WireWasPosted, CallIsOpen, InLab, Proposed, Proposal, Has
  <2>. QED
    BY <1>1, <2>1, QuietStep
<1>. QED
  BY <1>2, <1>3, <1>4 DEF Next

(* The invariant holds in every reachable state.                           *)
THEOREM InductiveInvariant == Spec => []IInv
  BY InitIInv, NextIInv, PTL DEF Spec

(* Every variable keeps its type, and the laboratory's account row stays   *)
(* in step with its receipts.                                              *)
THEOREM TypeCorrect == Spec => [](TypeOK /\ Lab!OwnerHoldsAccount)
<1>1. IInv => TypeOK /\ Lab!OwnerHoldsAccount
  BY DEF IInv
<1>. QED
  BY <1>1, InductiveInvariant, PTL

(* No operation is ever posted twice: recovery from lost answers, crashes  *)
(* and restarts is by reading receipts only.                               *)
THEOREM NeverReplayed == Spec => []PostedAtMostOnce
<1>1. IInv => PostedAtMostOnce
  <2>. SUFFICES ASSUME IInv, NEW op \in Ops
                PROVE  posts[op] <= 1
    BY DEF PostedAtMostOnce
  <2>1. PICK a \in Actions, phase \in Phases : op = <<a, phase>>
    BY DEF Ops
  <2>2. posts[<<a, phase>>] \in {0, 1}
    BY DEF IInv, IntentBeforePost
  <2>. QED
    BY <2>1, <2>2
<1>. QED
  BY <1>1, InductiveInvariant, PTL

(* Every request on the wire and every effect on the account was approved, *)
(* by an approval of that proposal that had not expired when the intent    *)
(* was recorded.                                                           *)
THEOREM EffectsApproved == Spec => []ApprovedBeforeEffect
<1>1. IInv => ApprovedBeforeEffect
  <2>. SUFFICES ASSUME IInv, NEW a \in Actions,
                       <<a, "execution">> \in receipts \cup inflight
                PROVE  \E d \in DOMAIN history[a] :
                         /\ history[a][d].status = "execution_dispatched"
                         /\ CitesApproval(a, d)
    BY DEF ApprovedBeforeEffect
  <2>1. posts[<<a, "execution">>] = 1
    BY DEF IInv, WireWasPosted
  <2>2. Has(a, {"execution_dispatched"})
    BY <2>1 DEF IInv, IntentBeforePost, Dispatched, Phases
  <2>. QED
    BY <2>2 DEF IInv, IntentsApproved, Has
<1>. QED
  BY <1>1, InductiveInvariant, PTL

(* An action the audit snapshot calls active holds the disabled account;   *)
(* in particular no two laboratory actions are ever active together.       *)
THEOREM ActiveInForce == Spec => []ActiveIsInForce
<1>1. IInv => ActiveIsInForce
  <2>. SUFFICES ASSUME IInv, NEW a \in Actions, InLab(a), Active(a)
                PROVE  ~account.enabled /\ account.owner = a
    BY DEF ActiveIsInForce
  <2>1. Has(a, {"executed"})
    BY DEF Active, Has
  <2>2. <<a, "execution">> \in receipts
    BY <2>1 DEF IInv, OutcomesHaveReceipts, Done, Phases
  <2>3. ~Has(a, {"rollback_dispatched"})
    BY DEF IInv, LastTells
  <2>4. <<a, "rollback">> \notin receipts
    BY <2>3 DEF IInv, WireWasPosted, IntentBeforePost, Dispatched, Phases
  <2>5. account.owner = a
    BY <2>2, <2>4 DEF IInv, Lab!OwnerHoldsAccount
  <2>. QED
    BY <2>5, NoOwnerAssumption
    DEF IInv, Lab!OwnerHoldsAccount, TypeOK, Lab!LabTypeOK
<1>. QED
  BY <1>1, InductiveInvariant, PTL

(* What the journal reports as done, the laboratory holds a receipt for.   *)
THEOREM ReportsAreTrue == Spec => []OutcomesHaveReceipts
<1>1. IInv => OutcomesHaveReceipts
  BY DEF IInv
<1>. QED
  BY <1>1, InductiveInvariant, PTL

(* One append is lawful for a closed action.                               *)
LEMMA LawfulAppend ==
  ASSUME IInv, NEW a \in Actions, NEW e \in Records, Record(a, e),
         ~Has(a, {"rolled_back"}),
         Has(a, {"executed"}) =>
           e.status \in {"rollback_dispatched", "rollback_unknown",
                        "rolled_back"}
  PROVE  ClosedStep
<1>1. history \in [Actions -> Seq(Records)]
  BY DEF IInv, TypeOK, ExecTypeOK
<1>2. \A b \in Actions : b # a => history'[b] = history[b]
  BY <1>1, RecordAppends
<1>3. LastStatus(a)' = e.status
  BY <1>1, ProposalAfterRecord
<1>4. ~Has(a, {"rolled_back", "execution_rejected"})
  <2>1. ~Has(a, {"execution_rejected"})
    BY DEF IInv, LastTells
  <2>. QED
    BY <2>1 DEF Has
<1>. QED
  BY <1>2, <1>3, <1>4 DEF ClosedStep

(* A closed action stays closed: no handler, retry, late answer or crash   *)
(* appends anything to a rolled back or rejected history, and an executed  *)
(* one is only ever followed by its rollback.                              *)
THEOREM ClosedForGood == Spec => ClosedStaysClosed
<1>1. ASSUME IInv, [Next]_vars PROVE [ClosedStep]_vars
  <2>. USE <1>1
  <2>1. history' = history => ClosedStep
    BY DEF ClosedStep
  <2>2. /\ history \in [Actions -> Seq(Records)]
        /\ now \in Nat /\ call \in Calls \cup {NoCall}
    BY DEF IInv, TypeOK, ExecTypeOK
  <2>3. ASSUME NEW a \in Actions, NEW key \in Keys, NEW kind \in Kinds,
               Propose(a, key, kind, LabEnv)
        PROVE  ClosedStep
    <3>. DEFINE e == [status |-> "pending_approval", key |-> key,
                      kind |-> kind, mode |-> config.mode,
                      url |-> config.url,
                      env |-> IF config.mode \in LabModes THEN LabEnv ELSE 0]
    <3>1. e \in Records
      BY ConfigsAssumption
      DEF Records, Proposals, LabEnv, IInv, TypeOK, ExecTypeOK
    <3>2. Record(a, e) /\ \A S : ~Has(a, S)
      BY <2>3 DEF Propose, Has, Proposed
    <3>. HIDE DEF e
    <3>. QED
      BY <3>1, <3>2, LawfulAppend
  <2>4. ASSUME NEW a \in Actions, NEW m \in Minutes, Approve(a, m)
        PROVE  ClosedStep
    <3>. DEFINE e == [status |-> "approved", cites |-> 1, expires |-> now + m]
    <3>1. e \in Records
      BY <2>2, TimeAssumption DEF Records, Approvals
    <3>2. Record(a, e) /\ ~Has(a, {"rolled_back"}) /\ ~Has(a, {"executed"})
      BY <2>4 DEF Approve, Has
    <3>. HIDE DEF e
    <3>. QED
      BY <3>1, <3>2, LawfulAppend
  <2>5. ASSUME NEW a \in Actions, NEW i \in DOMAIN history[a],
               NEW status \in {"execution_dispatched", "executed",
                               "rollback_dispatched", "rolled_back"},
               ~Has(a, {"rolled_back"}),
               Has(a, {"executed"}) =>
                 status \in {"rollback_dispatched", "rolled_back"},
               Record(a, [status |-> status, cites |-> i, at |-> now])
        PROVE  ClosedStep
    <3>. DEFINE e == [status |-> status, cites |-> i, at |-> now]
    <3>1. i \in Nat
      BY <2>2
    <3>2. e \in Records
      BY <2>2, <3>1 DEF Records, Decisions
    <3>3. Record(a, e) /\ e.status = status
      BY <2>5
    <3>. HIDE DEF e
    <3>. QED
      BY <2>5, <3>2, <3>3, LawfulAppend
  <2>6. ASSUME NEW a \in Actions, Reconcile(a) PROVE ClosedStep
    BY <2>1, <2>6 DEF Reconcile
  <2>7. ASSUME NEW a \in Actions, Execute(a) PROVE ClosedStep
    <3>1. ~Has(a, {"rolled_back"}) /\ ~Has(a, {"executed"})
      BY <2>7 DEF Execute, Has
    <3>. QED
      BY <2>5, <2>6, <2>7, <3>1 DEF Execute, Dispatch, Dispatched
  <2>8. ASSUME NEW a \in Actions, Rollback(a) PROVE ClosedStep
    BY <2>5, <2>6, <2>8 DEF Rollback, Dispatch, Dispatched
  <2>9. CASE Finish
    <3>. DEFINE e == [status |-> IF call.reply = "rejected"
                                   THEN "execution_rejected"
                                   ELSE Done[call.phase]]
    <3>1. /\ call # NoCall /\ call \in Calls /\ call.action \in Actions
          /\ call.phase \in Phases /\ Record(call.action, e)
      BY <2>2, <2>9 DEF Finish, Calls
    <3>2. /\ e \in Records
          /\ e.status = "rolled_back" \/ call.phase = "execution"
      BY <3>1 DEF Records, Outcomes, Done, Phases, IInv, CallIsOpen
    <3>3. /\ ~Has(call.action, {"rolled_back"})
          /\ call.phase = "execution" => ~Has(call.action, {"executed"})
      BY <3>1 DEF IInv, CallIsOpen, Has
    <3>. HIDE DEF e
    <3>. QED
      BY <3>1, <3>2, <3>3, LawfulAppend
  <2>10. CASE NoReceipt
    <3>. DEFINE e == [status |-> Unknown[call.phase]]
    <3>1. /\ call # NoCall /\ call \in Calls /\ call.action \in Actions
          /\ call.phase \in Phases
          /\ Record(call.action, e) \/ history' = history
      BY <2>2, <2>10 DEF NoReceipt, Calls
    <3>2. /\ e \in Records
          /\ e.status = "rollback_unknown" \/ call.phase = "execution"
      BY <3>1 DEF Records, Outcomes, Unknown, Phases
    <3>3. /\ ~Has(call.action, {"rolled_back"})
          /\ call.phase = "execution" => ~Has(call.action, {"executed"})
      BY <3>1 DEF IInv, CallIsOpen, Has
    <3>. HIDE DEF e
    <3>. QED
      BY <2>1, <3>1, <3>2, <3>3, LawfulAppend
  <2>11. CASE \/ SendPost \/ TornAppend \/ Tick
              \/ \E c \in Configs : Crash(c)
              \/ \E op \in Ops : LosePost(op)
    BY <2>1, <2>11 DEF SendPost, TornAppend, Tick, Crash, LosePost
  <2>12. CASE ExecutorStep(LabEnv)
    BY <2>3, <2>4, <2>6, <2>7, <2>8, <2>9, <2>10, <2>11, <2>12
    DEF ExecutorStep, HandlerStep
  <2>13. CASE LabStep
    BY <2>1, <2>13 DEF LabStep, LabPost, LabGet
  <2>. QED
    BY <2>12, <2>13 DEF Next
<1>. QED
  BY <1>1, InductiveInvariant, PTL DEF Spec, ClosedStaysClosed

-----------------------------------------------------------------------------
(* The executor, its wire and the identity laboratory implement            *)
(* ContainmentContract: every step of theirs is, under the mapping EffectOf*)
(* and ReportOf, one step of the contract or none.                         *)

(* Nobody's effect or report moves, except perhaps those of action a.      *)
OthersStay(a) ==
  \A b \in Actions : b # a => /\ EffectOf(b)' = EffectOf(b)
                              /\ ReportOf(b)' = ReportOf(b)

(* A step that moves no effect and no report is a stutter.                 *)
LEMMA NobodyMoves ==
  ASSUME \A b \in Actions : /\ EffectOf(b)' = EffectOf(b)
                            /\ ReportOf(b)' = ReportOf(b)
  PROVE  UNCHANGED Contract!cvars
BY DEF Contract!cvars

(* When one action alone moves, the functions change at that one point.    *)
LEMMA OneMoves ==
  ASSUME NEW a \in Actions, OthersStay(a)
  PROVE  /\ [b \in Actions |-> EffectOf(b)]' =
              [[b \in Actions |-> EffectOf(b)] EXCEPT ![a] = EffectOf(a)']
         /\ [b \in Actions |-> ReportOf(b)]' =
              [[b \in Actions |-> ReportOf(b)] EXCEPT ![a] = ReportOf(a)']
BY DEF OthersStay

(* Moving one action on is what the contract calls Advance.                *)
LEMMA AdvanceStep ==
  ASSUME NEW a \in Actions, OthersStay(a), NEW from, NEW to,
         EffectOf(a) = from, EffectOf(a)' = to, ReportOf(a)' = ReportOf(a)
  PROVE  /\ Contract!Advance(a, from, to)
         /\ [b \in Actions |-> ReportOf(b)]' = [b \in Actions |-> ReportOf(b)]
<1>1. Contract!Advance(a, from, to)
  BY OneMoves DEF Contract!Advance
<1>. QED
  BY <1>1 DEF OthersStay

(* A step that reports an outcome is a step of the contract.               *)
LEMMA ReportStep ==
  ASSUME NEW a \in Actions, OthersStay(a), EffectOf(a)' = EffectOf(a),
         \/ /\ EffectOf(a) = "in_force" /\ ReportOf(a) = "none"
            /\ ReportOf(a)' = "executed"
         \/ /\ EffectOf(a) = "undone" /\ ReportOf(a) = "executed"
            /\ ReportOf(a)' = "rolled_back"
  PROVE  Contract!Report(a)
<1>1. [b \in Actions |-> EffectOf(b)]' = [b \in Actions |-> EffectOf(b)]
  BY DEF OthersStay
<1>. QED
  BY <1>1, OneMoves DEF Contract!Report

-----------------------------------------------------------------------------
(* An append by a handler changes the state of its own action only.        *)
LEMMA AppendMovesOne ==
  ASSUME IInv, NEW a \in Actions, NEW e \in Records, Record(a, e),
         Proposed(a), UNCHANGED labVars
  PROVE  /\ OthersStay(a)
         /\ InLab(a)' <=> InLab(a)
         /\ \A S : Has(a, S)' <=> Has(a, S) \/ e.status \in S
         /\ receipts' = receipts
<1>1. history \in [Actions -> Seq(Records)] /\ receipts' = receipts
  BY DEF IInv, TypeOK, ExecTypeOK, labVars
<1>2. \A b \in Actions : b # a => history'[b] = history[b]
  BY <1>1, RecordAppends
<1>3. OthersStay(a)
  BY <1>1, <1>2 DEF OthersStay, EffectOf, ReportOf, InLab, Has, Proposed,
     Proposal
<1>4. InLab(a)' <=> InLab(a)
  BY <1>1, ProposalAfterRecord DEF InLab
<1>. QED
  BY <1>1, <1>3, <1>4, HasAfterRecord

(* What the journal and the receipts say together about an action.         *)
LEMMA EffectFacts ==
  ASSUME IInv, NEW a \in Actions, InLab(a)
  PROVE  /\ <<a, "execution">> \in receipts => Has(a, {"execution_dispatched"})
         /\ <<a, "rollback">> \in receipts =>
              /\ Has(a, {"rollback_dispatched"})
              /\ <<a, "execution">> \in receipts
         /\ Has(a, {"rollback_dispatched"}) => Has(a, {"executed"})
         /\ Has(a, {"executed"}) => <<a, "execution">> \in receipts
         /\ Has(a, {"rolled_back"}) => /\ Has(a, {"executed"})
                                       /\ <<a, "rollback">> \in receipts
<1>1. \A phase \in Phases :
        <<a, phase>> \in receipts => Has(a, {Dispatched[phase]})
  BY DEF IInv, WireWasPosted, IntentBeforePost
<1>2. \A phase \in Phases : Has(a, {Done[phase]}) => <<a, phase>> \in receipts
  BY DEF IInv, OutcomesHaveReceipts
<1>3. <<a, "rollback">> \in receipts => <<a, "execution">> \in receipts
  BY DEF IInv, Lab!OwnerHoldsAccount
<1>. QED
  BY <1>1, <1>2, <1>3 DEF IInv, LastTells, Dispatched, Done, Phases

(* A step that touches neither the journal nor the receipts is invisible.  *)
LEMMA InvisibleStep ==
  ASSUME history' = history, receipts' = receipts
  PROVE  UNCHANGED Contract!cvars
<1>1. \A b \in Actions : EffectOf(b)' = EffectOf(b) /\ ReportOf(b)' = ReportOf(b)
  BY DEF EffectOf, ReportOf, InLab, Has, Proposed, Proposal
<1>. QED
  BY <1>1, NobodyMoves

(* So is an append that is not about the account.                          *)
LEMMA InvisibleAppend ==
  ASSUME IInv, NEW a \in Actions, NEW e \in Records, Record(a, e),
         Proposed(a), UNCHANGED labVars,
         ~InLab(a) \/ e.status \in {"execution_unknown", "rollback_unknown"}
  PROVE  UNCHANGED Contract!cvars
<1>1. /\ OthersStay(a) /\ (InLab(a)' <=> InLab(a)) /\ receipts' = receipts
      /\ \A S : Has(a, S)' <=> Has(a, S) \/ e.status \in S
  BY AppendMovesOne
<1>2. CASE ~InLab(a)
  BY <1>1, <1>2, NobodyMoves DEF OthersStay, EffectOf, ReportOf
<1>3. CASE e.status \in {"execution_unknown", "rollback_unknown"}
  BY <1>1, <1>3, NobodyMoves DEF OthersStay, EffectOf, ReportOf
<1>. QED
  BY <1>2, <1>3

-----------------------------------------------------------------------------
(* A proposal is a stutter of the contract.                                *)
LEMMA ProposeMaps ==
  ASSUME IInv, NEW a \in Actions, NEW key \in Keys, NEW kind \in Kinds,
         Propose(a, key, kind, LabEnv), UNCHANGED labVars
  PROVE  UNCHANGED Contract!cvars
<1>. DEFINE e == [status |-> "pending_approval", key |-> key, kind |-> kind,
                  mode |-> config.mode, url |-> config.url,
                  env |-> IF config.mode \in LabModes THEN LabEnv ELSE 0]
<1>1. /\ history \in [Actions -> Seq(Records)] /\ receipts' = receipts
      /\ Record(a, e) /\ ~Proposed(a) /\ e.status = "pending_approval"
  BY DEF IInv, TypeOK, ExecTypeOK, Propose, labVars
<1>2. e \in Records
  BY ConfigsAssumption
  DEF Records, Proposals, LabEnv, IInv, TypeOK, ExecTypeOK
<1>. HIDE DEF e
<1>3. \A b \in Actions : b # a => history'[b] = history[b]
  BY <1>1, <1>2, RecordAppends
<1>4. OthersStay(a)
  BY <1>1, <1>3 DEF OthersStay, EffectOf, ReportOf, InLab, Has, Proposed,
     Proposal
<1>5. \A S : ~Has(a, S)
  BY <1>1 DEF Has, Proposed
<1>6. \A S : "pending_approval" \notin S => ~Has(a, S)'
  BY <1>1, <1>2, <1>5, HasAfterRecord
<1>7. \A phase \in Phases : <<a, phase>> \notin receipts
  BY <1>5 DEF IInv, WireWasPosted, IntentBeforePost
<1>8. EffectOf(a) = "none" /\ ReportOf(a) = "none"
  BY <1>1 DEF EffectOf, ReportOf, InLab
<1>9. EffectOf(a)' = "none" /\ ReportOf(a)' = "none"
  BY <1>1, <1>6, <1>7 DEF EffectOf, ReportOf, Phases
<1>. QED
  BY <1>4, <1>8, <1>9, NobodyMoves DEF OthersStay

(* An approval is the contract's, or a stutter where nothing is contained. *)
LEMMA ApproveMaps ==
  ASSUME IInv, NEW a \in Actions, NEW m \in Minutes, Approve(a, m),
         UNCHANGED labVars
  PROVE  Contract!Next \/ UNCHANGED Contract!cvars
<1>. DEFINE e == [status |-> "approved", cites |-> 1, expires |-> now + m]
<1>1. /\ Record(a, e) /\ e.status = "approved" /\ Proposed(a)
      /\ ~Has(a, {"execution_dispatched"})
      /\ ~Has(a, {"executed"}) /\ ~Has(a, {"rolled_back"})
  BY DEF Approve, Has
<1>2. e \in Records
  BY TimeAssumption DEF Records, Approvals, IInv, TypeOK, ExecTypeOK
<1>. HIDE DEF e
<1>3. /\ OthersStay(a) /\ (InLab(a)' <=> InLab(a)) /\ receipts' = receipts
      /\ \A S : Has(a, S)' <=> Has(a, S) \/ e.status \in S
  BY <1>1, <1>2, AppendMovesOne
<1>4. CASE ~InLab(a)
  BY <1>1, <1>2, <1>4, InvisibleAppend
<1>5. CASE InLab(a)
  <2>1. /\ <<a, "execution">> \notin receipts
        /\ <<a, "rollback">> \notin receipts
    BY <1>1, <1>5, EffectFacts
  <2>2. EffectOf(a)' = "approved" /\ ReportOf(a)' = ReportOf(a)
    BY <1>1, <1>3, <1>5, <2>1 DEF EffectOf, ReportOf
  <2>3. CASE Has(a, {"approved"})
    <3>1. EffectOf(a) = "approved"
      BY <1>1, <1>5, <2>1, <2>3 DEF EffectOf
    <3>. QED
      BY <1>3, <2>2, <3>1, NobodyMoves DEF OthersStay
  <2>4. CASE ~Has(a, {"approved"})
    <3>1. EffectOf(a) = "none"
      BY <1>1, <1>5, <2>1, <2>4 DEF EffectOf
    <3>2. Contract!Approve(a)
      BY <1>3, <2>2, <3>1, AdvanceStep DEF Contract!Approve
    <3>. QED
      BY <3>2 DEF Contract!Next
  <2>. QED
    BY <2>3, <2>4
<1>. QED
  BY <1>4, <1>5

(* The recorded intent to execute is the contract's authorisation.         *)
LEMMA DispatchExecutionMaps ==
  ASSUME IInv, NEW a \in Actions, NEW i \in DOMAIN history[a], Proposed(a),
         config.mode \in LabModes, ~Has(a, {"execution_dispatched"}),
         Authorises(a, i), Dispatch(a, "execution", i), UNCHANGED labVars
  PROVE  Contract!Next
<1>. DEFINE e == [status |-> "execution_dispatched", cites |-> i, at |-> now]
<1>1. /\ Record(a, e) /\ e.status = "execution_dispatched"
      /\ history \in [Actions -> Seq(Records)] /\ now \in Nat
  BY DEF Dispatch, Dispatched, IInv, TypeOK, ExecTypeOK
<1>2. e \in Records
  <2>1. i \in Nat
    BY <1>1
  <2>. QED
    BY <1>1, <2>1 DEF Records, Decisions
<1>3. InLab(a) /\ Has(a, {"approved"})
  BY DEF Authorises, IsLatest, Has, InLab, Dispatch, Bound, IInv,
     ProposalFirst, LabModes
<1>. HIDE DEF e
<1>4. /\ OthersStay(a) /\ (InLab(a)' <=> InLab(a)) /\ receipts' = receipts
      /\ \A S : Has(a, S)' <=> Has(a, S) \/ e.status \in S
  BY <1>1, <1>2, AppendMovesOne
<1>5. <<a, "execution">> \notin receipts /\ <<a, "rollback">> \notin receipts
  BY <1>3, EffectFacts
<1>6. /\ EffectOf(a) = "approved" /\ EffectOf(a)' = "authorised"
      /\ ReportOf(a)' = ReportOf(a)
  BY <1>1, <1>3, <1>4, <1>5 DEF EffectOf, ReportOf
<1>7. Contract!Authorise(a)
  BY <1>4, <1>6, AdvanceStep DEF Contract!Authorise
<1>. QED
  BY <1>7 DEF Contract!Next

(* The recorded intent to roll back is the contract's, for the holder.     *)
LEMMA DispatchRollbackMaps ==
  ASSUME IInv, NEW a \in Actions, NEW i \in DOMAIN history[a], Proposed(a),
         config.mode = "lab", ~Has(a, {"rollback_dispatched"}),
         Has(a, {"executed"}), ~Has(a, {"rolled_back"}),
         Dispatch(a, "rollback", i), UNCHANGED labVars
  PROVE  Contract!Next
<1>. DEFINE e == [status |-> "rollback_dispatched", cites |-> i, at |-> now]
<1>1. /\ Record(a, e) /\ e.status = "rollback_dispatched"
      /\ history \in [Actions -> Seq(Records)] /\ now \in Nat
  BY DEF Dispatch, Dispatched, IInv, TypeOK, ExecTypeOK
<1>2. e \in Records
  <2>1. i \in Nat
    BY <1>1
  <2>. QED
    BY <1>1, <2>1 DEF Records, Decisions
<1>3. InLab(a)
  BY DEF InLab, Dispatch, Bound
<1>. HIDE DEF e
<1>4. /\ OthersStay(a) /\ (InLab(a)' <=> InLab(a)) /\ receipts' = receipts
      /\ \A S : Has(a, S)' <=> Has(a, S) \/ e.status \in S
  BY <1>1, <1>2, AppendMovesOne
<1>5. <<a, "execution">> \in receipts /\ <<a, "rollback">> \notin receipts
  BY <1>3, EffectFacts
<1>6. /\ EffectOf(a) = "in_force" /\ EffectOf(a)' = "undoing"
      /\ ReportOf(a) = "executed" /\ ReportOf(a)' = "executed"
  BY <1>1, <1>3, <1>4, <1>5 DEF EffectOf, ReportOf
<1>7. Contract!AuthoriseUndo(a)
  BY <1>4, <1>6, AdvanceStep DEF Contract!AuthoriseUndo
<1>. QED
  BY <1>7 DEF Contract!Next

(* A simulated outcome is a stutter: no laboratory is involved.            *)
LEMMA SimulatedMaps ==
  ASSUME IInv, NEW a \in Actions, NEW i \in DOMAIN history[a],
         NEW status \in {"executed", "rolled_back"}, Proposed(a), ~InLab(a),
         Record(a, [status |-> status, cites |-> i, at |-> now]),
         UNCHANGED labVars
  PROVE  UNCHANGED Contract!cvars
<1>. DEFINE e == [status |-> status, cites |-> i, at |-> now]
<1>1. history \in [Actions -> Seq(Records)] /\ now \in Nat
  BY DEF IInv, TypeOK, ExecTypeOK
<1>2. i \in Nat
  BY <1>1
<1>3. e \in Records
  BY <1>1, <1>2 DEF Records, Decisions
<1>. QED
  BY <1>3, InvisibleAppend

(* Executing is an authorisation, or a stutter.                            *)
LEMMA ExecuteMaps ==
  ASSUME IInv, NEW a \in Actions, Execute(a), UNCHANGED labVars
  PROVE  Contract!Next \/ UNCHANGED Contract!cvars
<1>1. Proposed(a) /\ Proposal(a).mode = config.mode
  BY DEF Execute
<1>2. CASE Reconcile(a)
  BY <1>2, InvisibleStep DEF Reconcile, labVars
<1>3. ASSUME ~Has(a, {"execution_dispatched"}),
             NEW i \in DOMAIN history[a], Authorises(a, i),
             config.mode \in LabModes, Dispatch(a, "execution", i)
      PROVE  Contract!Next
  BY <1>1, <1>3, DispatchExecutionMaps
<1>4. ASSUME NEW i \in DOMAIN history[a], config.mode = "simulation",
             Record(a, [status |-> "executed", cites |-> i, at |-> now])
      PROVE  UNCHANGED Contract!cvars
  BY <1>1, <1>4, SimulatedMaps DEF InLab
<1>. QED
  BY <1>2, <1>3, <1>4 DEF Execute

(* So is rolling back.                                                     *)
LEMMA RollbackMaps ==
  ASSUME IInv, NEW a \in Actions, Rollback(a), UNCHANGED labVars
  PROVE  Contract!Next \/ UNCHANGED Contract!cvars
<1>1. /\ ~Has(a, {"rolled_back"}) /\ Has(a, {"executed"})
      /\ Proposed(a) /\ Proposal(a).mode = config.mode
  <2>1. PICK i \in DOMAIN history[a] : IsLatest(a, "executed", i)
    BY DEF Rollback
  <2>2. DOMAIN <<>> = {}
    OBVIOUS
  <2>. QED
    BY <2>1, <2>2 DEF Rollback, Has, IsLatest, Proposed
<1>2. CASE Reconcile(a)
  BY <1>2, InvisibleStep DEF Reconcile, labVars
<1>3. ASSUME ~Has(a, {"rollback_dispatched"}), config.mode = "lab",
             NEW i \in DOMAIN history[a], Dispatch(a, "rollback", i)
      PROVE  Contract!Next
  BY <1>1, <1>3, DispatchRollbackMaps
<1>4. ASSUME NEW i \in DOMAIN history[a], config.mode # "lab",
             Record(a, [status |-> "rolled_back", cites |-> i, at |-> now])
      PROVE  UNCHANGED Contract!cvars
  BY <1>1, <1>4, SimulatedMaps DEF InLab
<1>. QED
  BY <1>2, <1>3, <1>4 DEF Rollback

(* A valid receipt becomes the contract's report.                          *)
LEMMA FinishMaps ==
  ASSUME IInv, Finish, UNCHANGED labVars
  PROVE  Contract!Next
<1>0. PICK a \in Actions : call # NoCall /\ a = call.action
  BY DEF IInv, TypeOK, ExecTypeOK, Finish, Calls
<1>. DEFINE e == [status |-> IF call.reply = "rejected"
                               THEN "execution_rejected"
                               ELSE Done[call.phase]]
<1>1. call \in Calls /\ call.phase \in Phases /\ Record(a, e)
  BY <1>0 DEF IInv, TypeOK, ExecTypeOK, Finish, Calls
<1>2. /\ InLab(a) /\ Proposed(a) /\ Has(a, {Dispatched[call.phase]})
      /\ ~Has(a, {"rolled_back"})
      /\ call.phase = "execution" => /\ ~Has(a, {"executed"})
                                     /\ ~Has(a, {"rollback_dispatched"})
      /\ call.reply = "applied" /\ <<a, call.phase>> \in receipts
  BY <1>0, <1>1 DEF IInv, CallIsOpen, Finish, ValidReceipt, InLab, Has
<1>3. e.status = Done[call.phase]
  BY <1>2
<1>4. e \in Records
  BY <1>1, <1>2 DEF Records, Outcomes, Done, Phases
<1>. HIDE DEF e
<1>5. /\ OthersStay(a) /\ (InLab(a)' <=> InLab(a)) /\ receipts' = receipts
      /\ \A S : Has(a, S)' <=> Has(a, S) \/ e.status \in S
  BY <1>1, <1>2, <1>4, AppendMovesOne
<1>6. CASE call.phase = "execution"
  <2>1. e.status = "executed"
    BY <1>3, <1>6 DEF Done
  <2>2. <<a, "execution">> \in receipts /\ <<a, "rollback">> \notin receipts
    BY <1>1, <1>2, <1>6, EffectFacts
  <2>3. /\ EffectOf(a) = "in_force" /\ EffectOf(a)' = "in_force"
        /\ ReportOf(a) = "none" /\ ReportOf(a)' = "executed"
    BY <1>2, <1>5, <1>6, <2>1, <2>2 DEF EffectOf, ReportOf
  <2>. QED
    BY <1>1, <1>5, <2>3, ReportStep DEF Contract!Next
<1>7. CASE call.phase = "rollback"
  <2>1. e.status = "rolled_back"
    BY <1>3, <1>7 DEF Done
  <2>2. <<a, "rollback">> \in receipts /\ Has(a, {"executed"})
    BY <1>1, <1>2, <1>7, EffectFacts
  <2>3. /\ EffectOf(a) = "undone" /\ EffectOf(a)' = "undone"
        /\ ReportOf(a) = "executed" /\ ReportOf(a)' = "rolled_back"
    BY <1>2, <1>5, <2>1, <2>2 DEF EffectOf, ReportOf
  <2>. QED
    BY <1>1, <1>5, <2>3, ReportStep DEF Contract!Next
<1>. QED
  BY <1>1, <1>6, <1>7 DEF Phases

(* An outcome in doubt reports nothing.                                    *)
LEMMA NoReceiptMaps ==
  ASSUME IInv, NoReceipt, UNCHANGED labVars
  PROVE  UNCHANGED Contract!cvars
<1>. DEFINE a == call.action
            e == [status |-> Unknown[call.phase]]
<1>1. /\ call # NoCall /\ call \in Calls /\ a \in Actions
      /\ call.phase \in Phases
  BY DEF IInv, TypeOK, ExecTypeOK, NoReceipt, Calls
<1>2. CASE history' = history
  BY <1>2, InvisibleStep DEF labVars
<1>3. CASE Record(a, e)
  <2>1. e \in Records /\ e.status \in {"execution_unknown", "rollback_unknown"}
    BY <1>1 DEF Records, Outcomes, Unknown, Phases
  <2>2. Proposed(a)
    BY <1>1 DEF IInv, CallIsOpen, InLab
  <2>. HIDE DEF e, a
  <2>. QED
    BY <1>1, <1>3, <2>1, <2>2, InvisibleAppend
<1>. QED
  BY <1>2, <1>3 DEF NoReceipt

(* The laboratory's own step: a first application takes effect, or undoes  *)
(* the effect; a repeated or refused one is invisible.                     *)
LEMMA LabPostMaps ==
  ASSUME IInv, NEW op \in Ops, LabPost(op)
  PROVE  Contract!Next \/ UNCHANGED Contract!cvars
<1>1. history' = history /\ op \in inflight
  BY DEF LabPost
<1>2. CASE op \in receipts \/ ~Lab!CanApply(op)
  BY <1>1, <1>2, InvisibleStep DEF LabPost, Lab!Apply, Lab!labVars
<1>3. CASE op \notin receipts /\ Lab!CanApply(op)
  <2>1. PICK a \in Actions, phase \in Phases : op = <<a, phase>>
    BY DEF Ops
  <2>2. receipts' = receipts \cup {op}
    BY <1>3 DEF LabPost, Lab!Apply
  <2>3. Has(a, {Dispatched[phase]})
    BY <1>1, <2>1 DEF IInv, WireWasPosted, IntentBeforePost
  <2>4. /\ \A b \in Actions : InLab(b)' <=> InLab(b)
        /\ \A b \in Actions : \A S : Has(b, S)' <=> Has(b, S)
        /\ \A b \in Actions : ReportOf(b)' = ReportOf(b)
    BY <1>1 DEF InLab, Has, ReportOf, Proposed, Proposal
  <2>5. OthersStay(a)
    <3>. SUFFICES ASSUME NEW b \in Actions, b # a
                  PROVE  EffectOf(b)' = EffectOf(b)
      BY <2>4 DEF OthersStay
    <3>1. \A p \in Phases : <<b, p>> \in receipts' <=> <<b, p>> \in receipts
      BY <2>1, <2>2
    <3>. QED
      BY <2>4, <3>1 DEF EffectOf, Phases
  <2>6. CASE ~InLab(a)
    BY <2>4, <2>5, <2>6, NobodyMoves DEF EffectOf, OthersStay
  <2>7. CASE InLab(a) /\ phase = "execution"
    <3>1. account.enabled /\ account.owner = NoOwner
      BY <1>3, <2>1, <2>7 DEF Lab!CanApply
    <3>2. \A b \in Actions :
            ~(<<b, "execution">> \in receipts /\ <<b, "rollback">> \notin receipts)
      BY <3>1, NoOwnerAssumption DEF IInv, Lab!OwnerHoldsAccount
    <3>3. \A b \in Actions : EffectOf(b) \notin {"in_force", "undoing"}
      BY <3>2 DEF EffectOf
    <3>4. Contract!Holding = {}
      BY <3>3 DEF Contract!Holding
    <3>5. <<a, "execution">> \notin receipts /\ <<a, "rollback">> \notin receipts
      BY <1>3, <2>1, <2>7, EffectFacts
    <3>6. ~Has(a, {"rollback_dispatched"}) /\ Has(a, {"execution_dispatched"})
      BY <2>3, <2>7, <3>5, EffectFacts DEF Dispatched
    <3>7. /\ <<a, "execution">> \in receipts'
          /\ <<a, "rollback">> \notin receipts'
      BY <2>1, <2>2, <2>7, <3>5
    <3>8. EffectOf(a) = "authorised" /\ EffectOf(a)' = "in_force"
      BY <2>4, <2>7, <3>5, <3>6, <3>7 DEF EffectOf
    <3>9. Contract!TakeEffect(a)
      BY <2>4, <2>5, <3>4, <3>8, AdvanceStep DEF Contract!TakeEffect
    <3>. QED
      BY <3>9 DEF Contract!Next
  <2>8. CASE InLab(a) /\ phase = "rollback"
    <3>1. /\ <<a, "execution">> \in receipts
          /\ <<a, "rollback">> \notin receipts
      BY <1>3, <2>1, <2>8 DEF Lab!CanApply
    <3>2. Has(a, {"rollback_dispatched"})
      BY <2>3, <2>8 DEF Dispatched
    <3>3. <<a, "rollback">> \in receipts'
      BY <2>1, <2>2, <2>8
    <3>4. EffectOf(a) = "undoing" /\ EffectOf(a)' = "undone"
      BY <2>4, <2>8, <3>1, <3>2, <3>3 DEF EffectOf
    <3>5. Contract!Undo(a)
      BY <2>4, <2>5, <3>4, AdvanceStep DEF Contract!Undo
    <3>. QED
      BY <3>5 DEF Contract!Next
  <2>. QED
    BY <2>6, <2>7, <2>8 DEF Phases
<1>. QED
  BY <1>2, <1>3

-----------------------------------------------------------------------------
(* Initial states map to initial states.                                   *)
LEMMA InitMaps == Init => Contract!Init
<1>. SUFFICES ASSUME Init PROVE Contract!Init
  OBVIOUS
<1>1. \A a \in Actions : ~InLab(a)
  BY DEF Init, ExecInit, InLab, Proposed
<1>2. \A a \in Actions : EffectOf(a) = "none" /\ ReportOf(a) = "none"
  BY <1>1 DEF EffectOf, ReportOf
<1>. QED
  BY <1>2 DEF Contract!Init

(* Every step maps to a step of the contract or to a stutter.              *)
LEMMA NextMaps ==
  ASSUME IInv, [Next]_vars
  PROVE  Contract!Next \/ UNCHANGED Contract!cvars
<1>1. CASE UNCHANGED vars
  BY <1>1, InvisibleStep DEF vars
<1>2. CASE LabStep
  BY <1>2, LabPostMaps, InvisibleStep DEF LabStep, LabGet, labVars
<1>3. CASE ExecutorStep(LabEnv) /\ UNCHANGED labVars
  <2>1. CASE \/ SendPost \/ TornAppend \/ Tick
             \/ \E c \in Configs : Crash(c)
             \/ \E op \in Ops : LosePost(op)
    BY <1>3, <2>1, InvisibleStep
    DEF SendPost, TornAppend, Tick, Crash, LosePost, labVars
  <2>2. ASSUME NEW a \in Actions, Reconcile(a)
        PROVE  UNCHANGED Contract!cvars
    BY <1>3, <2>2, InvisibleStep DEF Reconcile, labVars
  <2>. QED
    BY <1>3, <2>1, <2>2, ProposeMaps, ApproveMaps, ExecuteMaps, RollbackMaps,
       FinishMaps, NoReceiptMaps
    DEF ExecutorStep, HandlerStep
<1>. QED
  BY <1>1, <1>2, <1>3 DEF Next

(* The executor, its wire and the laboratory, with every crash, lost or    *)
(* late message and restart of the model, implement the contract.          *)
THEOREM ContractImplemented == Spec => ImplementsContract
<1>1. Init => Contract!Init
  BY InitMaps
<1>2. IInv /\ [Next]_vars => [Contract!Next]_(Contract!cvars)
  BY NextMaps
<1>. QED
  BY <1>1, <1>2, InductiveInvariant, PTL DEF Spec, ImplementsContract,
     Contract!Spec
=============================================================================
