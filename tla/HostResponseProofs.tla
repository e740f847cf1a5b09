------------------------- MODULE HostResponseProofs -------------------------
(***************************************************************************)
(* Proofs about the executor wired to the process laboratory, about the    *)
(* gateway's recovery check of a host action, and about the live run of    *)
(* the whole response path.  What the journal says of the host is true     *)
(* because of one chain, each link of which is written before the next: an *)
(* approved intent in the journal, a receipt that the outcome is unknown   *)
(* in the laboratory, the effect on the host, the complete receipt, the    *)
(* answer, and the outcome in the journal.                                 *)
(***************************************************************************)
EXTENDS LiveHostRun, ExecutorProofs, FiniteSetTheorems

-----------------------------------------------------------------------------
(* The inductive invariant of the executor and the laboratory.             *)

(* A proposal names an environment and a process there have been.          *)
TargetsSeen ==
  \A a \in Actions :
    Proposed(a) =>
      /\ Proposal(a).env <= env
      /\ Proposal(a).kind = "terminate_process" => target[a] \in 1..spawned

(* The laboratory only knows operations whose intent was recorded, and     *)
(* only ran those that name a host action.                                 *)
ReceiptsIntended ==
  \A a \in Actions :
    /\ operations[a] # "none" => Has(a, {"execution_dispatched"})
    /\ operations[a] \in {"unknown", "applied"} => Proposal(a).kind \in HostKinds

(* An answer a handler has in hand, and an outcome in the journal, is the  *)
(* laboratory's complete receipt; a receipt that is complete stays.        *)
AnswersBacked ==
  /\ call # NoCall /\ call.reply \in {"applied", "rejected"} =>
       call.phase = "execution" /\ operations[call.action] = call.reply
  /\ \A a \in Actions :
       /\ Has(a, {"executed"}) /\ Proposal(a).kind \in HostKinds =>
            operations[a] = "applied"
       /\ Has(a, {"execution_rejected"}) => operations[a] = "rejected"

(* The receipt was unknown before anything was done to the host.           *)
EffectsReceipted == \A e \in effects : operations[e[1]] \in {"unknown", "applied"}

(* An operation does one thing of a kind, to what its proposal named.      *)
EffectsNamed ==
  /\ \A e, f \in effects : e[1] = f[1] /\ e[2] = f[2] => e = f
  /\ \A e \in effects :
       /\ Proposal(e[1]).kind = "terminate_process" =>
            e = <<e[1], "process", target[e[1]]>>
       /\ e[2] = "persistence" => e[3] = Proposal(e[1]).env

(* Where the operation that holds the laboratory's lock has got to.        *)
Working(b) ==
  /\ operations[b] = "unknown" /\ Proposal(b).env = env
  /\ lastMutation = [action |-> b, result |-> "unknown"]
  /\ busy.stage = "quarantine" =>
       Proposal(b).kind = "disable_persistence" /\ Effects(b) = {}
  /\ busy.stage = "terminate" =>
       /\ \A e \in Effects(b) : e[2] # "process"
       /\ Proposal(b).kind = "terminate_process" =>
            Effects(b) = {} /\ compute \in {0, target[b]}
       /\ Proposal(b).kind = "disable_persistence" => ~persistence
  /\ busy.stage = "commit" =>
       /\ compute = 0
       /\ Proposal(b).kind = "disable_persistence" => ~persistence

StagesTrue ==
  \A b \in Actions : busy # Host!Idle /\ busy.action = b => Working(b)

(* A complete receipt is true and stays true.                              *)
AppliedTrue ==
  \A a \in Actions :
    operations[a] = "applied" =>
      /\ Proposal(a).kind = "terminate_process" => compute # target[a]
      /\ Proposal(a).kind = "disable_persistence" /\ Proposal(a).env = env =>
           ~persistence /\ compute = 0

(* The file of this environment was taken by an operation.                 *)
FileTaken == ~persistence => \E b \in Actions : <<b, "persistence", env>> \in effects

HostInvariant ==
  /\ ExecInvariant /\ Host!HostTypeOK /\ target \in [Actions -> Nat]
  /\ TargetsSeen /\ ReceiptsIntended /\ AnswersBacked /\ EffectsReceipted
  /\ EffectsNamed /\ StagesTrue /\ AppliedTrue /\ FileTaken

(* A check is of an executed host action; snapshots that were clean in its *)
(* own environment are clean for good, and one that was not is of an       *)
(* action that left the file.                                              *)
Judged(a) ==
  /\ Has(a, {"executed"})
  /\ Proposal(a).mode = "host_lab" /\ check.env = Proposal(a).env
  /\ check.seen > 0 /\ check.clean =>
       /\ \E b \in Actions : <<b, "persistence", check.env>> \in effects
       /\ check.env = env => ~persistence /\ compute = 0
  /\ ~check.clean => Proposal(a).kind = "terminate_process"
  /\ check.stage = "verified" => check.clean /\ check.seen = Snapshots
  /\ check.stage = "failed" => ~check.clean

CheckTrue ==
  /\ check \in Checks \cup {NoCheck}
  /\ \A a \in Actions : check # NoCheck /\ check.action = a => Judged(a)
-----------------------------------------------------------------------------
(* The executor's steps.                                                   *)

(* A history with a record starts with its proposal, which is well-formed. *)
LEMMA RecordedIsProposed ==
  ASSUME ExecInvariant, NEW a \in Actions, NEW S, Has(a, S)
  PROVE  Proposed(a) /\ Proposal(a) \in Proposals
<1>1. history[a] \in Seq(Records) /\ DOMAIN history[a] # {}
  BY DEF ExecInvariant, ExecTypeOK, Has
<1>2. Proposed(a)
  BY <1>1 DEF Proposed
<1> QED
  BY <1>2 DEF ExecInvariant, ProposalsFirst

(* An operation the laboratory knows is one of a proposed action.          *)
LEMMA KnownIsProposed ==
  ASSUME HostInvariant, NEW a \in Actions, operations[a] # "none"
  PROVE  Proposed(a) /\ Proposal(a) \in Proposals /\ Has(a, {"execution_dispatched"})
<1>1. Has(a, {"execution_dispatched"})
  BY DEF HostInvariant, ReceiptsIntended
<1> QED
  BY <1>1, RecordedIsProposed DEF HostInvariant

(* What concerns only the laboratory survives whatever keeps the proposals *)
(* and the recorded intents.                                               *)
LEMMA JournalStep ==
  ASSUME HostInvariant, UNCHANGED hostVars, ExecInvariant', target' \in [Actions -> Nat],
         \A b \in Actions : Proposed(b) => Proposal(b)' = Proposal(b) /\ target'[b] = target[b],
         \A b \in Actions :
           Has(b, {"execution_dispatched"}) => Has(b, {"execution_dispatched"})',
         TargetsSeen', AnswersBacked'
  PROVE  HostInvariant'
<1>1. /\ env' = env /\ persistence' = persistence /\ compute' = compute
      /\ spawned' = spawned /\ operations' = operations /\ busy' = busy
      /\ lastMutation' = lastMutation /\ effects' = effects
  BY DEF hostVars
<1>2. ASSUME NEW b \in Actions, operations[b] # "none"
      PROVE  /\ Proposal(b)' = Proposal(b) /\ target'[b] = target[b]
             /\ Has(b, {"execution_dispatched"})'
  BY <1>2, KnownIsProposed
<1>3. /\ effects \subseteq Actions \X {"process", "persistence"} \X Nat
      /\ \A b \in Actions : Effects(b)' = Effects(b)
  BY <1>1 DEF HostInvariant, Host!HostTypeOK, Effects
<1>4. Host!HostTypeOK'
  BY <1>1 DEF HostInvariant, Host!HostTypeOK, Host!Idle, Host!NoMutation
<1>5. ReceiptsIntended'
  BY <1>1, <1>2 DEF HostInvariant, ReceiptsIntended
<1>6. EffectsReceipted'
  BY <1>1 DEF HostInvariant, EffectsReceipted
<1>7. EffectsNamed'
  <2>1. \A e \in effects :
          /\ e[1] \in Actions /\ Proposal(e[1])' = Proposal(e[1])
          /\ target'[e[1]] = target[e[1]]
    BY <1>2, <1>3 DEF HostInvariant, EffectsReceipted
  <2> QED
    BY <1>1, <2>1 DEF HostInvariant, EffectsNamed
<1>8. StagesTrue'
  <2>1. SUFFICES ASSUME NEW b \in Actions, busy # Host!Idle, busy.action = b
                 PROVE  Working(b)'
    BY <1>1 DEF StagesTrue, Host!Idle
  <2>2. Working(b)
    BY <2>1 DEF HostInvariant, StagesTrue
  <2>3. Proposal(b)' = Proposal(b) /\ target'[b] = target[b]
    BY <1>2, <2>2 DEF Working
  <2> QED
    BY <1>1, <1>3, <2>2, <2>3 DEF Working
<1>9. AppliedTrue'
  BY <1>1, <1>2 DEF HostInvariant, AppliedTrue
<1>10. FileTaken'
  BY <1>1 DEF HostInvariant, FileTaken
<1> QED
  BY <1>4, <1>5, <1>6, <1>7, <1>8, <1>9, <1>10 DEF HostInvariant

(* The executor's handlers keep the invariant: what they record as the     *)
(* outcome is the answer they had in hand.                                 *)
LEMMA HandlersKeepHost ==
  ASSUME HostInvariant, HandlerStep, UNCHANGED <<hostVars, target>>
  PROVE  HostInvariant'
<1>1. /\ ExecInvariant /\ ExecTypeOK /\ SentAfterIntent /\ IntentsApproved /\ ProposalsFirst
      /\ history \in [Actions -> Seq(Records)]
  BY DEF HostInvariant, ExecInvariant, ExecTypeOK
<1>2. ExecInvariant'
  BY <1>1, HandlerKeeps
<1>3. /\ env' = env /\ spawned' = spawned /\ operations' = operations
      /\ target' = target /\ target' \in [Actions -> Nat] /\ UNCHANGED hostVars
  BY DEF hostVars, HostInvariant
<1>4. \/ call' = NoCall
      \/ UNCHANGED call
      \/ call' # NoCall /\ call'.reply \in {"unsent", "waiting"}
  BY <1>1, HandlerCalls
<1>5. call' # NoCall /\ call'.reply \in {"applied", "rejected"} =>
        call'.phase = "execution" /\ operations'[call'.action] = call'.reply
  BY <1>3, <1>4 DEF HostInvariant, AnswersBacked
<1>6. CASE UNCHANGED history
  <2>1. \A b \in Actions : (Proposed(b)' <=> Proposed(b)) /\ Proposal(b)' = Proposal(b)
    BY <1>6 DEF Proposed, Proposal
  <2>2. \A b \in Actions : \A S : Has(b, S)' <=> Has(b, S)
    BY <1>6 DEF Has
  <2>3. TargetsSeen'
    BY <1>3, <2>1 DEF HostInvariant, TargetsSeen
  <2>4. AnswersBacked'
    BY <1>3, <1>5, <2>1, <2>2 DEF HostInvariant, AnswersBacked
  <2> QED
    BY <1>2, <1>3, <2>1, <2>2, <2>3, <2>4, JournalStep
<1>7. ASSUME NEW a \in Actions, NEW e \in Records, Record(a, e), Proposed(a), Lawful(a, e)
      PROVE  HostInvariant'
  <2>1. /\ \A b \in Actions : (Proposed(b)' <=> Proposed(b))
                              /\ (Proposed(b) => Proposal(b)' = Proposal(b))
        /\ \A b \in Actions : \A S : Has(b, S)' <=> Has(b, S) \/ (b = a /\ e.status \in S)
    BY <1>1, <1>7, JournalGrows
  <2>2. TargetsSeen'
    BY <1>3, <2>1 DEF HostInvariant, TargetsSeen
  <2>3. ASSUME NEW b \in Actions, Has(b, {"executed"})', Proposal(b)'.kind \in HostKinds
        PROVE  operations[b] = "applied"
    <3>1. Proposed(b) /\ Proposal(b)' = Proposal(b)
      BY <1>7, <1>1, <2>1, <2>3, RecordedIsProposed
    <3>2. CASE Has(b, {"executed"})
      BY <2>3, <3>1, <3>2 DEF HostInvariant, AnswersBacked
    <3>3. CASE b = a /\ e.status = "executed"
      <4>1. Proposal(a).mode # "simulation"
        BY <1>1, <2>3, <3>1, <3>3 DEF ProposalsFirst
      <4> QED
        BY <1>7, <3>3, <4>1 DEF Lawful, HostInvariant, AnswersBacked
    <3> QED
      BY <2>1, <2>3, <3>2, <3>3
  <2>4. ASSUME NEW b \in Actions, Has(b, {"execution_rejected"})'
        PROVE  operations[b] = "rejected"
    <3>1. CASE Has(b, {"execution_rejected"})
      BY <3>1 DEF HostInvariant, AnswersBacked
    <3>2. CASE b = a /\ e.status = "execution_rejected"
      BY <1>7, <3>2 DEF Lawful, HostInvariant, AnswersBacked
    <3> QED
      BY <2>1, <2>4, <3>1, <3>2
  <2>5. AnswersBacked'
    BY <1>3, <1>5, <2>3, <2>4 DEF AnswersBacked
  <2> QED
    BY <1>2, <1>3, <2>1, <2>2, <2>5, JournalStep
<1> QED
  BY <1>1, <1>6, <1>7, HandlerAppends

(* A proposal keeps it: its target was seen, and nothing else is new.      *)
LEMMA ProposalKeepsHost ==
  ASSUME HostInvariant, NEW a \in Actions, NEW key \in Keys, NEW kind \in Kinds,
         ProposeTarget(a, key, kind)
  PROVE  HostInvariant'
<1>1. ExecInvariant /\ target \in [Actions -> Nat] /\ env \in Nat /\ spawned \in Nat
  BY HostBoundsAssumption DEF HostInvariant, Host!HostTypeOK
<1>2. PICK t \in Observed(kind) : target' = [target EXCEPT ![a] = t]
  BY DEF ProposeTarget
<1>3. Propose(a, key, kind, env) /\ UNCHANGED hostVars
  BY DEF ProposeTarget
<1>4. /\ ExecInvariant' /\ UNCHANGED <<call, inflight>>
      /\ ~Proposed(a) /\ Proposal(a)'.env \in {0, env}
      /\ \A S : ~Has(a, S)
      /\ \A b \in Actions : Proposed(b)' <=> Proposed(b) \/ b = a
      /\ \A b \in Actions : Proposed(b) => Proposal(b)' = Proposal(b)
      /\ \A b \in Actions : \A S : Has(b, S) => Has(b, S)'
      /\ \A b \in Actions : \A S : Has(b, S)' => Has(b, S) \/ "pending_approval" \in S
  BY <1>1, <1>3, ProposalKeeps
<1>5. t \in Nat /\ (kind = "terminate_process" => t \in 1..spawned)
  BY <1>1, <1>2 DEF Observed
<1>6. /\ target' \in [Actions -> Nat] /\ target'[a] = t
      /\ \A b \in Actions : b # a => target'[b] = target[b]
  BY <1>1, <1>2, <1>5
<1>7. env' = env /\ spawned' = spawned /\ operations' = operations
  BY <1>3 DEF hostVars
<1>8. Proposal(a)'.kind = kind
  <2> PICK e : e = [status |-> "pending_approval", key |-> key, kind |-> kind,
                    mode |-> config.mode, url |-> config.url,
                    env |-> IF config.mode \in LabModes THEN env ELSE 0]
    OBVIOUS
  <2>1. history \in [Actions -> Seq(Records)] /\ config \in [mode : Modes, url : STRING]
    BY <1>1, ConfigsAssumption DEF ExecInvariant, ExecTypeOK
  <2>2. e \in Records
    BY <1>1, <2>1 DEF Records, Proposals
  <2>3. Record(a, e) /\ ~Proposed(a)
    BY <1>3 DEF Propose
  <2>4. Proposal(a)' = e
    BY <2>1, <2>2, <2>3, ProposalAfterRecord
  <2> QED
    BY <2>4
<1>9. TargetsSeen'
  <2>1. SUFFICES ASSUME NEW b \in Actions, Proposed(b)'
                 PROVE  /\ Proposal(b)'.env <= env'
                        /\ Proposal(b)'.kind = "terminate_process" =>
                             target'[b] \in 1..spawned'
    BY DEF TargetsSeen
  <2>2. CASE b = a
    BY <1>1, <1>4, <1>5, <1>6, <1>7, <1>8, <2>2
  <2>3. CASE b # a
    BY <1>4, <1>6, <1>7, <2>1, <2>3 DEF HostInvariant, TargetsSeen
  <2> QED
    BY <2>2, <2>3
<1>10. AnswersBacked'
  <2>1. \A b \in Actions :
          /\ Has(b, {"executed"})' => Has(b, {"executed"})
          /\ Has(b, {"execution_rejected"})' => Has(b, {"execution_rejected"})
    BY <1>4
  <2>2. \A b \in Actions : Has(b, {"executed"}) => Proposal(b)' = Proposal(b)
    BY <1>1, <1>4, RecordedIsProposed
  <2> QED
    BY <1>4, <1>7, <2>1, <2>2 DEF HostInvariant, AnswersBacked
<1>11. \A b \in Actions : Proposed(b) => Proposal(b)' = Proposal(b) /\ target'[b] = target[b]
  BY <1>4, <1>6
<1> QED
  BY <1>3, <1>4, <1>6, <1>9, <1>10, <1>11, JournalStep

-----------------------------------------------------------------------------
(* The laboratory's steps.                                                 *)

(* A step of the laboratory answers nobody, or truly.                      *)
TrueAnswer ==
  \/ UNCHANGED call
  \/ \E verb \in {"POST", "GET"}, a \in Actions, answer \in {"applied", "rejected", "error"} :
       /\ Reply(verb, <<a, "execution">>, answer)
       /\ answer # "error" => operations'[a] = answer

(* What a step that leaves the journal and the targets alone leaves alone. *)
LEMMA SameJournal ==
  ASSUME UNCHANGED <<history, target>>
  PROVE  \A b \in Actions : /\ Proposed(b)' <=> Proposed(b)
                            /\ Proposal(b)' = Proposal(b)
                            /\ target'[b] = target[b]
                            /\ \A S : Has(b, S)' <=> Has(b, S)
BY DEF Proposed, Proposal, Has

(* Complete receipts and true answers keep what the journal is told true.  *)
LEMMA AnswersStayBacked ==
  ASSUME HostInvariant, UNCHANGED <<history, target>>, TrueAnswer,
         \A b \in Actions : operations[b] \in {"applied", "rejected"} =>
           operations'[b] = operations[b]
  PROVE  AnswersBacked'
<1>1. call \in Calls \cup {NoCall}
  BY DEF HostInvariant, ExecInvariant, ExecTypeOK
<1>2. call' # NoCall /\ call'.reply \in {"applied", "rejected"} =>
        call'.phase = "execution" /\ operations'[call'.action] = call'.reply
  <2>1. CASE UNCHANGED call
    BY <1>1, <2>1 DEF HostInvariant, AnswersBacked, Calls
  <2>2. ASSUME NEW verb \in {"POST", "GET"}, NEW a \in Actions,
               NEW answer \in {"applied", "rejected", "error"},
               Reply(verb, <<a, "execution">>, answer),
               answer # "error" => operations'[a] = answer
        PROVE  /\ call'.phase = "execution" /\ call'.action = a
               /\ call'.reply = answer
    <3>1. call \in Calls /\ call.action = a /\ call.phase = "execution"
      BY <1>1, <2>2 DEF Reply
    <3>2. call' = [call EXCEPT !.reply = answer]
      BY <2>2 DEF Reply
    <3> QED
      BY <3>1, <3>2 DEF Calls
  <2> QED
    BY <2>1, <2>2 DEF TrueAnswer
<1>3. \A b \in Actions :
        /\ Proposal(b)' = Proposal(b)
        /\ Has(b, {"executed"})' <=> Has(b, {"executed"})
        /\ Has(b, {"execution_rejected"})' <=> Has(b, {"execution_rejected"})
  BY SameJournal
<1> QED
  BY <1>2, <1>3 DEF HostInvariant, AnswersBacked

(* A step of the laboratory keeps the invariant if it keeps its own parts. *)
LEMMA LabStep ==
  ASSUME HostInvariant, UNCHANGED <<history, auditValid, config, now, posts, target>>,
         inflight' \subseteq inflight, TrueAnswer,
         Host!HostTypeOK', env <= env', spawned <= spawned',
         \A b \in Actions : operations[b] \in {"applied", "rejected"} =>
           operations'[b] = operations[b],
         \A b \in Actions : operations'[b] # operations[b] =>
           /\ Has(b, {"execution_dispatched"})
           /\ operations'[b] \in {"unknown", "applied"} => Proposal(b).kind \in HostKinds,
         EffectsReceipted', EffectsNamed', StagesTrue', AppliedTrue', FileTaken'
  PROVE  HostInvariant'
<1>1. ExecInvariant'
  <2>1. ASSUME NEW a \in Actions PROVE <<a, "execution">> \in Ops
    BY DEF Ops, Phases
  <2>2. \/ UNCHANGED call
        \/ \E verb \in {"POST", "GET"}, op \in Ops,
              answer \in {"applied", "rejected", "error"} :
             Reply(verb, op, answer)
    BY <2>1 DEF TrueAnswer
  <2>3. ExecInvariant
    BY DEF HostInvariant
  <2> QED
    BY <2>2, <2>3, AnswerKeeps
<1>2. AnswersBacked'
  BY AnswersStayBacked
<1>3. TargetsSeen'
  <2>1. SUFFICES ASSUME NEW b \in Actions, Proposed(b)'
                 PROVE  /\ Proposal(b)'.env <= env'
                        /\ Proposal(b)'.kind = "terminate_process" =>
                             target'[b] \in 1..spawned'
    BY DEF TargetsSeen
  <2>2. Proposed(b) /\ Proposal(b)' = Proposal(b) /\ target'[b] = target[b]
    BY <2>1, SameJournal
  <2>3. Proposal(b) \in Proposals
    BY <2>2 DEF HostInvariant, ExecInvariant, ProposalsFirst
  <2>4. env \in Nat /\ env' \in Nat /\ spawned \in Nat /\ spawned' \in Nat
    BY HostBoundsAssumption DEF HostInvariant, Host!HostTypeOK
  <2>5. Proposal(b).env \in Nat
    BY <2>3 DEF Proposals
  <2> QED
    BY <2>2, <2>4, <2>5 DEF HostInvariant, TargetsSeen
<1>4. ReceiptsIntended'
  <2>1. \A b \in Actions :
          /\ Proposal(b)' = Proposal(b)
          /\ Has(b, {"execution_dispatched"})' <=> Has(b, {"execution_dispatched"})
    BY SameJournal
  <2> QED
    BY <2>1 DEF HostInvariant, ReceiptsIntended
<1>5. target' \in [Actions -> Nat]
  BY DEF HostInvariant
<1> QED
  BY <1>1, <1>2, <1>3, <1>4, <1>5 DEF HostInvariant

(* The parts of the invariant that an operation at work rests on.          *)
LEMMA WorkingFacts ==
  ASSUME HostInvariant, busy # Host!Idle
  PROVE  /\ busy.action \in Actions /\ busy.stage \in {"quarantine", "terminate", "commit"}
         /\ Working(busy.action) /\ operations[busy.action] = "unknown"
         /\ Proposal(busy.action).kind \in HostKinds
         /\ Has(busy.action, {"execution_dispatched"})
         /\ Proposal(busy.action).kind = "terminate_process" =>
              target[busy.action] \in 1..spawned
<1>1. busy.action \in Actions /\ busy.stage \in {"quarantine", "terminate", "commit"}
  BY DEF HostInvariant, Host!HostTypeOK
<1>2. Working(busy.action)
  BY <1>1 DEF HostInvariant, StagesTrue
<1>3. operations[busy.action] = "unknown"
  BY <1>2 DEF Working
<1>4. Proposed(busy.action) /\ Has(busy.action, {"execution_dispatched"})
  BY <1>1, <1>3, KnownIsProposed
<1> QED
  BY <1>1, <1>2, <1>3, <1>4 DEF HostInvariant, ReceiptsIntended, TargetsSeen

(* The signal hits the process the operation was approved for, once.       *)
LEMMA SignalNamed ==
  ASSUME HostInvariant, busy # Host!Idle, busy.stage = "terminate",
         effects' = Host!Signal, UNCHANGED <<history, target>>,
         operations' = operations
  PROVE  /\ EffectsNamed' /\ EffectsReceipted'
         /\ effects' \subseteq Actions \X {"process", "persistence"} \X Nat
         /\ effects \subseteq effects'
<1> PICK b : b = busy.action
  OBVIOUS
<1>1. /\ b \in Actions /\ operations[b] = "unknown" /\ Working(b)
      /\ Proposal(b).kind \in HostKinds
  BY WorkingFacts
<1>2. /\ effects \subseteq Actions \X {"process", "persistence"} \X Nat
      /\ compute \in Nat
  BY HostBoundsAssumption DEF HostInvariant, Host!HostTypeOK
<1> PICK n : n = <<b, "process", compute>>
  OBVIOUS
<1>3. n[1] = b /\ n[2] = "process" /\ n[3] = compute
      /\ n \in Actions \X {"process", "persistence"} \X Nat
  BY <1>1, <1>2
<1>4. effects' = effects \/ (compute # 0 /\ effects' = effects \cup {n})
  BY DEF Host!Signal
<1>5. \A e \in effects : e[1] = b => e[2] # "process"
  BY <1>1 DEF Working, Effects
<1>6. Proposal(b).kind = "terminate_process" =>
        (\A e \in effects : e[1] # b) /\ compute \in {0, target[b]}
  BY <1>1 DEF Working, Effects
<1>7. \A e \in effects : e[1] \in Actions
  BY <1>2
<1>8. \A c \in Actions : Proposal(c)' = Proposal(c) /\ target'[c] = target[c]
  BY SameJournal
<1>9. EffectsReceipted'
  BY <1>1, <1>3, <1>4 DEF HostInvariant, EffectsReceipted
<1>10. EffectsNamed'
  <2>1. ASSUME NEW e \in effects', NEW f \in effects', e[1] = f[1], e[2] = f[2]
        PROVE  e = f
    BY <1>3, <1>4, <1>5, <2>1 DEF HostInvariant, EffectsNamed
  <2>2. ASSUME NEW e \in effects'
        PROVE  /\ Proposal(e[1])'.kind = "terminate_process" =>
                    e = <<e[1], "process", target'[e[1]]>>
               /\ e[2] = "persistence" => e[3] = Proposal(e[1])'.env
    <3>1. CASE e \in effects
      BY <1>7, <1>8, <3>1 DEF HostInvariant, EffectsNamed
    <3>2. CASE e = n /\ compute # 0
      <4>1. e[1] = b /\ e[2] = "process"
        BY <1>3, <3>2
      <4>2. Proposal(b)'.kind = "terminate_process" => compute = target'[b]
        BY <1>1, <1>6, <1>8, <3>2
      <4> QED
        BY <3>2, <4>1, <4>2
    <3> QED
      BY <1>4, <3>1, <3>2
  <2> QED
    BY <2>1, <2>2 DEF EffectsNamed
<1> QED
  BY <1>2, <1>3, <1>4, <1>9, <1>10

(* The request begins: it is refused, or found valid and marked unknown.   *)
LEMMA BeginKeeps ==
  ASSUME HostInvariant, NEW a \in Actions, Host!Begin(a, Request(a)),
         Has(a, {"execution_dispatched"}), TrueAnswer,
         UNCHANGED <<history, auditValid, config, now, posts, target>>,
         inflight' \subseteq inflight
  PROVE  HostInvariant'
<1>1. /\ operations \in [Actions -> {"none", "rejected", "unknown", "applied"}]
      /\ effects \subseteq Actions \X {"process", "persistence"} \X Nat
      /\ env \in Nat /\ spawned \in Nat
  BY HostBoundsAssumption DEF HostInvariant, Host!HostTypeOK
<1>2. \A b \in Actions : Proposal(b)' = Proposal(b) /\ target'[b] = target[b]
  BY SameJournal
<1>3. CASE UNCHANGED Host!hostVars
  <2>1. UNCHANGED hostVars
    BY <1>3 DEF Host!hostVars, hostVars
  <2>2. \A b \in Actions : operations'[b] = operations[b]
    BY <2>1 DEF hostVars
  <2>3. ExecInvariant'
    <3>1. ASSUME NEW b \in Actions PROVE <<b, "execution">> \in Ops
      BY DEF Ops, Phases
    <3>2. \/ UNCHANGED call
          \/ \E verb \in {"POST", "GET"}, op \in Ops,
                answer \in {"applied", "rejected", "error"} : Reply(verb, op, answer)
      BY <3>1 DEF TrueAnswer
    <3>3. ExecInvariant
      BY DEF HostInvariant
    <3> QED
      BY <3>2, <3>3, AnswerKeeps
  <2>4. AnswersBacked'
    BY <2>2, AnswersStayBacked
  <2>5. TargetsSeen'
    BY <1>2, <2>1, SameJournal DEF HostInvariant, TargetsSeen, hostVars
  <2>6. target' \in [Actions -> Nat]
    BY DEF HostInvariant
  <2> QED
    BY <1>2, <2>1, <2>3, <2>4, <2>5, <2>6, SameJournal, JournalStep
<1>4. ASSUME operations[a] = "none", NEW r \in {"rejected", "unknown"},
             operations' = [operations EXCEPT ![a] = r],
             r = "rejected" => UNCHANGED <<busy, lastMutation>>,
             r = "unknown" =>
               /\ Host!Valid(Request(a))
               /\ busy = Host!Idle
               /\ lastMutation' = [action |-> a, result |-> "unknown"]
               /\ busy' = [action |-> a,
                           stage |-> IF Request(a).kind = "disable_persistence"
                                       THEN "quarantine" ELSE "terminate"],
             UNCHANGED <<env, persistence, compute, spawned, effects>>
      PROVE  HostInvariant'
  <2>1. /\ operations'[a] = r
        /\ \A b \in Actions : b # a => operations'[b] = operations[b]
        /\ operations' \in [Actions -> {"none", "rejected", "unknown", "applied"}]
    BY <1>1, <1>4
  <2>2. Effects(a) = {} /\ \A b \in Actions : Effects(b)' = Effects(b)
    BY <1>4 DEF Effects, HostInvariant, EffectsReceipted
  <2>3. r = "unknown" =>
          /\ Proposal(a).env = env
          /\ \/ Proposal(a).kind = "terminate_process" /\ compute = target[a]
             \/ Proposal(a).kind = "disable_persistence"
    BY <1>4 DEF Host!Valid, Request
  <2>4. r = "unknown" =>
          /\ busy'.action = a
          /\ busy'.stage = IF Proposal(a).kind = "disable_persistence"
                             THEN "quarantine" ELSE "terminate"
          /\ busy' \in [action : Actions, stage : {"quarantine", "terminate", "commit"}]
    BY <1>4 DEF Request
  <2>5. Host!HostTypeOK'
    BY <1>4, <2>1, <2>4 DEF HostInvariant, Host!HostTypeOK, Host!Idle, Host!NoMutation
  <2>6. EffectsReceipted'
    BY <1>1, <1>4, <2>1 DEF HostInvariant, EffectsReceipted
  <2>7. EffectsNamed'
    BY <1>1, <1>2, <1>4 DEF HostInvariant, EffectsNamed
  <2>8. StagesTrue'
    <3>1. SUFFICES ASSUME NEW b \in Actions, busy' # Host!Idle, busy'.action = b
                   PROVE  Working(b)'
      BY DEF StagesTrue, Host!Idle
    <3>2. CASE r = "unknown"
      BY <1>2, <1>4, <2>1, <2>2, <2>3, <2>4, <3>1, <3>2 DEF Working
    <3>3. CASE r = "rejected"
      <4>1. busy' = busy /\ lastMutation' = lastMutation /\ Working(b)
        BY <1>4, <3>1, <3>3 DEF HostInvariant, StagesTrue
      <4>2. b # a
        BY <1>4, <4>1 DEF Working
      <4> QED
        BY <1>2, <1>4, <2>1, <2>2, <4>1, <4>2 DEF Working
    <3> QED
      BY <3>2, <3>3
  <2>9. AppliedTrue'
    BY <1>2, <1>4, <2>1 DEF HostInvariant, AppliedTrue
  <2>10. FileTaken'
    BY <1>4 DEF HostInvariant, FileTaken
  <2>11. \A b \in Actions :
           /\ operations[b] \in {"applied", "rejected"} => operations'[b] = operations[b]
           /\ operations'[b] # operations[b] =>
                /\ Has(b, {"execution_dispatched"})
                /\ operations'[b] \in {"unknown", "applied"} => Proposal(b).kind \in HostKinds
    BY <1>4, <2>1, <2>3 DEF HostKinds
  <2>12. env <= env' /\ spawned <= spawned'
    BY <1>1, <1>4
  <2> QED
    BY <2>5, <2>6, <2>7, <2>8, <2>9, <2>10, <2>11, <2>12, LabStep
<1>5. CASE operations[a] = "none" /\ ~Host!Valid(Request(a))
  BY <1>4, <1>5 DEF Host!Begin
<1>6. CASE operations[a] = "none" /\ Host!Valid(Request(a))
  BY <1>4, <1>6 DEF Host!Begin
<1> QED
  BY <1>3, <1>5, <1>6 DEF Host!Begin

(* The operation moves the file away: its first effect.                    *)
LEMMA QuarantineKeeps ==
  ASSUME HostInvariant, Host!Quarantine, UNCHANGED <<execVars, target>>
  PROVE  HostInvariant'
<1> PICK b : b = busy.action
  OBVIOUS
<1>1. busy # Host!Idle /\ busy.stage = "quarantine"
  BY DEF Host!Quarantine, Host!Idle
<1>2. /\ b \in Actions /\ operations[b] = "unknown" /\ Proposal(b).env = env
      /\ Proposal(b).kind = "disable_persistence" /\ \A e \in effects : e[1] # b
      /\ lastMutation = [action |-> b, result |-> "unknown"]
      /\ busy \in [action : Actions, stage : {"quarantine", "terminate", "commit"}]
  BY <1>1, WorkingFacts DEF Working, Effects, HostInvariant, Host!HostTypeOK
<1>3. /\ effects \subseteq Actions \X {"process", "persistence"} \X Nat
      /\ env \in Nat /\ spawned \in Nat
  BY HostBoundsAssumption DEF HostInvariant, Host!HostTypeOK
<1> PICK n : n = <<b, "persistence", env>>
  OBVIOUS
<1>4. /\ n[1] = b /\ n[2] = "persistence" /\ n[3] = env
      /\ n \in Actions \X {"process", "persistence"} \X Nat
  BY <1>2, <1>3
<1>5. /\ persistence' = FALSE /\ effects' = effects \cup {n}
      /\ UNCHANGED <<env, compute, spawned, operations, lastMutation>>
      /\ env' = env /\ operations' = operations /\ lastMutation' = lastMutation
  BY DEF Host!Quarantine
<1>6. /\ busy' \in [action : Actions, stage : {"quarantine", "terminate", "commit"}]
      /\ busy'.stage = "terminate" /\ busy'.action = b
  BY <1>2 DEF Host!Quarantine
<1>7. /\ UNCHANGED <<history, auditValid, config, now, posts, target>>
      /\ inflight' \subseteq inflight /\ TrueAnswer
  BY DEF execVars, TrueAnswer
<1>8. \A c \in Actions : Proposal(c)' = Proposal(c) /\ target'[c] = target[c]
  BY <1>7, SameJournal
<1>9. Host!HostTypeOK'
  BY <1>3, <1>4, <1>5, <1>6 DEF HostInvariant, Host!HostTypeOK, Host!Idle, Host!NoMutation
<1>10. EffectsReceipted'
  BY <1>2, <1>4, <1>5 DEF HostInvariant, EffectsReceipted
<1>11. EffectsNamed'
  <2>1. ASSUME NEW e \in effects', NEW f \in effects', e[1] = f[1], e[2] = f[2]
        PROVE  e = f
    BY <1>2, <1>4, <1>5, <2>1 DEF HostInvariant, EffectsNamed
  <2>2. ASSUME NEW e \in effects'
        PROVE  /\ Proposal(e[1])'.kind = "terminate_process" =>
                    e = <<e[1], "process", target'[e[1]]>>
               /\ e[2] = "persistence" => e[3] = Proposal(e[1])'.env
    <3>1. CASE e \in effects
      <4>1. e[1] \in Actions
        BY <1>3, <3>1
      <4> QED
        BY <1>8, <3>1, <4>1 DEF HostInvariant, EffectsNamed
    <3>2. CASE e = n
      BY <1>2, <1>4, <1>8, <3>2
    <3> QED
      BY <1>5, <3>1, <3>2
  <2> QED
    BY <2>1, <2>2 DEF EffectsNamed
<1>12. StagesTrue'
  <2>1. SUFFICES Working(b)'
    BY <1>6 DEF StagesTrue
  <2>2. \A e \in Effects(b)' : e[2] # "process"
    BY <1>2, <1>4, <1>5 DEF Effects
  <2> QED
    BY <1>2, <1>5, <1>6, <1>8, <2>2 DEF Working
<1>13. AppliedTrue'
  BY <1>5, <1>8 DEF HostInvariant, AppliedTrue
<1>14. FileTaken'
  BY <1>2, <1>5 DEF FileTaken
<1>15. env <= env' /\ spawned <= spawned'
  BY <1>3, <1>5
<1>16. \A c \in Actions : operations'[c] = operations[c]
  BY <1>5
<1> QED
  BY <1>7, <1>9, <1>10, <1>11, <1>12, <1>13, <1>14, <1>15, <1>16, LabStep

(* The operation signals the process: its last effect.                     *)
LEMMA TerminateKeeps ==
  ASSUME HostInvariant, Host!Terminate, UNCHANGED <<execVars, target>>
  PROVE  HostInvariant'
<1> PICK b : b = busy.action
  OBVIOUS
<1>1. busy # Host!Idle /\ busy.stage = "terminate"
  BY DEF Host!Terminate, Host!Idle
<1>2. /\ b \in Actions /\ operations[b] = "unknown" /\ Proposal(b).env = env
      /\ Proposal(b).kind = "disable_persistence" => ~persistence
      /\ lastMutation = [action |-> b, result |-> "unknown"]
      /\ busy \in [action : Actions, stage : {"quarantine", "terminate", "commit"}]
  BY <1>1, WorkingFacts DEF Working, HostInvariant, Host!HostTypeOK
<1>3. env \in Nat /\ spawned \in Nat
  BY HostBoundsAssumption DEF HostInvariant, Host!HostTypeOK
<1>4. /\ effects' = Host!Signal /\ compute' = 0
      /\ UNCHANGED <<env, persistence, spawned, operations, lastMutation>>
      /\ env' = env /\ operations' = operations /\ spawned' = spawned
      /\ lastMutation' = lastMutation
  BY DEF Host!Terminate
<1>5. /\ busy' \in [action : Actions, stage : {"quarantine", "terminate", "commit"}]
      /\ busy'.stage = "commit" /\ busy'.action = b
  BY <1>2 DEF Host!Terminate
<1>6. /\ UNCHANGED <<history, auditValid, config, now, posts, target>>
      /\ UNCHANGED <<history, target>>
      /\ inflight' \subseteq inflight /\ TrueAnswer
  BY DEF execVars, TrueAnswer
<1>7. \A c \in Actions : Proposal(c)' = Proposal(c) /\ target'[c] = target[c]
  BY <1>6, SameJournal
<1>8. /\ EffectsNamed' /\ EffectsReceipted'
      /\ effects' \subseteq Actions \X {"process", "persistence"} \X Nat
      /\ effects \subseteq effects'
  BY <1>1, <1>4, <1>6, SignalNamed
<1>9. Host!HostTypeOK'
  BY <1>3, <1>4, <1>5, <1>8 DEF HostInvariant, Host!HostTypeOK, Host!Idle, Host!NoMutation
<1>10. StagesTrue'
  <2>1. SUFFICES Working(b)'
    BY <1>5 DEF StagesTrue
  <2> QED
    BY <1>2, <1>4, <1>5, <1>7 DEF Working
<1>11. AppliedTrue'
  <2>1. ASSUME NEW c \in Actions, operations[c] = "applied",
               Proposal(c).kind = "terminate_process"
        PROVE  target[c] # 0
    <3>1. Proposed(c)
      BY <2>1, KnownIsProposed
    <3>2. target[c] \in 1..spawned
      BY <2>1, <3>1 DEF HostInvariant, TargetsSeen
    <3> QED
      BY <1>3, <3>2
  <2> QED
    BY <1>4, <1>7, <2>1 DEF HostInvariant, AppliedTrue
<1>12. FileTaken'
  BY <1>4, <1>8 DEF HostInvariant, FileTaken
<1>13. env <= env' /\ spawned <= spawned'
  BY <1>3, <1>4
<1>14. \A c \in Actions : operations'[c] = operations[c]
  BY <1>4
<1> QED
  BY <1>6, <1>8, <1>9, <1>10, <1>11, <1>12, <1>13, <1>14, LabStep

(* The receipt becomes complete, and the waiting caller may be answered.   *)
LEMMA CommitKeeps ==
  ASSUME HostInvariant, HostCommit
  PROVE  HostInvariant'
<1> PICK b : b = busy.action
  OBVIOUS
<1>1. busy # Host!Idle /\ busy.stage = "commit"
  BY DEF HostCommit, Host!Commit, Host!Idle
<1>2. /\ b \in Actions /\ operations[b] = "unknown" /\ Working(b)
      /\ Proposal(b).kind \in HostKinds /\ Has(b, {"execution_dispatched"})
      /\ Proposal(b).kind = "terminate_process" => target[b] \in 1..spawned
  BY <1>1, WorkingFacts
<1>3. /\ operations \in [Actions -> {"none", "rejected", "unknown", "applied"}]
      /\ env \in Nat /\ spawned \in Nat
  BY HostBoundsAssumption DEF HostInvariant, Host!HostTypeOK
<1>4. /\ operations' = [operations EXCEPT ![b] = "applied"]
      /\ lastMutation' = [lastMutation EXCEPT !.result = "applied"]
      /\ busy' = Host!Idle
      /\ UNCHANGED <<env, persistence, compute, spawned, effects>>
  BY DEF HostCommit, Host!Commit
<1>5. /\ operations'[b] = "applied"
      /\ \A c \in Actions : c # b => operations'[c] = operations[c]
      /\ operations' \in [Actions -> {"none", "rejected", "unknown", "applied"}]
  BY <1>2, <1>3, <1>4
<1>6. UNCHANGED <<history, auditValid, config, now, posts, target>>
      /\ inflight' \subseteq inflight
  BY DEF HostCommit
<1>7. TrueAnswer
  BY <1>2, <1>5 DEF HostCommit, TrueAnswer
<1>8. \A c \in Actions : Proposal(c)' = Proposal(c) /\ target'[c] = target[c]
  BY <1>6, SameJournal
<1>9. lastMutation' \in {Host!NoMutation} \cup
        [action : Actions, result : {"unknown", "applied"}]
  <2>1. lastMutation = [action |-> b, result |-> "unknown"]
    BY <1>2 DEF Working
  <2>2. lastMutation' = [action |-> b, result |-> "applied"]
    BY <1>4, <2>1
  <2> QED
    BY <1>2, <2>2
<1>10. Host!HostTypeOK'
  BY <1>4, <1>5, <1>9 DEF HostInvariant, Host!HostTypeOK, Host!Idle, Host!NoMutation
<1>11. EffectsReceipted'
  BY <1>4, <1>5 DEF HostInvariant, EffectsReceipted, Host!HostTypeOK
<1>12. EffectsNamed'
  <2>1. \A e \in effects : e[1] \in Actions
    BY DEF HostInvariant, Host!HostTypeOK
  <2> QED
    BY <1>4, <1>8, <2>1 DEF HostInvariant, EffectsNamed
<1>13. StagesTrue'
  BY <1>4 DEF StagesTrue, Host!Idle
<1>14. AppliedTrue'
  <2>1. SUFFICES ASSUME NEW c \in Actions, operations'[c] = "applied"
                 PROVE  /\ Proposal(c).kind = "terminate_process" => compute # target[c]
                        /\ Proposal(c).kind = "disable_persistence" /\ Proposal(c).env = env =>
                             ~persistence /\ compute = 0
    BY <1>4, <1>8 DEF AppliedTrue
  <2>2. CASE c = b
    BY <1>1, <1>2, <1>3, <2>2 DEF Working
  <2>3. CASE c # b
    BY <1>5, <2>1, <2>3 DEF HostInvariant, AppliedTrue
  <2> QED
    BY <2>2, <2>3
<1>15. FileTaken'
  BY <1>4 DEF HostInvariant, FileTaken
<1>16. \A c \in Actions :
         /\ operations[c] \in {"applied", "rejected"} => operations'[c] = operations[c]
         /\ operations'[c] # operations[c] =>
              /\ Has(c, {"execution_dispatched"})
              /\ operations'[c] \in {"unknown", "applied"} => Proposal(c).kind \in HostKinds
  BY <1>2, <1>5
<1>17. env <= env' /\ spawned <= spawned'
  BY <1>3, <1>4
<1> QED
  BY <1>6, <1>7, <1>10, <1>11, <1>12, <1>13, <1>14, <1>15, <1>16, <1>17, LabStep

(* A step of an operation raises, perhaps after the signal: the lock is    *)
(* free and the receipt stays unknown.                                     *)
LEMMA FailKeeps ==
  ASSUME HostInvariant, Host!Fail, UNCHANGED <<execVars, target>>
  PROVE  HostInvariant'
<1>1. /\ busy # Host!Idle /\ busy' = Host!Idle
      /\ UNCHANGED <<env, persistence, compute, spawned, operations, lastMutation>>
      /\ env' = env /\ spawned' = spawned /\ operations' = operations
  BY DEF Host!Fail
<1>2. /\ UNCHANGED <<history, auditValid, config, now, posts, target>>
      /\ UNCHANGED <<history, target>>
      /\ inflight' \subseteq inflight /\ TrueAnswer
  BY DEF execVars, TrueAnswer
<1>3. \A c \in Actions : Proposal(c)' = Proposal(c) /\ target'[c] = target[c]
  BY <1>2, SameJournal
<1>4. /\ env \in Nat /\ spawned \in Nat
      /\ effects \subseteq Actions \X {"process", "persistence"} \X Nat
  BY HostBoundsAssumption DEF HostInvariant, Host!HostTypeOK
<1>5. /\ EffectsNamed' /\ EffectsReceipted'
      /\ effects' \subseteq Actions \X {"process", "persistence"} \X Nat
      /\ effects \subseteq effects'
  <2>1. CASE UNCHANGED effects
    <3>1. \A e \in effects : e[1] \in Actions
      BY <1>4
    <3> QED
      BY <1>1, <1>3, <1>4, <2>1, <3>1 DEF HostInvariant, EffectsNamed, EffectsReceipted
  <2>2. CASE busy.stage = "terminate" /\ effects' = Host!Signal
    BY <1>1, <1>2, <2>2, SignalNamed
  <2> QED
    BY <2>1, <2>2 DEF Host!Fail
<1>6. Host!HostTypeOK'
  BY <1>1, <1>5 DEF HostInvariant, Host!HostTypeOK, Host!Idle, Host!NoMutation
<1>7. StagesTrue'
  BY <1>1 DEF StagesTrue, Host!Idle
<1>8. AppliedTrue'
  BY <1>1, <1>3 DEF HostInvariant, AppliedTrue
<1>9. FileTaken'
  BY <1>1, <1>5 DEF HostInvariant, FileTaken
<1>10. env <= env' /\ spawned <= spawned' /\ \A c \in Actions : operations'[c] = operations[c]
  BY <1>1, <1>4
<1> QED
  BY <1>2, <1>5, <1>6, <1>7, <1>8, <1>9, <1>10, LabStep

(* The workload is started or ends: a process that was killed for a target *)
(* is never the one that comes back, and none comes back without the file. *)
LEMMA WorkloadKeeps ==
  ASSUME HostInvariant, Host!Supervise \/ Host!WorkloadExits, UNCHANGED <<execVars, target>>
  PROVE  HostInvariant'
<1>1. /\ UNCHANGED <<env, persistence, operations, busy, lastMutation, effects>>
      /\ env' = env /\ operations' = operations /\ busy' = busy /\ effects' = effects
      /\ persistence' = persistence
  BY DEF Host!Supervise, Host!WorkloadExits
<1>2. env \in Nat /\ spawned \in Nat /\ compute \in 0..spawned /\ spawned <= MaxProcess
      /\ MaxProcess \in Nat /\ spawned >= 1
  BY HostBoundsAssumption DEF HostInvariant, Host!HostTypeOK
<1>3. \/ /\ busy = Host!Idle /\ persistence
         /\ spawned' = spawned + 1 /\ compute' = spawned + 1 /\ spawned < MaxProcess
      \/ spawned' = spawned /\ compute' = 0
  BY DEF Host!Supervise, Host!WorkloadExits
<1>4. spawned' \in 1..MaxProcess /\ compute' \in 0..spawned' /\ spawned <= spawned'
      /\ env <= env'
  BY <1>1, <1>2, <1>3
<1>5. /\ UNCHANGED <<history, auditValid, config, now, posts, target>>
      /\ UNCHANGED <<history, target>>
      /\ inflight' \subseteq inflight /\ TrueAnswer
  BY DEF execVars, TrueAnswer
<1>6. \A c \in Actions : Proposal(c)' = Proposal(c) /\ target'[c] = target[c]
  BY <1>5, SameJournal
<1>7. Host!HostTypeOK'
  BY <1>1, <1>4 DEF HostInvariant, Host!HostTypeOK, Host!Idle, Host!NoMutation
<1>8. EffectsReceipted'
  BY <1>1 DEF HostInvariant, EffectsReceipted
<1>9. EffectsNamed'
  <2>1. \A e \in effects : e[1] \in Actions
    BY DEF HostInvariant, Host!HostTypeOK
  <2> QED
    BY <1>1, <1>6, <2>1 DEF HostInvariant, EffectsNamed
<1>10. StagesTrue'
  <2>1. SUFFICES ASSUME NEW b \in Actions, busy # Host!Idle, busy.action = b
                 PROVE  Working(b)'
    BY <1>1 DEF StagesTrue, Host!Idle
  <2>2. Working(b) /\ compute' = 0
    BY <1>3, <2>1 DEF HostInvariant, StagesTrue
  <2>3. Effects(b)' = Effects(b)
    BY <1>1 DEF Effects
  <2> QED
    BY <1>1, <1>6, <2>2, <2>3 DEF Working
<1>11. AppliedTrue'
  <2>1. SUFFICES ASSUME NEW c \in Actions, operations[c] = "applied"
                 PROVE  /\ Proposal(c).kind = "terminate_process" => compute' # target[c]
                        /\ Proposal(c).kind = "disable_persistence" /\ Proposal(c).env = env =>
                             ~persistence /\ compute' = 0
    BY <1>1, <1>6 DEF AppliedTrue
  <2>2. Proposed(c)
    BY <2>1, KnownIsProposed
  <2>3. Proposal(c).kind = "terminate_process" => target[c] \in 1..spawned
    BY <2>2 DEF HostInvariant, TargetsSeen
  <2>4. Proposal(c).kind = "terminate_process" => compute' # target[c]
    BY <1>2, <1>3, <2>3
  <2>5. Proposal(c).kind = "disable_persistence" /\ Proposal(c).env = env => ~persistence
    BY <2>1 DEF HostInvariant, AppliedTrue
  <2> QED
    BY <1>3, <2>4, <2>5
<1>12. FileTaken'
  BY <1>1 DEF HostInvariant, FileTaken
<1>13. \A c \in Actions : operations'[c] = operations[c]
  BY <1>1
<1> QED
  BY <1>4, <1>5, <1>7, <1>8, <1>9, <1>10, <1>11, <1>12, <1>13, LabStep

(* A restart opens an environment nothing is known of yet.                 *)
LEMMA RestartKeeps ==
  ASSUME HostInvariant, Host!Restart, UNCHANGED <<execVars, target>>
  PROVE  HostInvariant'
<1>1. /\ env' = env + 1 /\ env < MaxEnv /\ spawned < MaxProcess /\ persistence' = TRUE
      /\ spawned' = spawned + 1 /\ compute' = spawned + 1 /\ busy' = Host!Idle
      /\ lastMutation' = Host!NoMutation /\ operations' = operations /\ effects' = effects
  BY DEF Host!Restart
<1>2. /\ env \in Nat /\ spawned \in Nat /\ env >= 1 /\ spawned >= 1
      /\ MaxProcess \in Nat /\ MaxEnv \in Nat
  BY HostBoundsAssumption DEF HostInvariant, Host!HostTypeOK
<1>3. /\ spawned' \in 1..MaxProcess /\ compute' \in 0..spawned' /\ spawned <= spawned'
      /\ env <= env' /\ env' \in 1..MaxEnv
  BY <1>1, <1>2
<1>4. /\ UNCHANGED <<history, auditValid, config, now, posts, target>>
      /\ UNCHANGED <<history, target>>
      /\ inflight' \subseteq inflight /\ TrueAnswer
  BY DEF execVars, TrueAnswer
<1>5. \A c \in Actions : Proposal(c)' = Proposal(c) /\ target'[c] = target[c]
  BY <1>4, SameJournal
<1>6. Host!HostTypeOK'
  BY <1>1, <1>3 DEF HostInvariant, Host!HostTypeOK, Host!Idle, Host!NoMutation
<1>7. EffectsReceipted'
  BY <1>1 DEF HostInvariant, EffectsReceipted
<1>8. EffectsNamed'
  <2>1. \A e \in effects : e[1] \in Actions
    BY DEF HostInvariant, Host!HostTypeOK
  <2> QED
    BY <1>1, <1>5, <2>1 DEF HostInvariant, EffectsNamed
<1>9. StagesTrue'
  BY <1>1 DEF StagesTrue, Host!Idle
<1>10. AppliedTrue'
  <2>1. SUFFICES ASSUME NEW c \in Actions, operations[c] = "applied"
                 PROVE  /\ Proposal(c).kind = "terminate_process" => compute' # target[c]
                        /\ Proposal(c).env # env'
    BY <1>1, <1>5 DEF AppliedTrue
  <2>2. Proposed(c) /\ Proposal(c) \in Proposals
    BY <2>1, KnownIsProposed
  <2>3. /\ Proposal(c).env <= env /\ Proposal(c).env \in Nat
        /\ Proposal(c).kind = "terminate_process" => target[c] \in 1..spawned
    BY <2>2 DEF HostInvariant, TargetsSeen, Proposals
  <2> QED
    BY <1>1, <1>2, <2>3
<1>11. FileTaken'
  BY <1>1 DEF FileTaken
<1>12. \A c \in Actions : operations'[c] = operations[c]
  BY <1>1
<1> QED
  BY <1>3, <1>4, <1>6, <1>7, <1>8, <1>9, <1>10, <1>11, <1>12, LabStep

(* A receipt is read.                                                      *)
LEMMA GetKeeps ==
  ASSUME HostInvariant, NEW a \in Actions, HostGet(<<a, "execution">>)
  PROVE  HostInvariant'
<1>1. /\ UNCHANGED hostVars /\ UNCHANGED <<history, target>>
      /\ UNCHANGED <<history, auditValid, config, now, posts, target>>
      /\ inflight' \subseteq inflight
  BY DEF HostGet
<1>2. /\ env' = env /\ spawned' = spawned /\ operations' = operations
      /\ \A b \in Actions : operations'[b] = operations[b]
  BY <1>1 DEF hostVars
<1> PICK r : r = IF operations[a] \in {"applied", "rejected"} THEN operations[a] ELSE "error"
  OBVIOUS
<1>3. Reply("GET", <<a, "execution">>, r)
  <2>1. PICK op : op = <<a, "execution">> /\ op[1] = a
    OBVIOUS
  <2>2. HostGet(op)
    BY <2>1
  <2>3. Reply("GET", op, IF operations[op[1]] \in {"applied", "rejected"}
                           THEN operations[op[1]] ELSE "error")
    BY <2>2 DEF HostGet
  <2> QED
    BY <2>1, <2>3
<1>4. TrueAnswer
  BY <1>2, <1>3 DEF TrueAnswer
<1>5. ExecInvariant'
  <2>1. <<a, "execution">> \in Ops
    BY DEF Ops, Phases
  <2>2. \E verb \in {"POST", "GET"}, op \in Ops,
           answer \in {"applied", "rejected", "error"} : Reply(verb, op, answer)
    BY <1>3, <2>1
  <2>3. ExecInvariant
    BY DEF HostInvariant
  <2> QED
    BY <1>1, <2>2, <2>3, AnswerKeeps
<1>6. AnswersBacked'
  BY <1>1, <1>2, <1>4, AnswersStayBacked
<1>7. TargetsSeen'
  BY <1>1, <1>2, SameJournal DEF HostInvariant, TargetsSeen
<1>8. target' \in [Actions -> Nat]
  BY <1>1 DEF HostInvariant
<1> QED
  BY <1>1, <1>5, <1>6, <1>7, <1>8, SameJournal, JournalStep

-----------------------------------------------------------------------------
(* The theorems about the executor and the laboratory.                     *)

(* Nothing is proposed, known or done at the start.                        *)
LEMMA HostStarts ==
  ASSUME Init
  PROVE  HostInvariant
<1>1. ExecInvariant /\ \A a \in Actions : ~Proposed(a) /\ \A S : ~Has(a, S)
  BY ExecutorStarts DEF Init
<1>2. /\ env = 1 /\ persistence = TRUE /\ compute = 1 /\ spawned = 1
      /\ operations = [a \in Actions |-> "none"] /\ busy = Host!Idle
      /\ lastMutation = Host!NoMutation /\ effects = {}
      /\ target = [a \in Actions |-> 0] /\ call = NoCall
  BY DEF Init, Host!HostInit, ExecInit
<1>3. Host!HostTypeOK /\ target \in [Actions -> Nat]
  BY <1>2, HostBoundsAssumption DEF Host!HostTypeOK, Host!Idle, Host!NoMutation
<1>4. TargetsSeen /\ ReceiptsIntended /\ AnswersBacked
  BY <1>1, <1>2 DEF TargetsSeen, ReceiptsIntended, AnswersBacked
<1>5. EffectsReceipted /\ EffectsNamed /\ StagesTrue /\ AppliedTrue /\ FileTaken
  BY <1>2 DEF EffectsReceipted, EffectsNamed, StagesTrue, AppliedTrue, FileTaken
<1> QED
  BY <1>1, <1>3, <1>4, <1>5 DEF HostInvariant

(* Every step of the executor, the wire and the laboratory keeps it.       *)
LEMMA NextKeepsHost ==
  ASSUME HostInvariant, Next
  PROVE  HostInvariant'
<1>1. ASSUME NEW a \in Actions, HostPost(<<a, "execution">>)
      PROVE  HostInvariant'
  <2> PICK op : op = <<a, "execution">>
    OBVIOUS
  <2>1. op[1] = a /\ HostPost(op)
    BY <1>1
  <2>2. Host!Begin(a, Request(a))
    <3>1. Host!Begin(op[1], Request(op[1]))
      BY <2>1 DEF HostPost
    <3> QED
      BY <2>1, <3>1
  <2>3. /\ UNCHANGED <<history, auditValid, config, now, posts, target>>
        /\ inflight' \subseteq inflight
    BY <2>1 DEF HostPost
  <2>4. Has(a, {"execution_dispatched"})
    <3>1. <<a, "execution">> \in inflight
      BY <2>1 DEF HostPost
    <3>2. Has(a, {Dispatched["execution"]})
      BY <3>1 DEF HostInvariant, ExecInvariant, SentAfterIntent, Phases
    <3> QED
      BY <3>2 DEF Dispatched
  <2>5. TrueAnswer
    <3>1. \/ UNCHANGED call
          \/ operations'[a] \in {"applied", "rejected"}
             /\ Reply("POST", op, operations'[a])
      BY <2>1 DEF HostPost
    <3> QED
      BY <3>1 DEF TrueAnswer
  <2> QED
    BY <2>2, <2>3, <2>4, <2>5, BeginKeeps
<1>2. CASE HostInternal
  BY <1>2, QuarantineKeeps, TerminateKeeps, FailKeeps, WorkloadKeeps, RestartKeeps
  DEF HostInternal
<1>3. CASE HandlerStep /\ UNCHANGED <<hostVars, target>>
  BY <1>3, HandlersKeepHost
<1> QED
  BY <1>1, <1>2, <1>3, ProposalKeepsHost, CommitKeeps, GetKeeps DEF Next

(* So does a step that changes nothing.                                    *)
LEMMA StutterKeepsHost ==
  ASSUME HostInvariant, UNCHANGED vars
  PROVE  HostInvariant'
<1>1. /\ UNCHANGED <<hostVars, target>> /\ UNCHANGED hostVars /\ UNCHANGED call
      /\ UNCHANGED <<history, auditValid, config, now, posts, target>>
      /\ UNCHANGED <<history, target>> /\ inflight' \subseteq inflight
  BY DEF vars
<1>2. /\ env' = env /\ spawned' = spawned /\ operations' = operations
      /\ \A b \in Actions : operations'[b] = operations[b]
  BY <1>1 DEF hostVars
<1>3. ExecInvariant'
  BY <1>1, AnswerKeeps DEF HostInvariant
<1>4. AnswersBacked'
  BY <1>1, <1>2, AnswersStayBacked DEF TrueAnswer
<1>5. TargetsSeen' /\ target' \in [Actions -> Nat]
  BY <1>1, <1>2, SameJournal DEF HostInvariant, TargetsSeen
<1> QED
  BY <1>1, <1>3, <1>4, <1>5, SameJournal, JournalStep

(* The invariant of the executor wired to the process laboratory.          *)
THEOREM HostInvariantHolds == Spec => []HostInvariant
<1>1. Init => HostInvariant
  BY HostStarts
<1>2. HostInvariant /\ [Next]_vars => HostInvariant'
  BY NextKeepsHost, StutterKeepsHost
<1> QED
  BY <1>1, <1>2, PTL DEF Spec

(* Type correctness of the executor and the process laboratory.            *)
THEOREM HostTypeCorrect == Spec => []TypeOK
<1>1. HostInvariant => TypeOK
  BY DEF HostInvariant, ExecInvariant, TypeOK
<1> QED
  BY <1>1, HostInvariantHolds, PTL

(* What an operation did to the host, and what is on its way there, was    *)
(* approved for this proposal, by an approval that had not expired.        *)
THEOREM HostEffectsApproved == Spec => []ApprovedBeforeEffect
<1>1. ASSUME HostInvariant PROVE ApprovedBeforeEffect
  <2>1. SUFFICES ASSUME NEW a \in Actions,
                        Effects(a) # {} \/ <<a, "execution">> \in inflight
                 PROVE  Has(a, {"execution_dispatched"})
    BY <1>1 DEF ApprovedBeforeEffect, Has, HostInvariant, ExecInvariant, IntentsApproved
  <2>2. CASE Effects(a) # {}
    <3>1. operations[a] \in {"unknown", "applied"}
      BY <1>1, <2>2 DEF HostInvariant, EffectsReceipted, Effects
    <3> QED
      BY <1>1, <3>1, KnownIsProposed
  <2>3. CASE <<a, "execution">> \in inflight
    <3>1. Has(a, {Dispatched["execution"]})
      BY <1>1, <2>3 DEF HostInvariant, ExecInvariant, SentAfterIntent, Phases
    <3> QED
      BY <3>1 DEF Dispatched
  <2> QED
    BY <2>1, <2>2, <2>3
<1> QED
  BY <1>1, HostInvariantHolds, PTL

(* Over all crashes, restarts, retries and late arrivals an action kills   *)
(* at most one process and quarantines at most one file, the ones named.   *)
THEOREM HostEffectsOnTarget == Spec => []OneEffectOnTheTarget
<1>1. ASSUME HostInvariant PROVE OneEffectOnTheTarget
  <2>1. ASSUME NEW a \in Actions, NEW what \in {"process", "persistence"}
        PROVE  Cardinality({e \in Effects(a) : e[2] = what}) <= 1
    <3> PICK E : E = {e \in Effects(a) : e[2] = what}
      OBVIOUS
    <3>1. \A e, f \in E : e = f
      BY <1>1 DEF HostInvariant, EffectsNamed, Effects
    <3>2. CASE E = {}
      <4>1. Cardinality(E) = 0
        BY <3>2, FS_EmptySet
      <4> QED
        BY <4>1
    <3>3. CASE E # {}
      <4>1. PICK e : e \in E
        BY <3>3
      <4>2. E = {e}
        BY <3>1, <4>1
      <4>3. Cardinality(E) = 1
        BY <4>2, FS_Singleton
      <4> QED
        BY <4>3
    <3> QED
      BY <3>2, <3>3
  <2>2. \A a \in Actions : \A e \in Effects(a) :
          /\ Proposal(a).kind = "terminate_process" => e = <<a, "process", target[a]>>
          /\ e[2] = "persistence" => e[3] = Proposal(a).env
    BY <1>1 DEF HostInvariant, EffectsNamed, Effects
  <2> QED
    BY <2>1, <2>2 DEF OneEffectOnTheTarget
<1> QED
  BY <1>1, HostInvariantHolds, PTL

(* What the journal says is executed is true and stays true, and what it   *)
(* says is rejected never touched the host.                                *)
THEOREM HostOutcomesTrue == Spec => []OutcomesAreTrue
<1>1. ASSUME HostInvariant PROVE OutcomesAreTrue
  <2>1. SUFFICES ASSUME NEW a \in Actions
                 PROVE
      /\ Has(a, {"executed"}) /\ Proposal(a).kind = "terminate_process" =>
           compute # target[a]
      /\ Has(a, {"executed"}) /\ Proposal(a).kind = "disable_persistence"
         /\ Proposal(a).env = env => ~persistence /\ compute = 0
      /\ Has(a, {"execution_rejected"}) => Effects(a) = {}
    BY DEF OutcomesAreTrue
  <2>2. Has(a, {"executed"}) /\ Proposal(a).kind \in HostKinds => operations[a] = "applied"
    BY <1>1 DEF HostInvariant, AnswersBacked
  <2>3. Has(a, {"execution_rejected"}) => Effects(a) = {}
    BY <1>1 DEF HostInvariant, AnswersBacked, EffectsReceipted, Effects
  <2> QED
    BY <1>1, <2>2, <2>3 DEF HostInvariant, AppliedTrue, HostKinds
<1> QED
  BY <1>1, HostInvariantHolds, PTL

(* A half-done operation is never recorded as done.                        *)
THEOREM HostHalfDoneOpen == Spec => []HalfDoneStaysOpen
<1>1. ASSUME HostInvariant PROVE HalfDoneStaysOpen
  <2>1. SUFFICES ASSUME NEW a \in Actions, operations[a] = "unknown",
                        Has(a, {"executed", "execution_rejected"})
                 PROVE  FALSE
    BY DEF HalfDoneStaysOpen
  <2>2. Has(a, {"executed"}) \/ Has(a, {"execution_rejected"})
    BY <2>1 DEF Has
  <2> QED
    BY <1>1, <2>1, <2>2 DEF HostInvariant, AnswersBacked, ReceiptsIntended
<1> QED
  BY <1>1, HostInvariantHolds, PTL

-----------------------------------------------------------------------------
(* The recovery check.                                                     *)

(* What the laboratory has done or recorded, a step of the system keeps:   *)
(* the effects, the complete receipts, and a file that is gone with the    *)
(* workload, for as long as the environment exists.                        *)
LEMMA NextKeepsEvidence ==
  ASSUME HostInvariant, Next
  PROVE  /\ effects \subseteq effects'
         /\ \A a \in Actions : Has(a, {"executed"}) =>
              Has(a, {"executed"})' /\ Proposal(a)' = Proposal(a)
         /\ env' # env => env' > env
         /\ ~persistence /\ compute = 0 /\ env' = env => ~persistence' /\ compute' = 0
<1>1. UNCHANGED history \/ (\E a \in Actions, e \in Records : Record(a, e))
  <2>1. ASSUME NEW a \in Actions, NEW key \in Keys, NEW kind \in Kinds,
               ProposeTarget(a, key, kind)
        PROVE  \E e \in Records : Record(a, e)
    <3> PICK e : e = [status |-> "pending_approval", key |-> key, kind |-> kind,
                      mode |-> config.mode, url |-> config.url,
                      env |-> IF config.mode \in LabModes THEN env ELSE 0]
      OBVIOUS
    <3>1. config \in [mode : Modes, url : STRING] /\ env \in Nat
      BY ConfigsAssumption, HostBoundsAssumption
      DEF HostInvariant, ExecInvariant, ExecTypeOK, Host!HostTypeOK
    <3>2. e \in Records
      BY <3>1 DEF Records, Proposals
    <3>3. Record(a, e)
      BY <2>1 DEF ProposeTarget, Propose
    <3> QED
      BY <3>2, <3>3
  <2>2. CASE HandlerStep
    BY <2>2, HandlerAppends DEF HostInvariant, ExecInvariant
  <2> QED
    BY <2>1, <2>2 DEF Next, HostPost, HostGet, HostCommit, HostInternal, execVars
<1>2. \A a \in Actions : Has(a, {"executed"}) =>
        Has(a, {"executed"})' /\ Proposal(a)' = Proposal(a)
  <2>1. ASSUME NEW a \in Actions, Has(a, {"executed"})
        PROVE  Has(a, {"executed"})' /\ Proposal(a)' = Proposal(a)
    <3>1. Proposed(a) /\ history \in [Actions -> Seq(Records)]
      BY <2>1, RecordedIsProposed DEF HostInvariant, ExecInvariant, ExecTypeOK
    <3>2. CASE UNCHANGED history
      BY <2>1, <3>2 DEF Has, Proposal
    <3>3. CASE \E b \in Actions, e \in Records : Record(b, e)
      BY <2>1, <3>1, <3>3, HasAfterRecord, ProposalAfterRecord
    <3> QED
      BY <1>1, <3>2, <3>3
  <2> QED
    BY <2>1
<1>3. env \in Nat
  BY HostBoundsAssumption DEF HostInvariant, Host!HostTypeOK
<1>4. \/ UNCHANGED hostVars
      \/ \E a \in Actions : Host!Begin(a, Request(a))
      \/ Host!Quarantine \/ Host!Terminate \/ Host!Fail \/ Host!Commit
      \/ Host!Supervise \/ Host!WorkloadExits \/ Host!Restart
  <2>1. ASSUME NEW a \in Actions, HostPost(<<a, "execution">>)
        PROVE  Host!Begin(a, Request(a))
    <3> PICK op : op = <<a, "execution">>
      OBVIOUS
    <3>1. op[1] = a /\ HostPost(op)
      BY <2>1
    <3>2. Host!Begin(op[1], Request(op[1]))
      BY <3>1 DEF HostPost
    <3> QED
      BY <3>1, <3>2
  <2> QED
    BY <2>1 DEF Next, ProposeTarget, HostGet, HostCommit, HostInternal, hostVars
<1>5. /\ effects \subseteq effects'
      /\ env' = env \/ env' = env + 1
      /\ ~persistence /\ compute = 0 /\ env' = env => ~persistence' /\ compute' = 0
  BY <1>3, <1>4
  DEF hostVars, Host!hostVars, Host!Begin, Host!Quarantine, Host!Terminate, Host!Fail,
      Host!Commit, Host!Supervise, Host!WorkloadExits, Host!Restart, Host!Signal
<1> QED
  BY <1>2, <1>3, <1>5

CheckedInvariant == HostInvariant /\ CheckTrue

(* A verification in progress stays true while everything goes on.         *)
LEMMA NextKeepsCheck ==
  ASSUME CheckedInvariant, Next, UNCHANGED check
  PROVE  CheckedInvariant'
<1>1. HostInvariant'
  BY NextKeepsHost DEF CheckedInvariant
<1>2. /\ effects \subseteq effects'
      /\ \A a \in Actions : Has(a, {"executed"}) =>
           Has(a, {"executed"})' /\ Proposal(a)' = Proposal(a)
      /\ env' # env => env' > env
      /\ ~persistence /\ compute = 0 /\ env' = env => ~persistence' /\ compute' = 0
  BY NextKeepsEvidence DEF CheckedInvariant
<1>3. ASSUME NEW a \in Actions, check # NoCheck, check.action = a
      PROVE  Judged(a)'
  <2>1. Judged(a)
    BY <1>3 DEF CheckedInvariant, CheckTrue
  <2>2. Has(a, {"executed"})' /\ Proposal(a)' = Proposal(a) /\ Proposed(a)
    BY <1>2, <2>1, RecordedIsProposed DEF Judged, CheckedInvariant, HostInvariant
  <2>3. check.env <= env /\ env \in Nat /\ check.env \in Nat
    <3>1. Proposal(a) \in Proposals /\ Proposal(a).env <= env /\ check.env = Proposal(a).env
      BY <2>1, <2>2
      DEF Judged, CheckedInvariant, HostInvariant, ExecInvariant, ProposalsFirst, TargetsSeen
    <3> QED
      BY <3>1, HostBoundsAssumption
      DEF CheckedInvariant, HostInvariant, Host!HostTypeOK, Proposals
  <2>4. check.env = env' => env' = env
    <3>1. env' \in Nat
      BY <1>1, HostBoundsAssumption DEF HostInvariant, Host!HostTypeOK
    <3> QED
      BY <1>2, <2>3, <3>1
  <2> QED
    BY <1>2, <2>1, <2>2, <2>4 DEF Judged
<1> QED
  BY <1>1, <1>3 DEF CheckedInvariant, CheckTrue, NoCheck

(* The gateway begins a check of an executed host action.                  *)
LEMMA ReadActiveKeeps ==
  ASSUME CheckedInvariant, NEW a \in Actions, ReadActive(a), UNCHANGED vars
  PROVE  CheckTrue'
<1> PICK c : c = [stage |-> "observing", action |-> a, env |-> Proposal(a).env,
                  seen |-> 0, clean |-> TRUE]
  OBVIOUS
<1>1. check' = c /\ Active(a) /\ Proposal(a).mode = "host_lab" /\ Proposed(a)
  BY DEF ReadActive
<1>2. c \in Checks
  BY <1>1 DEF Checks, Snapshots, CheckedInvariant, HostInvariant, ExecInvariant, ProposalsFirst,
              Proposals
<1>3. c.action = a /\ c.env = Proposal(a).env /\ c.seen = 0 /\ c.clean /\ c.stage = "observing"
  OBVIOUS
<1>4. Has(a, {"executed"})' /\ Proposal(a)' = Proposal(a)
  <2>1. Has(a, {"executed"})
    BY <1>1 DEF Active, Has
  <2> QED
    BY <2>1 DEF vars, Has, Proposal
<1>5. Judged(a)'
  BY <1>1, <1>3, <1>4 DEF Judged
<1> QED
  BY <1>1, <1>2, <1>3, <1>5 DEF CheckTrue

(* A snapshot that is not clean is of an action that leaves the file; one  *)
(* that is clean stays so for as long as the environment exists.           *)
LEMMA SnapshotKeeps ==
  ASSUME CheckedInvariant, TakeSnapshot, UNCHANGED vars
  PROVE  CheckTrue'
<1>1. check \in Checks /\ check.seen < Snapshots /\ check.stage = "observing"
      /\ env = check.env
  BY DEF TakeSnapshot, InScope, CheckedInvariant, CheckTrue, NoCheck
<1> PICK a : a = check.action
  OBVIOUS
<1>2. a \in Actions /\ Judged(a)
  BY <1>1 DEF CheckedInvariant, CheckTrue, Checks, NoCheck
<1> PICK good \in BOOLEAN : good <=> ~persistence /\ compute = 0
  OBVIOUS
<1> PICK c : c = [check EXCEPT !.seen = @ + 1, !.clean = @ /\ ~persistence /\ compute = 0]
  OBVIOUS
<1>3. /\ c.action = a /\ c.env = check.env /\ c.seen = check.seen + 1 /\ c.stage = "observing"
      /\ check.seen \in 0..2
  BY <1>1 DEF Checks, Snapshots
<1>4. c.clean \in BOOLEAN /\ (c.clean <=> check.clean /\ good)
  BY <1>1, Zenon DEF Checks
<1>5. c \in Checks
  <2>1. DOMAIN check = {"stage", "action", "env", "seen", "clean"}
    BY <1>1 DEF Checks
  <2>2. c = [stage |-> c.stage, action |-> c.action, env |-> c.env, seen |-> c.seen,
             clean |-> c.clean]
    BY <2>1
  <2>3. c.env \in Nat /\ c.action \in Actions /\ c.seen \in 0..Snapshots
    BY <1>1, <1>2, <1>3 DEF Checks, Snapshots
  <2> QED
    BY <1>3, <1>4, <2>2, <2>3 DEF Checks
<1>6. check' = c
  BY DEF TakeSnapshot
<1>7. Has(a, {"executed"})' /\ Proposal(a)' = Proposal(a)
  BY <1>2 DEF Judged, vars, Has, Proposal
<1>8. Proposal(a).kind = "terminate_process" \/ good
  <2>1. Has(a, {"executed"}) /\ Proposal(a).mode = "host_lab" /\ Proposal(a).env = env
    BY <1>1, <1>2 DEF Judged
  <2>2. Proposed(a)
    BY <1>2, <2>1, RecordedIsProposed DEF CheckedInvariant, HostInvariant
  <2>3. Proposal(a).kind \in HostKinds
    BY <1>2, <2>1, <2>2 DEF CheckedInvariant, HostInvariant, ExecInvariant, ProposalsFirst
  <2>4. operations[a] = "applied"
    BY <1>2, <2>1, <2>3 DEF CheckedInvariant, HostInvariant, AnswersBacked
  <2> QED
    BY <1>2, <2>1, <2>3, <2>4 DEF CheckedInvariant, HostInvariant, AppliedTrue, HostKinds
<1>9. good => \E b \in Actions : <<b, "persistence", check.env>> \in effects
  BY <1>1 DEF CheckedInvariant, HostInvariant, FileTaken
<1>10. UNCHANGED <<env, persistence, compute, effects>>
  BY DEF vars, hostVars
<1>11. Judged(a)'
  <2>1. ~c.clean => Proposal(a).kind = "terminate_process"
    BY <1>2, <1>4, <1>8 DEF Judged
  <2>2. c.clean => good
    BY <1>4
  <2> QED
    BY <1>2, <1>3, <1>6, <1>7, <1>9, <1>10, <2>1, <2>2 DEF Judged
<1> QED
  BY <1>2, <1>3, <1>5, <1>6, <1>11 DEF CheckTrue

(* The check ends, with a verdict on what it saw or without one.           *)
LEMMA VerdictKeeps ==
  ASSUME CheckedInvariant, Conclude \/ GiveUp, UNCHANGED vars
  PROVE  CheckTrue'
<1>1. check \in Checks /\ check.stage = "observing"
  BY DEF Conclude, GiveUp, CheckedInvariant, CheckTrue, NoCheck
<1> PICK a : a = check.action
  OBVIOUS
<1>2. a \in Actions /\ Judged(a) /\ check.clean \in BOOLEAN
  BY <1>1 DEF CheckedInvariant, CheckTrue, Checks, NoCheck
<1>3. PICK stage : /\ check' = [check EXCEPT !.stage = stage]
                   /\ stage \in {"verified", "failed", "inconclusive"}
                   /\ stage = "verified" => check.clean /\ check.seen = Snapshots
                   /\ stage = "failed" => ~check.clean
  <2>1. CASE GiveUp
    BY <2>1 DEF GiveUp
  <2>2. CASE Conclude
    <3>1. CASE check.clean
      BY <2>2, <3>1 DEF Conclude
    <3>2. CASE ~check.clean
      BY <2>2, <3>2 DEF Conclude
    <3> QED
      BY <3>1, <3>2
  <2> QED
    BY <2>1, <2>2
<1>4. /\ check' \in Checks /\ check'.action = a /\ check'.env = check.env
      /\ check'.seen = check.seen /\ check'.clean = check.clean /\ check'.stage = stage
  BY <1>1, <1>3 DEF Checks
<1>5. Has(a, {"executed"})' /\ Proposal(a)' = Proposal(a)
  BY <1>2 DEF Judged, vars, Has, Proposal
<1>6. UNCHANGED <<env, persistence, compute, effects>>
  BY DEF vars, hostVars
<1>7. Judged(a)'
  BY <1>2, <1>3, <1>4, <1>5, <1>6 DEF Judged
<1> QED
  BY <1>4, <1>7 DEF CheckTrue

(* Nothing happens.                                                        *)
LEMMA CheckStays ==
  ASSUME CheckedInvariant, UNCHANGED vars, check' = check
  PROVE  CheckedInvariant'
<1>1. HostInvariant'
  BY StutterKeepsHost DEF CheckedInvariant
<1>2. UNCHANGED <<history, env, persistence, compute, effects>>
  BY DEF vars, hostVars
<1>3. CheckTrue'
  BY <1>2 DEF CheckedInvariant, CheckTrue, Judged, Has, Proposal, NoCheck
<1> QED
  BY <1>1, <1>3 DEF CheckedInvariant

(* A step of the verification, or of everything else.                      *)
LEMMA VerifyNextKeeps ==
  ASSUME CheckedInvariant, VerifyNext
  PROVE  CheckedInvariant'
<1>1. ASSUME VerifyStep PROVE CheckedInvariant'
  <2>1. UNCHANGED vars /\ HostInvariant'
    BY <1>1, StutterKeepsHost DEF VerifyStep, CheckedInvariant
  <2>2. CheckTrue'
    BY <1>1, <2>1, ReadActiveKeeps, SnapshotKeeps, VerdictKeeps DEF VerifyStep
  <2> QED
    BY <2>1, <2>2 DEF CheckedInvariant
<1> QED
  BY <1>1, NextKeepsCheck DEF VerifyNext

(* The invariant of a verification while everything else goes on.          *)
THEOREM CheckedInvariantHolds == VerifySpec => []CheckedInvariant
<1>1. VerifyInit => CheckedInvariant
  BY HostStarts DEF VerifyInit, CheckedInvariant, CheckTrue
<1>2. CheckedInvariant /\ [VerifyNext]_allVars => CheckedInvariant'
  BY VerifyNextKeeps, CheckStays DEF allVars
<1> QED
  BY <1>1, <1>2, PTL DEF VerifySpec

(* What the check says is true, either way: verified means recovered for   *)
(* as long as the environment exists, failed means a residue was left.     *)
THEOREM HostVerdictsTrue == VerifySpec => []VerdictsAreTrue
<1>1. ASSUME CheckedInvariant, check # NoCheck PROVE VerdictsAreTrue
  <2>1. PICK a \in Actions : a = check.action /\ Judged(a)
    BY <1>1 DEF CheckedInvariant, CheckTrue, Checks
  <2>2. FailedIsResidual
    BY <2>1 DEF FailedIsResidual, Judged
  <2>3. ASSUME check.stage = "verified"
        PROVE  /\ operations[a] = "applied"
               /\ \E b \in Actions : <<b, "persistence", check.env>> \in effects
               /\ check.env = env => ~persistence /\ compute = 0
    <3>1. check.clean /\ check.seen > 0
      BY <2>1, <2>3 DEF Judged, Snapshots
    <3>2. Has(a, {"executed"}) /\ Proposal(a).mode = "host_lab"
      BY <2>1 DEF Judged
    <3>3. Proposed(a)
      BY <1>1, <3>2, RecordedIsProposed DEF CheckedInvariant, HostInvariant
    <3>4. Proposal(a).kind \in HostKinds
      BY <1>1, <3>2, <3>3 DEF CheckedInvariant, HostInvariant, ExecInvariant, ProposalsFirst
    <3>5. operations[a] = "applied"
      BY <1>1, <3>2, <3>4 DEF CheckedInvariant, HostInvariant, AnswersBacked
    <3> QED
      BY <2>1, <3>1, <3>5 DEF Judged
  <2> QED
    BY <2>1, <2>2, <2>3 DEF VerdictsAreTrue, VerifiedIsRecovered
<1>2. ASSUME check = NoCheck PROVE VerdictsAreTrue
  BY <1>2 DEF NoCheck, VerdictsAreTrue, VerifiedIsRecovered, FailedIsResidual
<1>3. CheckedInvariant => VerdictsAreTrue
  BY <1>1, <1>2
<1> QED
  BY <1>3, CheckedInvariantHolds, PTL

-----------------------------------------------------------------------------
(* The live run: what it shows when it passes, however its services, the   *)
(* laboratory and its supervisor interleave and whatever fails.            *)

(* Either the script is the only client of its services, or nobody runs it *)
(* and anybody calls them.                                                 *)
LiveVars == <<allVars, live>>
LiveNext == LiveScript \/ LiveWorld \/ (~Driven /\ VerifyNext /\ UNCHANGED live)
LiveSpec == VerifyInit /\ live \in {NoLive, LiveStart} /\ [][LiveNext]_LiveVars

-----------------------------------------------------------------------------
(* The inductive invariant.                                                *)
BeforeProposal == {"collect", "investigate", "recollect", "plan", "propose"}
Underway == {"unapproved", "approve", "execute", "executing", "verify", "verifying"}
Ending == {"export", "passed"}

LiveRecords ==
  [step : BeforeProposal \cup Underway \cup Ending \cup {"failed"}, round : {1, 2},
   seen : Nat, file : BOOLEAN, kind : HostKinds \cup {"none"},
   action : Actions \cup {"none"}, first : Nat]

(* Processes are seen in the order they were started in.                   *)
SeenInOrder ==
  /\ compute \in {0, spawned}
  /\ live.seen <= spawned /\ live.first <= spawned
  /\ live.seen = 0 \/ live.first <= live.seen
  /\ live.step = "propose" => live.seen # 0 /\ live.kind \in HostKinds

(* The first round stops the process it saw.                               *)
RoundOne ==
  live.round = 1 =>
    /\ live.step = "propose" => live.kind = "terminate_process" /\ live.seen = live.first
    /\ live.step \in Underway => target[live.action] = live.first
    /\ live.step \notin Ending

(* In the second it was stopped, and before anything else is proposed      *)
(* another has been seen.                                                  *)
RoundTwo ==
  live.round = 2 =>
    /\ \E a \in Actions : Has(a, {"executed"}) /\ target[a] = live.first
    /\ live.step \in AfterPlan => spawned > live.first

(* Only the action of the second round may remove the cause.               *)
OneCure ==
  \A a \in Actions : Proposed(a) =>
    /\ Proposal(a).env = env
    /\ Proposal(a).kind = "disable_persistence" =>
         live.round = 2 /\ live.action = a /\ live.step \notin BeforeProposal

(* What the script works on, checks, and has cured in the end.             *)
OwnAction ==
  /\ live.step \in Underway \cup Ending => live.action \in Actions /\ Proposed(live.action)
  /\ live.step = "verifying" => check # NoCheck /\ check.action = live.action
  /\ live.step \in Ending =>
       /\ Has(live.action, {"executed"})
       /\ Proposal(live.action).kind = "disable_persistence"

RunTrue ==
  live \in LiveRecords /\ SeenInOrder /\ RoundOne /\ RoundTwo /\ OneCure /\ OwnAction

LiveInvariant == CheckedInvariant /\ (Driven => RunTrue)

-----------------------------------------------------------------------------
(* What every step of a run keeps: the environment, the journal's past,    *)
(* and that what runs is the process started last.                         *)
Kept ==
  /\ env' = env /\ spawned <= spawned' /\ compute' \in {0, spawned'}
  /\ \A a \in Actions : Proposed(a) =>
       Proposed(a)' /\ Proposal(a)' = Proposal(a) /\ target'[a] = target[a]
  /\ \A a \in Actions : Has(a, {"executed"}) => Has(a, {"executed"})'

NothingProposed == \A a \in Actions : Proposed(a)' => Proposed(a)

(* A step of the script, or a reading of the check, changes nothing else.  *)
LEMMA QuietKeeps ==
  ASSUME LiveInvariant, Driven, UNCHANGED vars
  PROVE  Kept /\ NothingProposed /\ HostInvariant'
<1>1. UNCHANGED <<history, target, env, spawned, compute>>
  BY DEF vars, hostVars
<1>2. HostInvariant'
  BY StutterKeepsHost DEF LiveInvariant, CheckedInvariant
<1>3. spawned \in Nat /\ compute \in {0, spawned}
  BY HostBoundsAssumption
  DEF LiveInvariant, RunTrue, SeenInOrder, CheckedInvariant, HostInvariant, Host!HostTypeOK
<1> QED
  BY <1>1, <1>2, <1>3 DEF Kept, NothingProposed, Proposed, Proposal, Has

(* A handler of the executor appends to the journal and no more.           *)
LEMMA HandlerKeepsRun ==
  ASSUME LiveInvariant, Driven, HandlerStep, UNCHANGED <<hostVars, target, check>>
  PROVE  Kept /\ NothingProposed /\ CheckedInvariant'
<1>1. Next
  BY DEF Next
<1>2. CheckedInvariant'
  BY <1>1, NextKeepsCheck DEF LiveInvariant
<1>3. ExecTypeOK /\ SentAfterIntent /\ history \in [Actions -> Seq(Records)]
  BY DEF LiveInvariant, CheckedInvariant, HostInvariant, ExecInvariant, ExecTypeOK
<1>4. \/ UNCHANGED history
      \/ \E a \in Actions, e \in Records : Record(a, e) /\ Proposed(a)
  BY <1>3, HandlerAppends
<1>5. \A a \in Actions : /\ Proposed(a)' <=> Proposed(a)
                         /\ Proposed(a) => Proposal(a)' = Proposal(a)
                         /\ Has(a, {"executed"}) => Has(a, {"executed"})'
  <2>1. CASE UNCHANGED history
    BY <2>1 DEF Proposed, Proposal, Has
  <2>2. ASSUME NEW a \in Actions, NEW e \in Records, Record(a, e), Proposed(a), NEW b \in Actions
        PROVE  /\ Proposed(b)' <=> Proposed(b)
               /\ Proposed(b) => Proposal(b)' = Proposal(b)
               /\ Has(b, {"executed"}) => Has(b, {"executed"})'
    BY <1>3, <2>2, ProposalAfterRecord, HasAfterRecord
  <2> QED
    BY <1>4, <2>1, <2>2
<1>6. UNCHANGED <<target, env, spawned, compute>>
  BY DEF hostVars
<1>7. spawned \in Nat /\ compute \in {0, spawned}
  BY HostBoundsAssumption
  DEF LiveInvariant, RunTrue, SeenInOrder, CheckedInvariant, HostInvariant, Host!HostTypeOK
<1> QED
  BY <1>2, <1>5, <1>6, <1>7 DEF Kept, NothingProposed

(* The laboratory, which nobody restarts, leaves the journal as it is.     *)
LEMMA LabKeepsRun ==
  ASSUME LiveInvariant, Driven, UNCHANGED check,
         \/ \E a \in Actions : HostPost(<<a, "execution">>)
         \/ HostCommit
         \/ HostInternal /\ env' = env
  PROVE  Kept /\ NothingProposed /\ CheckedInvariant'
<1>1. Next
  BY DEF Next
<1>2. CheckedInvariant'
  BY <1>1, NextKeepsCheck DEF LiveInvariant
<1>3. UNCHANGED <<history, target>>
  BY DEF HostPost, HostCommit, HostInternal, execVars
<1>4. spawned \in Nat /\ compute \in {0, spawned} /\ env \in Nat
  BY HostBoundsAssumption
  DEF LiveInvariant, RunTrue, SeenInOrder, CheckedInvariant, HostInvariant, Host!HostTypeOK
<1>5. \/ \E a \in Actions : Host!Begin(a, Request(a))
      \/ Host!Quarantine \/ Host!Terminate \/ Host!Fail \/ Host!Commit
      \/ Host!Supervise \/ Host!WorkloadExits \/ Host!Restart
  <2>1. ASSUME NEW a \in Actions, HostPost(<<a, "execution">>)
        PROVE  Host!Begin(a, Request(a))
    <3> PICK op : op = <<a, "execution">>
      OBVIOUS
    <3>1. op[1] = a /\ HostPost(op)
      BY <2>1
    <3>2. Host!Begin(op[1], Request(op[1]))
      BY <3>1 DEF HostPost
    <3> QED
      BY <3>1, <3>2
  <2> QED
    BY <2>1 DEF HostCommit, HostInternal
<1>6. /\ env' = env \/ env' = env + 1
      /\ env' = env => spawned <= spawned' /\ compute' \in {0, spawned'}
  BY <1>4, <1>5
  DEF Host!hostVars, Host!Begin, Host!Quarantine, Host!Terminate, Host!Fail,
      Host!Commit, Host!Supervise, Host!WorkloadExits, Host!Restart
<1>7. env' = env
  <2>1. ASSUME \/ \E a \in Actions : HostPost(<<a, "execution">>)
               \/ HostCommit
        PROVE  env' = env
    <3>1. ASSUME NEW a \in Actions, HostPost(<<a, "execution">>)
          PROVE  env' = env
      <4> PICK op : op = <<a, "execution">>
        OBVIOUS
      <4>1. HostPost(op)
        BY <3>1
      <4> QED
        BY <4>1 DEF HostPost, Host!Begin, Host!hostVars
    <3> QED
      BY <2>1, <3>1 DEF HostCommit, Host!Commit
  <2> QED
    BY <2>1
<1> QED
  BY <1>2, <1>3, <1>6, <1>7 DEF Kept, NothingProposed, Proposed, Proposal, Has

(* A step that moves the script on, or leaves it, without proposing.       *)
LEMMA RunGoesOn ==
  ASSUME LiveInvariant, Driven, Kept, NothingProposed, CheckedInvariant',
         live' \in LiveRecords, live'.round = live.round, live'.seen = live.seen,
         live'.kind = live.kind, live'.action = live.action, live'.first = live.first,
         live'.step = "propose" => live.step = "propose",
         live'.step \in AfterPlan => live.step \in AfterPlan,
         live'.step \in BeforeProposal => live.step \in BeforeProposal,
         live'.step \in Underway => live.step \in Underway,
         live'.step \in Ending => live.step \in Ending,
         live'.step = "verifying" => check' # NoCheck /\ check'.action = live.action
  PROVE  LiveInvariant'
<1>1. /\ live \in LiveRecords /\ SeenInOrder /\ RoundOne /\ RoundTwo /\ OneCure /\ OwnAction
  BY DEF LiveInvariant, RunTrue
<1>2. /\ spawned \in Nat /\ spawned' \in Nat /\ spawned <= spawned'
      /\ live.seen \in Nat /\ live.first \in Nat
  BY <1>1, HostBoundsAssumption
  DEF LiveInvariant, CheckedInvariant, HostInvariant, Host!HostTypeOK, Kept, LiveRecords
<1>3. SeenInOrder'
  BY <1>1, <1>2 DEF SeenInOrder, Kept
<1>4. \A a \in Actions : Has(a, {"executed"}) =>
        Has(a, {"executed"})' /\ Proposed(a) /\ target'[a] = target[a]
              /\ Proposal(a)' = Proposal(a)
  BY RecordedIsProposed DEF LiveInvariant, CheckedInvariant, HostInvariant, Kept
<1>5. RoundTwo'
  BY <1>1, <1>2, <1>4 DEF RoundTwo
<1>6. OneCure'
  BY <1>1 DEF OneCure, Kept, NothingProposed
<1>7. live'.step \in Underway \cup Ending =>
        /\ live.action \in Actions /\ Proposed(live.action) /\ Proposed(live.action)'
        /\ target'[live.action] = target[live.action]
  BY <1>1 DEF OwnAction, Kept
<1>8. RoundOne'
  BY <1>1, <1>7 DEF RoundOne, Underway
<1>9. OwnAction'
  <2> PICK a : a = live.action
    OBVIOUS
  <2>1. live'.action = a
    OBVIOUS
  <2>2. live'.step \in Underway \cup Ending => a \in Actions /\ Proposed(a)'
    BY <1>7
  <2>3. live'.step \in Ending =>
          Has(a, {"executed"})' /\ Proposal(a)'.kind = "disable_persistence"
    BY <1>1, <1>4, <1>7 DEF OwnAction
  <2> QED
    BY <2>1, <2>2, <2>3 DEF OwnAction
<1> QED
  BY <1>1, <1>3, <1>5, <1>6, <1>8, <1>9 DEF LiveInvariant, RunTrue

(* The services and the laboratory go on between the script's calls.       *)
LEMMA WorldKeepsRun ==
  ASSUME LiveInvariant, LiveWorld
  PROVE  LiveInvariant'
<1>1. Driven /\ live' = live
  BY DEF LiveWorld
<1>2. live \in LiveRecords /\ OwnAction /\ CheckTrue
  BY <1>1 DEF LiveInvariant, RunTrue, CheckedInvariant
<1>3. \/ HandlerStep /\ UNCHANGED <<hostVars, target, check>>
      \/ /\ \/ \E a \in Actions : HostPost(<<a, "execution">>)
            \/ HostCommit
            \/ HostInternal /\ env' = env
         /\ UNCHANGED check
      \/ (TakeSnapshot \/ Conclude \/ GiveUp) /\ UNCHANGED vars
  BY DEF LiveWorld, HandlerStep
<1>4. /\ Kept /\ NothingProposed /\ CheckedInvariant'
      /\ check # NoCheck => check' # NoCheck /\ check'.action = check.action
  <2>1. CASE HandlerStep /\ UNCHANGED <<hostVars, target, check>>
    BY <1>1, <2>1, HandlerKeepsRun
  <2>2. CASE /\ \/ \E a \in Actions : HostPost(<<a, "execution">>)
                \/ HostCommit
                \/ HostInternal /\ env' = env
             /\ UNCHANGED check
    BY <1>1, <2>2, LabKeepsRun
  <2>3. CASE (TakeSnapshot \/ Conclude \/ GiveUp) /\ UNCHANGED vars
    <3>1. Kept /\ NothingProposed /\ HostInvariant'
      BY <1>1, <2>3, QuietKeeps
    <3>2. CheckTrue'
      BY <2>3, SnapshotKeeps, VerdictKeeps DEF LiveInvariant
    <3>3. check # NoCheck => check' # NoCheck /\ check'.action = check.action
      <4>1. SUFFICES ASSUME check # NoCheck
                     PROVE  check' # NoCheck /\ check'.action = check.action
        OBVIOUS
      <4>2. check \in Checks
        BY <1>2, <4>1 DEF CheckTrue
      <4>3. check'.action = check.action /\ check'.stage # "none"
        BY <2>3, <4>2 DEF TakeSnapshot, Conclude, GiveUp, Checks
      <4> QED
        BY <4>3 DEF NoCheck
    <3> QED
      BY <3>1, <3>2, <3>3 DEF CheckedInvariant
  <2> QED
    BY <1>3, <2>1, <2>2, <2>3
<1> QED
  BY <1>1, <1>2, <1>4, RunGoesOn DEF OwnAction

(* One step of the script that moves on only.                              *)
LEMMA ThenKeeps ==
  ASSUME LiveInvariant, Driven, Kept, NothingProposed, CheckedInvariant',
         NEW s \in BeforeProposal \cup Underway \cup Ending \cup {"failed"}, Then(s),
         s = "propose" => live.step = "propose",
         s \in AfterPlan => live.step \in AfterPlan,
         s \in BeforeProposal => live.step \in BeforeProposal,
         s \in Underway => live.step \in Underway,
         s \in Ending => live.step \in Ending,
         s = "verifying" => check' # NoCheck /\ check'.action = live.action
  PROVE  LiveInvariant'
<1>1. live \in LiveRecords /\ live' = [live EXCEPT !.step = s]
  BY DEF LiveInvariant, RunTrue, Then
<1>2. /\ live' \in LiveRecords /\ live'.step = s /\ live'.round = live.round
      /\ live'.seen = live.seen /\ live'.kind = live.kind /\ live'.action = live.action
      /\ live'.first = live.first
  BY <1>1 DEF LiveRecords
<1> QED
  BY <1>2, RunGoesOn

(* The script collects: the process it sees is the one started last.       *)
LEMMA CollectKeeps ==
  ASSUME LiveInvariant, LiveCollect
  PROVE  LiveInvariant'
<1>1. /\ Driven /\ live.step \in {"collect", "recollect"} /\ UNCHANGED vars /\ check' = check
  BY DEF LiveCollect, Doing, allVars
<1>2. Kept /\ NothingProposed /\ HostInvariant'
  BY <1>1, QuietKeeps
<1>3. /\ live \in LiveRecords /\ SeenInOrder /\ RoundOne /\ RoundTwo /\ OneCure /\ OwnAction
  BY <1>1 DEF LiveInvariant, RunTrue
<1>4. PICK next \in {"investigate", "plan"} :
        live' = [live EXCEPT !.step = next, !.seen = compute, !.file = persistence]
  BY DEF LiveCollect
<1>5. /\ compute \in Nat /\ spawned \in Nat /\ persistence \in BOOLEAN
      /\ compute' = compute /\ spawned' = spawned /\ target' = target
  BY <1>1, HostBoundsAssumption
  DEF LiveInvariant, CheckedInvariant, HostInvariant, Host!HostTypeOK, vars, hostVars
<1>6. /\ live' \in LiveRecords /\ live'.step = next /\ live'.seen = compute
      /\ live'.round = live.round /\ live'.kind = live.kind
      /\ live'.action = live.action /\ live'.first = live.first /\ live.first \in Nat
  BY <1>3, <1>4, <1>5 DEF LiveRecords, BeforeProposal
<1>7. SeenInOrder'
  BY <1>3, <1>5, <1>6 DEF SeenInOrder
<1>8. RoundOne' /\ OwnAction'
  BY <1>6 DEF RoundOne, OwnAction, Underway, Ending
<1>9. RoundTwo'
  BY <1>2, <1>3, <1>5, <1>6 DEF RoundTwo, Kept, AfterPlan
<1>10. OneCure'
  BY <1>1, <1>2, <1>3, <1>6 DEF OneCure, Kept, NothingProposed, BeforeProposal
<1>11. CheckedInvariant'
  BY <1>1, <1>2, CheckStays DEF LiveInvariant
<1> QED
  BY <1>6, <1>7, <1>8, <1>9, <1>10, <1>11 DEF LiveInvariant, RunTrue

(* It plans; in the second round only when another process is seen.        *)
LEMMA PlanKeeps ==
  ASSUME LiveInvariant, NEW kind \in HostKinds, LivePlan(kind)
  PROVE  LiveInvariant'
<1>1. /\ Driven /\ live.step = "plan" /\ UNCHANGED vars /\ check' = check
      /\ Allowed(kind)
  BY DEF LivePlan, Doing, allVars
<1>2. Kept /\ NothingProposed /\ HostInvariant'
  BY <1>1, QuietKeeps
<1>3. /\ live \in LiveRecords /\ SeenInOrder /\ RoundOne /\ RoundTwo /\ OneCure /\ OwnAction
  BY <1>1 DEF LiveInvariant, RunTrue
<1>4. PICK first, s :
        /\ live' = [live EXCEPT !.kind = kind, !.first = first, !.step = s]
        /\ first = IF live.round = 1 THEN live.seen ELSE live.first
        /\ s = IF live.round = 1 \/ Recurred THEN "propose" ELSE "failed"
  BY <1>3 DEF LivePlan, LiveRecords
<1>5. /\ compute' = compute /\ spawned' = spawned /\ target' = target /\ spawned \in Nat
      /\ compute \in Nat
  BY <1>1, HostBoundsAssumption
  DEF LiveInvariant, CheckedInvariant, HostInvariant, Host!HostTypeOK, vars, hostVars
<1>6. /\ live' \in LiveRecords /\ live'.step = s /\ live'.seen = live.seen
      /\ live'.round = live.round /\ live'.kind = kind
      /\ live'.action = live.action /\ live'.first = first
      /\ live.first \in Nat /\ live.seen \in Nat /\ first \in Nat /\ s \in {"propose", "failed"}
      /\ live.round \in {1, 2}
  BY <1>3, <1>4 DEF LiveRecords, BeforeProposal
<1>7. s = "propose" => live.seen # 0
  BY <1>1, <1>4, <1>6 DEF Allowed, Recurred
<1>8. SeenInOrder'
  BY <1>3, <1>4, <1>5, <1>6, <1>7 DEF SeenInOrder
<1>9. RoundOne'
  BY <1>1, <1>4, <1>6 DEF RoundOne, Underway, Ending, Allowed
<1>10. OwnAction'
  BY <1>6 DEF OwnAction, Underway, Ending
<1>11. RoundTwo'
  BY <1>2, <1>3, <1>4, <1>5, <1>6 DEF RoundTwo, Kept, AfterPlan, Recurred, SeenInOrder
<1>12. OneCure'
  BY <1>1, <1>2, <1>3, <1>6 DEF OneCure, Kept, NothingProposed, BeforeProposal
<1>13. CheckedInvariant'
  BY <1>1, <1>2, CheckStays DEF LiveInvariant
<1> QED
  BY <1>6, <1>8, <1>9, <1>10, <1>11, <1>12, <1>13 DEF LiveInvariant, RunTrue

(* It proposes what it planned, of what it saw.                            *)
LEMMA ProposeKeeps ==
  ASSUME LiveInvariant, NEW a \in Actions, NEW key \in Keys, LivePropose(a, key)
  PROVE  LiveInvariant'
<1>1. /\ Driven /\ live.step = "propose" /\ check' = check /\ UNCHANGED hostVars
      /\ Propose(a, key, live.kind, env)
      /\ target' = [target EXCEPT ![a] = IF live.kind = "terminate_process"
                                         THEN live.seen ELSE env]
      /\ live' = [live EXCEPT !.step = "unapproved", !.action = a]
  BY DEF LivePropose, Doing
<1>2. /\ live \in LiveRecords /\ SeenInOrder /\ RoundOne /\ RoundTwo /\ OneCure /\ OwnAction
      /\ HostInvariant
  BY <1>1 DEF LiveInvariant, RunTrue, CheckedInvariant
<1>3. /\ live' \in LiveRecords /\ live'.step = "unapproved" /\ live'.seen = live.seen
      /\ live'.round = live.round /\ live'.kind = live.kind
      /\ live'.action = a /\ live'.first = live.first
      /\ live.first \in Nat /\ live.seen \in Nat /\ live.round \in {1, 2}
  BY <1>1, <1>2 DEF LiveRecords, Underway
<1>4. /\ env \in Nat \ {0} /\ spawned \in Nat /\ target \in [Actions -> Nat]
      /\ env' = env /\ spawned' = spawned /\ compute' = compute
      /\ history \in [Actions -> Seq(Records)]
      /\ config \in [mode : Modes, url : STRING]
  BY <1>1, <1>2, HostBoundsAssumption, ConfigsAssumption
  DEF HostInvariant, Host!HostTypeOK, hostVars, ExecInvariant, ExecTypeOK
<1>5. live.kind \in HostKinds /\ live.seen \in 1..spawned
  BY <1>1, <1>2, <1>3, <1>4 DEF SeenInOrder
<1>6. ProposeTarget(a, key, live.kind)
  <2> PICK t : t = IF live.kind = "terminate_process" THEN live.seen ELSE env
    OBVIOUS
  <2>1. t \in Observed(live.kind)
    BY <1>4, <1>5 DEF Observed
  <2> QED
    BY <1>1, <2>1 DEF ProposeTarget
<1>7. CheckedInvariant'
  <2>1. live.kind \in Kinds
    BY <1>5 DEF Kinds
  <2>2. Next
    BY <1>6, <2>1 DEF Next
  <2> QED
    BY <1>1, <2>2, NextKeepsCheck DEF LiveInvariant
<1>8. PICK e : e = [status |-> "pending_approval", key |-> key, kind |-> live.kind,
                    mode |-> config.mode, url |-> config.url,
                    env |-> IF config.mode \in LabModes THEN env ELSE 0]
  OBVIOUS
<1>9. /\ Record(a, e) /\ ~Proposed(a) /\ e \in Records /\ e.kind = live.kind /\ e.env = env
  <2>1. Record(a, e) /\ ~Proposed(a) /\ config.mode = "host_lab"
    BY <1>1, <1>5, <1>8 DEF Propose
  <2>2. e.kind = live.kind /\ e.env = env
    BY <1>8, <2>1 DEF LabModes
  <2>3. e \in Records
    BY <1>4, <1>5, <1>8 DEF Records, Proposals, Kinds
  <2> QED
    BY <2>1, <2>2, <2>3
<1>10. /\ \A b \in Actions : Proposed(b)' <=> Proposed(b) \/ b = a
       /\ \A b \in Actions : Proposed(b) => Proposal(b)' = Proposal(b)
       /\ Proposal(a)'.kind = live.kind /\ Proposal(a)'.env = env
       /\ \A b \in Actions : Has(b, {"executed"}) => Has(b, {"executed"})'
  BY <1>4, <1>9, ProposalAfterRecord, HasAfterRecord
<1>11. /\ \A b \in Actions : b # a => target'[b] = target[b]
       /\ target'[a] = IF live.kind = "terminate_process" THEN live.seen ELSE env
  BY <1>1, <1>4
<1>12. SeenInOrder'
  BY <1>2, <1>3, <1>4 DEF SeenInOrder
<1>13. RoundOne'
  BY <1>1, <1>2, <1>3, <1>11 DEF RoundOne, Ending
<1>14. RoundTwo'
  <2>1. ASSUME NEW b \in Actions, Has(b, {"executed"}), target[b] = live.first
        PROVE  Has(b, {"executed"})' /\ target'[b] = live.first
    <3>1. Proposed(b)
      BY <1>2, <2>1, RecordedIsProposed DEF HostInvariant
    <3> QED
      BY <1>9, <1>10, <1>11, <2>1, <3>1
  <2> QED
    BY <1>1, <1>2, <1>3, <1>4, <2>1 DEF RoundTwo, AfterPlan
<1>15. OneCure'
  <2>1. ASSUME NEW b \in Actions, Proposed(b)'
        PROVE  /\ Proposal(b)'.env = env
               /\ Proposal(b)'.kind = "disable_persistence" => live.round = 2 /\ b = a
    <3>1. CASE b = a
      BY <1>1, <1>2, <1>3, <1>10, <3>1 DEF RoundOne
    <3>2. CASE b # a
      BY <1>1, <1>2, <1>10, <2>1, <3>2 DEF OneCure, BeforeProposal
    <3> QED
      BY <3>1, <3>2
  <2> QED
    BY <1>3, <1>4, <2>1 DEF OneCure, BeforeProposal
<1>16. OwnAction'
  BY <1>3, <1>10 DEF OwnAction, Ending
<1> QED
  BY <1>3, <1>7, <1>12, <1>13, <1>14, <1>15, <1>16 DEF LiveInvariant, RunTrue

(* A verdict on the way to the second round, or to the end.                *)
LEMMA VerdictMovesOn ==
  ASSUME LiveInvariant, LiveVerdict
  PROVE  LiveInvariant'
<1>1. /\ Driven /\ live.step = "verifying" /\ check.stage # "observing"
      /\ check' = NoCheck /\ UNCHANGED vars
  BY DEF LiveVerdict, Doing
<1>2. Kept /\ NothingProposed /\ HostInvariant'
  BY <1>1, QuietKeeps
<1>3. CheckedInvariant'
  BY <1>1, <1>2 DEF CheckedInvariant, CheckTrue
<1>4. /\ live \in LiveRecords /\ SeenInOrder /\ RoundOne /\ RoundTwo /\ OneCure /\ OwnAction
      /\ HostInvariant /\ CheckTrue
  BY <1>1 DEF LiveInvariant, RunTrue, CheckedInvariant
<1>5. PICK a \in Actions : a = live.action
  BY <1>1, <1>4 DEF OwnAction, Underway
<1>6. /\ check # NoCheck /\ check.action = a /\ Proposed(a) /\ Judged(a)
      /\ Has(a, {"executed"})
  BY <1>1, <1>4, <1>5 DEF OwnAction, Underway, CheckTrue, Judged
<1>7. CASE live.round = 1 /\ live' = [live EXCEPT !.step = "collect", !.round = 2]
  <2>1. /\ live' \in LiveRecords /\ live'.step = "collect" /\ live'.seen = live.seen
        /\ live'.round = 2 /\ live'.kind = live.kind
        /\ live'.action = live.action /\ live'.first = live.first
    BY <1>4, <1>7 DEF LiveRecords, BeforeProposal
  <2>2. SeenInOrder'
    BY <1>1, <1>4, <2>1 DEF SeenInOrder, vars, hostVars
  <2>3. RoundOne' /\ OwnAction'
    BY <2>1 DEF RoundOne, OwnAction, Underway, Ending
  <2>4. RoundTwo'
    <3>1. target[a] = live.first
      BY <1>1, <1>4, <1>5, <1>7 DEF RoundOne, Underway
    <3>2. Has(a, {"executed"})' /\ target'[a] = live.first
      BY <1>2, <1>6, <3>1 DEF Kept
    <3> QED
      BY <2>1, <3>2 DEF RoundTwo, AfterPlan
  <2>5. OneCure'
    BY <1>2, <1>4, <1>7, <2>1 DEF OneCure, Kept, NothingProposed
  <2> QED
    BY <1>3, <2>1, <2>2, <2>3, <2>4, <2>5 DEF LiveInvariant, RunTrue
<1>8. CASE live.round = 2 /\ check.stage = "verified" /\ Then("export")
  <2>1. /\ live' \in LiveRecords /\ live'.step = "export" /\ live'.seen = live.seen
        /\ live'.round = 2 /\ live'.kind = live.kind
        /\ live'.action = a /\ live'.first = live.first
    BY <1>4, <1>5, <1>8 DEF LiveRecords, Ending, Then
  <2>2. SeenInOrder'
    BY <1>1, <1>4, <2>1 DEF SeenInOrder, vars, hostVars
  <2>3. Proposal(a).kind = "disable_persistence"
    <3>1. check.seen > 0 /\ check.clean
      BY <1>6, <1>8 DEF Judged, Snapshots
    <3>2. PICK b \in Actions : <<b, "persistence", check.env>> \in effects
      BY <1>6, <3>1 DEF Judged
    <3> PICK e : e = <<b, "persistence", check.env>>
      OBVIOUS
    <3>3. e \in effects /\ e[1] = b /\ e[2] = "persistence"
      BY <3>2
    <3>4. operations[b] \in {"unknown", "applied"} /\ Proposal(b).kind # "terminate_process"
      BY <1>4, <3>3 DEF HostInvariant, EffectsReceipted, EffectsNamed
    <3>5. Proposed(b) /\ Proposal(b).kind = "disable_persistence"
      BY <1>4, <3>4, KnownIsProposed DEF HostInvariant, ReceiptsIntended, HostKinds
    <3> QED
      BY <1>4, <1>5, <3>5 DEF OneCure
  <2>4. OwnAction'
    BY <1>2, <1>6, <2>1, <2>3 DEF OwnAction, Kept, Underway
  <2>5. RoundTwo'
    BY <1>1, <1>2, <1>4, <1>8, <2>1, RecordedIsProposed
    DEF RoundTwo, AfterPlan, vars, hostVars, Kept, HostInvariant
  <2>6. OneCure'
    BY <1>2, <1>4, <1>5, <1>8, <2>1 DEF OneCure, Kept, NothingProposed, BeforeProposal
  <2>7. RoundOne'
    BY <2>1 DEF RoundOne
  <2> QED
    BY <1>3, <2>1, <2>2, <2>4, <2>5, <2>6, <2>7 DEF LiveInvariant, RunTrue
<1>9. CASE Then("failed")
  BY <1>1, <1>2, <1>3, <1>9, ThenKeeps
  DEF LiveInvariant, AfterPlan, BeforeProposal, Underway, Ending
<1> QED
  BY <1>7, <1>8, <1>9 DEF LiveVerdict

(* The remaining steps of the script.                                      *)
LEMMA ScriptKeepsRun ==
  ASSUME LiveInvariant, LiveScript
  PROVE  LiveInvariant'
<1> USE DEF Doing
<1>1. ASSUME Driven, UNCHANGED allVars
      PROVE  Kept /\ NothingProposed /\ CheckedInvariant' /\ check' = check
  BY <1>1, QuietKeeps, CheckStays DEF allVars, LiveInvariant
<1>2. CASE LiveInvestigate
  BY <1>1, <1>2, ThenKeeps
  DEF LiveInvestigate, AfterPlan, BeforeProposal, Underway, Ending
<1>3. CASE LiveUnapproved
  <2>1. PICK s \in {"approve", "failed"} : Then(s)
    BY <1>3 DEF LiveUnapproved, Check
  <2> QED
    BY <1>1, <1>3, <2>1, ThenKeeps
    DEF LiveUnapproved, AfterPlan, BeforeProposal, Underway, Ending
<1>4. ASSUME NEW m \in Minutes, LiveApprove(m)
      PROVE  LiveInvariant'
  <2>1. /\ Driven /\ live.step = "approve" /\ Then("execute") /\ HandlerStep
        /\ UNCHANGED <<hostVars, target, check>>
    <3>1. live.action \in Actions
      BY <1>4 DEF LiveApprove, LiveInvariant, RunTrue, OwnAction, Underway
    <3> QED
      BY <1>4, <3>1 DEF LiveApprove, HandlerStep
  <2>2. Kept /\ NothingProposed /\ CheckedInvariant'
    BY <2>1, HandlerKeepsRun
  <2> QED
    BY <2>1, <2>2, ThenKeeps DEF AfterPlan, BeforeProposal, Underway, Ending
<1>5. CASE LiveExecute
  <2>1. /\ Driven /\ live.step = "execute" /\ Then("executing") /\ HandlerStep
        /\ UNCHANGED <<hostVars, target, check>>
    <3>1. live.action \in Actions
      BY <1>5 DEF LiveExecute, LiveInvariant, RunTrue, OwnAction, Underway
    <3> QED
      BY <1>5, <3>1 DEF LiveExecute, HandlerStep
  <2>2. Kept /\ NothingProposed /\ CheckedInvariant'
    BY <2>1, HandlerKeepsRun
  <2> QED
    BY <2>1, <2>2, ThenKeeps DEF AfterPlan, BeforeProposal, Underway, Ending
<1>6. CASE LiveExecuted
  <2>1. PICK s \in {"verify", "failed"} : Then(s)
    BY <1>6 DEF LiveExecuted, Check
  <2> QED
    BY <1>1, <1>6, <2>1, ThenKeeps
    DEF LiveExecuted, AfterPlan, BeforeProposal, Underway, Ending
<1>7. CASE LiveVerify
  <2>1. /\ Driven /\ live.step = "verify" /\ Then("verifying") /\ UNCHANGED vars
        /\ ReadActive(live.action)
    BY <1>7 DEF LiveVerify
  <2>2. live.action \in Actions
    BY <2>1 DEF LiveInvariant, RunTrue, OwnAction, Underway
  <2>3. Kept /\ NothingProposed /\ HostInvariant'
    BY <2>1, QuietKeeps
  <2>4. CheckTrue'
    BY <2>1, <2>2, ReadActiveKeeps DEF LiveInvariant
  <2>5. check' # NoCheck /\ check'.action = live.action
    BY <2>1 DEF ReadActive, NoCheck
  <2> QED
    BY <2>1, <2>3, <2>4, <2>5, ThenKeeps
    DEF AfterPlan, BeforeProposal, Underway, Ending, CheckedInvariant
<1>8. CASE LiveExport
  <2>1. PICK s \in {"passed", "failed"} : Then(s)
    BY <1>8 DEF LiveExport, Check
  <2> QED
    BY <1>1, <1>8, <2>1, ThenKeeps
    DEF LiveExport, AfterPlan, BeforeProposal, Underway, Ending
<1>9. CASE LiveAborts
  BY <1>1, <1>9, ThenKeeps
  DEF LiveAborts, AfterPlan, BeforeProposal, Underway, Ending
<1> QED
  BY <1>2, <1>3, <1>4, <1>5, <1>6, <1>7, <1>8, <1>9, CollectKeeps, PlanKeeps, ProposeKeeps,
     VerdictMovesOn DEF LiveScript

(* The invariant of a run, and of the services when nobody runs it.        *)
THEOREM LiveInvariantHolds == LiveSpec => []LiveInvariant
<1>1. ASSUME VerifyInit, live \in {NoLive, LiveStart} PROVE LiveInvariant
  <2>1. CheckedInvariant
    BY <1>1, HostStarts DEF VerifyInit, CheckedInvariant, CheckTrue
  <2>2. ASSUME live = LiveStart PROVE RunTrue
    <3>1. /\ live \in LiveRecords /\ live.step = "collect" /\ live.round = 1
          /\ live.seen = 0 /\ live.first = 0
      BY <2>2 DEF LiveStart, LiveRecords, BeforeProposal
    <3>2. compute = 1 /\ spawned = 1 /\ \A a \in Actions : ~Proposed(a)
      BY <1>1, ExecutorStarts DEF VerifyInit, Init, Host!HostInit
    <3> QED
      BY <3>1, <3>2 DEF RunTrue, SeenInOrder, RoundOne, RoundTwo, OneCure, OwnAction,
                        Underway, Ending
  <2> QED
    BY <1>1, <2>1, <2>2 DEF LiveInvariant, Driven
<1>2. ASSUME LiveInvariant, ~Driven, VerifyNext, UNCHANGED live PROVE LiveInvariant'
  BY <1>2, VerifyNextKeeps DEF LiveInvariant, Driven
<1>3. ASSUME LiveInvariant, UNCHANGED LiveVars PROVE LiveInvariant'
  <2>1. live' = live /\ UNCHANGED vars /\ check' = check /\ CheckedInvariant'
    BY <1>3, CheckStays DEF LiveVars, allVars, LiveInvariant
  <2>2. CASE Driven
    <3>1. live \in LiveRecords /\ OwnAction
      BY <1>3, <2>2 DEF LiveInvariant, RunTrue
    <3>2. Kept /\ NothingProposed
      BY <1>3, <2>1, <2>2, QuietKeeps
    <3> QED
      BY <1>3, <2>1, <2>2, <3>1, <3>2, RunGoesOn DEF OwnAction
  <2>3. CASE ~Driven
    BY <2>1, <2>3 DEF LiveInvariant, Driven
  <2> QED
    BY <2>2, <2>3
<1>4. LiveInvariant /\ [LiveNext]_LiveVars => LiveInvariant'
  BY <1>2, <1>3, ScriptKeepsRun, WorldKeepsRun DEF LiveNext
<1> QED
  BY <1>1, <1>4, PTL DEF LiveSpec

(* A second action is only proposed when the first was executed and the    *)
(* workload is back as another process; and a run that has passed ends     *)
(* with the cause removed, the workload gone, and both for good.           *)
THEOREM LiveRunShowsRecovery == LiveSpec => []RunShowsRecovery
<1>1. ASSUME LiveInvariant PROVE RunShowsRecovery
  <2>1. CASE ~Driven
    BY <2>1 DEF RunShowsRecovery, Doing
  <2>2. CASE Driven
    <3>1. /\ live \in LiveRecords /\ RoundTwo /\ OneCure /\ OwnAction /\ HostInvariant
      BY <1>1, <2>2 DEF LiveInvariant, RunTrue, CheckedInvariant
    <3>2. ASSUME live.step = "passed"
          PROVE  /\ ~persistence /\ compute = 0
                 /\ operations[live.action] = "applied"
                 /\ Proposal(live.action).kind = "disable_persistence"
      <4>1. PICK a \in Actions : a = live.action
        BY <3>1, <3>2 DEF OwnAction, Ending
      <4>2. /\ Has(a, {"executed"}) /\ Proposed(a) /\ Proposal(a).kind = "disable_persistence"
            /\ Proposal(a).env = env
        BY <3>1, <3>2, <4>1 DEF OwnAction, OneCure, Ending
      <4>3. operations[a] = "applied"
        BY <3>1, <4>2 DEF HostInvariant, AnswersBacked, HostKinds
      <4> QED
        BY <3>1, <4>1, <4>2, <4>3 DEF HostInvariant, AppliedTrue
    <3> QED
      BY <3>1, <3>2 DEF RunShowsRecovery, RoundTwo, Doing
  <2> QED
    BY <2>1, <2>2
<1> QED
  BY <1>1, LiveInvariantHolds, PTL
=============================================================================
