-------------------------- MODULE ModelGuardProofs --------------------------
(***************************************************************************)
(* Theorems about the model guard, for every set of requests and roles and *)
(* for all limits, reservations and reports of usage.                      *)
(***************************************************************************)
EXTENDS ModelGuard, FiniteSetTheorems, TLAPS

-----------------------------------------------------------------------------
(* The inductive invariant.                                                *)

(* How far a thread has got tells what its row and the provider know.      *)
ThreadTells ==
  \A r \in Requests :
    /\ request[r].status = "absent"  => thread[r] = "idle"
    /\ request[r].status \in {"absent", "pending"} => forwards[r] = 0
    /\ thread[r] \in {"admitted", "dispatching"} => request[r].status = "pending"
    /\ thread[r] = "forwarding" =>
         request[r].status = "dispatched" /\ forwards[r] = 0
    /\ thread[r] = "waiting"  => request[r].status = "dispatched"
    /\ thread[r] = "answered" => request[r].status = "settled"
    /\ forwards[r] \in {0, 1}

(* A run with an orphan is dead: nothing is prepared, executed or armed.   *)
OrphanedRunIsDead ==
  orphans # {} =>
    /\ ~armed
    /\ stateLock # "arming"
    /\ preparing = NoRequest
    /\ \A r \in Requests : thread[r] = "idle"
    /\ orphans \subseteq Unsettled

IInv == TypeOK /\ ThreadTells /\ OrphanedRunIsDead

-----------------------------------------------------------------------------
(* Types.                                                                  *)

(* The types hold at the start.                                            *)
LEMMA InitialTypes == Init => TypeOK
<1> SUFFICES ASSUME Init
             PROVE  TypeOK
  OBVIOUS
<1>1. Absent \in [status : Statuses, usage : Tokens]
  BY DEF Absent, Statuses, Nothing, Tokens
<1>2. LedgerTypeOK
  BY <1>1 DEF Init, LedgerInit, LedgerTypeOK
<1> QED
  BY <1>2 DEF Init, TypeOK, ThreadSteps

(* The four transactions that write the ledger keep its type.              *)
LEMMA LedgerTypes ==
  ASSUME LedgerTypeOK, NEW r \in Requests,
         \/ Reserve(r) \/ BeginDispatch(r) \/ MarkUnknown(r) \/ CloseRun
         \/ \E usage \in Usages : Settle(r, usage)
  PROVE  LedgerTypeOK'
<1> USE DEF LedgerTypeOK, Statuses
<1>1. CASE Reserve(r)
  <2>1. Pending \in [status : Statuses, usage : Tokens]
    BY DEF Pending, Nothing, Tokens
  <2> QED
    BY <1>1, <2>1 DEF Reserve
<1>2. CASE BeginDispatch(r)
  BY <1>2 DEF BeginDispatch
<1>3. CASE MarkUnknown(r)
  BY <1>3 DEF MarkUnknown
<1>4. CASE CloseRun
  BY <1>4 DEF CloseRun
<1>5. CASE \E usage \in Usages : Settle(r, usage)
  BY <1>5, LedgerAssumption DEF Settle
<1> QED
  BY <1>1, <1>2, <1>3, <1>4, <1>5

(* Every step keeps the types.                                             *)
LEMMA TypesPreserved ==
  ASSUME TypeOK, [Next]_vars
  PROVE  TypeOK'
<1> USE DEF TypeOK, ThreadSteps, GoTo
<1>1. ASSUME NEW r \in Requests, PrepareCheck(r)
      PROVE  TypeOK'
  BY <1>1 DEF PrepareCheck, ledgerVars, LedgerTypeOK
<1>2. CASE PrepareReserve
  <2>1. preparing \in Requests /\ LedgerTypeOK'
    BY <1>2, LedgerTypes DEF PrepareReserve
  <2> QED
    BY <1>2, <2>1 DEF PrepareReserve
<1>3. CASE PrepareRefuse
  BY <1>3 DEF PrepareRefuse, ledgerVars, LedgerTypeOK
<1>4. CASE PrepareClose
  <2>1. LedgerTypeOK'
    BY <1>4, LedgerTypes DEF PrepareClose
  <2> QED
    BY <1>4, <2>1 DEF PrepareClose
<1>5. ASSUME NEW r \in Requests, ThreadStep(r)
      PROVE  TypeOK'
  <2>1. CASE TakeLock(r) \/ RefuseDispatch(r) \/ Forward(r) \/ Deliver(r)
             \/ TraceFails(r) \/ CallFails(r) \/ Disarm(r)
    <3>1. CASE TakeLock(r)
      BY <3>1 DEF TakeLock, ledgerVars, LedgerTypeOK
    <3>2. CASE Forward(r)
      BY <3>2 DEF Forward, ledgerVars, LedgerTypeOK
    <3>3. CASE RefuseDispatch(r) \/ Deliver(r) \/ TraceFails(r)
               \/ CallFails(r) \/ Disarm(r)
      BY <3>3 DEF RefuseDispatch, Deliver, TraceFails, CallFails, Disarm,
                  ledgerVars, LedgerTypeOK
    <3> QED
      BY <2>1, <3>1, <3>2, <3>3
  <2>2. CASE CommitDispatch(r)
    BY <2>2, LedgerTypes DEF CommitDispatch
  <2>3. CASE SettleUsage(r)
    BY <2>3, LedgerTypes DEF SettleUsage
  <2>4. CASE Account(r)
    <3>1. LedgerTypeOK'
      BY <2>4, LedgerTypes DEF Account, ledgerVars, LedgerTypeOK
    <3> QED
      BY <2>4, <3>1 DEF Account
  <2>5. CASE CloseFailed(r)
    <3>1. LedgerTypeOK'
      BY <2>5, LedgerTypes DEF CloseFailed, ledgerVars, LedgerTypeOK
    <3> QED
      BY <2>5, <3>1 DEF CloseFailed
  <2> QED
    BY <1>5, <2>1, <2>2, <2>3, <2>4, <2>5 DEF ThreadStep, RunningThread
<1>6. CASE ArmRead \/ ArmCommit \/ CloseDisarm
  BY <1>6 DEF ArmRead, ArmCommit, CloseDisarm, ledgerVars, LedgerTypeOK
<1>7. CASE CloseCommit
  <2>1. LedgerTypeOK'
    BY <1>7 DEF CloseCommit, CloseRun, ledgerVars, LedgerTypeOK
  <2> QED
    BY <1>7, <2>1 DEF CloseCommit
<1>8. CASE Restart
  BY <1>8 DEF Restart, ledgerVars, LedgerTypeOK, Unsettled, Recorded
<1>9. CASE UNCHANGED vars
  BY <1>9 DEF vars, ledgerVars, guardVars, LedgerTypeOK
<1> QED
  BY <1>1, <1>2, <1>3, <1>4, <1>5, <1>6, <1>7, <1>8, <1>9
  DEF Next, EventLoop, Operator

(* The type invariant of the guard and of its ledger.                      *)
THEOREM TypeCorrect == Spec => []TypeOK
<1> QED
  BY InitialTypes, TypesPreserved, PTL DEF Spec

-----------------------------------------------------------------------------
(* One lemma per part of the invariant.                                    *)

(* Every step keeps how far a thread has got in step with its row.         *)
LEMMA ThreadTellsPreserved ==
  ASSUME TypeOK, ThreadTells, [Next]_vars
  PROVE  ThreadTells'
<1> USE DEF TypeOK, LedgerTypeOK, ThreadTells, GoTo
<1>1. CASE PrepareReserve
  BY <1>1 DEF PrepareReserve, Reserve, Pending
<1>2. CASE (\E r \in Requests : PrepareCheck(r)) \/ PrepareRefuse
  BY <1>2 DEF PrepareCheck, PrepareRefuse, ledgerVars
<1>3. CASE PrepareClose \/ CloseCommit
  BY <1>3 DEF PrepareClose, CloseCommit, CloseRun, ledgerVars
<1>4. ASSUME NEW r \in Requests, ThreadStep(r)
      PROVE  ThreadTells'
  <2>1. CASE TakeLock(r)
    BY <2>1 DEF TakeLock, ledgerVars
  <2>2. CASE CommitDispatch(r)
    BY <2>2 DEF CommitDispatch, BeginDispatch
  <2>3. CASE Forward(r)
    BY <2>3 DEF Forward, ledgerVars
  <2>4. CASE SettleUsage(r)
    BY <2>4 DEF SettleUsage, Settle
  <2>5. CASE Account(r)
    BY <2>5 DEF Account, MarkUnknown, ledgerVars
  <2>6. CASE CloseFailed(r)
    BY <2>6 DEF CloseFailed, CloseRun, ledgerVars
  <2>7. CASE RefuseDispatch(r) \/ Deliver(r) \/ TraceFails(r) \/ CallFails(r)
    BY <2>7 DEF RefuseDispatch, Deliver, TraceFails, CallFails, ledgerVars
  <2>8. CASE Disarm(r)
    BY <2>8 DEF Disarm, ledgerVars
  <2> QED
    BY <1>4, <2>1, <2>2, <2>3, <2>4, <2>5, <2>6, <2>7, <2>8
    DEF ThreadStep, RunningThread
<1>5. CASE ArmRead \/ ArmCommit \/ CloseDisarm
  BY <1>5 DEF ArmRead, ArmCommit, CloseDisarm, ledgerVars
<1>6. CASE Restart
  BY <1>6 DEF Restart, ledgerVars
<1>7. CASE UNCHANGED vars
  BY <1>7 DEF vars, ledgerVars, guardVars
<1> QED
  BY <1>1, <1>2, <1>3, <1>4, <1>5, <1>6, <1>7 DEF Next, EventLoop, Operator

(* While there is an orphan, only the operator can take a step besides     *)
(* another restart, and arming is refused because of it.                   *)
LEMMA OrphanedRunStaysDead ==
  ASSUME TypeOK, OrphanedRunIsDead, [Next]_vars
  PROVE  OrphanedRunIsDead'
<1> USE DEF TypeOK, OrphanedRunIsDead
<1>1. CASE Restart
  <2>1. Unsettled' = Unsettled
    BY <1>1 DEF Restart, ledgerVars, Unsettled, Recorded
  <2> QED
    BY <1>1, <2>1 DEF Restart
<1>2. SUFFICES ASSUME orphans # {}, ~Restart
               PROVE  OrphanedRunIsDead'
  <2>1. ~Restart => orphans' = orphans
    BY DEF Next, EventLoop, Operator, ThreadStep, RunningThread, PrepareCheck,
           PrepareReserve, PrepareRefuse, PrepareClose, TakeLock,
           CommitDispatch, RefuseDispatch, Forward, SettleUsage, Deliver,
           TraceFails, CallFails, Disarm, Account, CloseFailed, ArmRead,
           ArmCommit, CloseDisarm, CloseCommit, vars
  <2> QED
    BY <1>1, <2>1
<1>3. /\ ~EventLoop
      /\ \A r \in Requests : ~ThreadStep(r)
  <2>1. ~EventLoop
    BY <1>2 DEF EventLoop, PrepareCheck, PrepareReserve, PrepareRefuse, PrepareClose
  <2>2. ASSUME NEW r \in Requests
        PROVE  ~ThreadStep(r)
    BY <1>2 DEF ThreadStep, RunningThread, TakeLock, CommitDispatch,
                RefuseDispatch, Forward, SettleUsage, Deliver, TraceFails,
                CallFails, Disarm, Account, CloseFailed
  <2> QED
    BY <2>1, <2>2
<1>4. ~ArmRead /\ ~ArmCommit
  BY <1>2 DEF ArmRead, ArmCommit
<1>5. CASE CloseDisarm \/ CloseCommit
  <2>1. UNCHANGED <<request, preparing, thread, orphans>>
    BY <1>5 DEF CloseDisarm, CloseCommit, CloseRun, ledgerVars
  <2>2. ~armed' /\ stateLock' # "arming"
    BY <1>2, <1>5 DEF CloseDisarm, CloseCommit
  <2> QED
    BY <1>2, <2>1, <2>2 DEF Unsettled, Recorded
<1>6. CASE UNCHANGED vars
  BY <1>2, <1>6 DEF vars, guardVars, ledgerVars, Unsettled, Recorded
<1> QED
  BY <1>2, <1>3, <1>4, <1>5, <1>6 DEF Next, Operator

(* The invariant holds at the start.                                       *)
LEMMA InitialInvariant == Init => IInv
<1> SUFFICES ASSUME Init
             PROVE  IInv
  OBVIOUS
<1>1. ThreadTells /\ OrphanedRunIsDead
  BY DEF Init, LedgerInit, Absent, ThreadTells, OrphanedRunIsDead
<1> QED
  BY <1>1, InitialTypes DEF IInv

(* The inductive invariant holds of every reachable state.                 *)
THEOREM Invariant == Spec => []IInv
<1>1. IInv /\ [Next]_vars => IInv'
  BY TypesPreserved, ThreadTellsPreserved, OrphanedRunStaysDead DEF IInv
<1> QED
  BY <1>1, InitialInvariant, PTL DEF Spec

-----------------------------------------------------------------------------
(* No request is ever forwarded twice, and none that was forwarded loses   *)
(* its reservation without being charged.                                  *)
THEOREM NeverForwardedTwice == Spec => []ForwardedOnce
<1>1. IInv => ForwardedOnce
  BY DEF IInv, TypeOK, LedgerTypeOK, Statuses, ThreadTells, ForwardedOnce
<1> QED
  BY <1>1, Invariant, PTL

(* A run with a reservation left behind by a dead process never forwards   *)
(* anything again.                                                         *)
THEOREM OrphanedRunsStop == Spec => []OrphansDisarm
<1>1. IInv => OrphansDisarm
  BY DEF IInv, TypeOK, OrphanedRunIsDead, OrphansDisarm, InFlight
<1> QED
  BY <1>1, Invariant, PTL

(* After the run is closed or halted, calls in flight only drain.          *)
THEOREM StoppedRunsDrain == Spec => OnlyDrains
<1>1. TypeOK /\ [Next]_vars =>
        [runStatus # "open" => InFlight' \subseteq InFlight]_vars
  <2> SUFFICES ASSUME TypeOK, Next, runStatus # "open"
               PROVE  InFlight' \subseteq InFlight
    OBVIOUS
  <2> USE DEF TypeOK, InFlight, GoTo
  <2>1. CASE EventLoop
    BY <2>1 DEF EventLoop, PrepareCheck, PrepareReserve, Reserve, Admissible,
                PrepareRefuse, PrepareClose
  <2>2. ASSUME NEW r \in Requests, ThreadStep(r)
        PROVE  InFlight' \subseteq InFlight
    <3>1. ~CommitDispatch(r)
      BY DEF CommitDispatch, BeginDispatch
    <3>2. PICK step \in ThreadSteps :
            /\ thread' = [thread EXCEPT ![r] = step]
            /\ step \in {"forwarding", "waiting"} => r \in InFlight
      BY <2>2, <3>1 DEF ThreadStep, RunningThread, ThreadSteps, TakeLock,
         RefuseDispatch, Forward, SettleUsage, Deliver, TraceFails, CallFails,
         Disarm, Account, CloseFailed
    <3> QED
      BY <3>2
  <2>3. CASE Operator
    BY <2>3 DEF Operator, ArmRead, ArmCommit, CloseDisarm, CloseCommit
  <2>4. CASE Restart
    BY <2>4 DEF Restart
  <2> QED
    BY <2>1, <2>2, <2>3, <2>4 DEF Next
<1> QED
  BY <1>1, TypeCorrect, PTL DEF Spec, OnlyDrains

-----------------------------------------------------------------------------
(* The limits on counts, in the ledger's own terms.                        *)
LedgerCounts ==
  /\ IsFiniteSet(Recorded)
  /\ Cardinality(Recorded) <= MaxRequests
  /\ \A o \in Roles : Cardinality(OfRole(o)) <= MaxRequestsPerRole[o]
  /\ Cardinality(Unsettled) <= MaxConcurrency

(* Adding one element to a finite set within a bound.                      *)
LEMMA OneMore ==
  ASSUME NEW S, IsFiniteSet(S), NEW e, NEW n \in Nat, Cardinality(S) < n
  PROVE  IsFiniteSet(S \cup {e}) /\ Cardinality(S \cup {e}) <= n
<1>1. Cardinality(S) \in Nat
  BY FS_CardinalityType
<1> QED
  BY <1>1, FS_AddElement

(* A reservation is only made within the limits.                           *)
LEMMA ReserveKeepsCounts ==
  ASSUME LedgerTypeOK, LedgerCounts, NEW r \in Requests, Reserve(r)
  PROVE  LedgerCounts'
<1> USE LedgerAssumption
<1>1. /\ Recorded' = Recorded \cup {r}
      /\ Unsettled' = Unsettled \cup {r}
      /\ \A o \in Roles :
           OfRole(o)' = IF o = RoleOf[r] THEN OfRole(o) \cup {r} ELSE OfRole(o)
  BY DEF LedgerTypeOK, Reserve, Pending, Recorded, Unsettled, OfRole
<1>2. /\ IsFiniteSet(Unsettled)
      /\ \A o \in Roles : IsFiniteSet(OfRole(o))
  BY FS_Subset DEF LedgerCounts, Unsettled, OfRole
<1>3. IsFiniteSet(Recorded') /\ Cardinality(Recorded') <= MaxRequests
  BY <1>1, OneMore DEF LedgerCounts, Reserve, Admissible
<1>4. Cardinality(Unsettled') <= MaxConcurrency
  BY <1>1, <1>2, OneMore DEF Reserve, Admissible
<1>5. ASSUME NEW o \in Roles
      PROVE  Cardinality(OfRole(o)') <= MaxRequestsPerRole[o]
  <2>1. CASE o = RoleOf[r]
    <3>1. MaxRequestsPerRole[o] \in Nat /\ Cardinality(OfRole(o)) < MaxRequestsPerRole[o]
      BY <2>1 DEF Reserve, Admissible
    <3> QED
      BY <1>1, <1>2, <2>1, <3>1, OneMore
  <2>2. CASE o # RoleOf[r]
    BY <1>1, <2>2 DEF LedgerCounts
  <2> QED
    BY <2>1, <2>2
<1> QED
  BY <1>3, <1>4, <1>5 DEF LedgerCounts

(* No other transaction adds a row or takes a settlement back.             *)
LEMMA OthersKeepCounts ==
  ASSUME LedgerTypeOK, LedgerCounts,
         Recorded' = Recorded, Unsettled' \subseteq Unsettled
  PROVE  LedgerCounts'
<1>1. IsFiniteSet(Unsettled)
  BY FS_Subset DEF LedgerCounts, Unsettled
<1>2. Cardinality(Unsettled') <= Cardinality(Unsettled)
      /\ Cardinality(Unsettled') \in Nat /\ Cardinality(Unsettled) \in Nat
  BY <1>1, FS_Subset, FS_CardinalityType
<1>3. \A o \in Roles : OfRole(o)' = OfRole(o)
  BY DEF OfRole
<1> QED
  BY <1>2, <1>3, LedgerAssumption DEF LedgerCounts

(* Every step keeps the counts within their limits.                        *)
LEMMA CountsPreserved ==
  ASSUME TypeOK, LedgerCounts, [Next]_vars
  PROVE  LedgerCounts'
<1> USE DEF TypeOK
<1>1. CASE PrepareReserve
  BY <1>1, ReserveKeepsCounts DEF PrepareReserve
<1>2. CASE ~PrepareReserve
  <2>1. CASE UNCHANGED request
    BY <2>1, OthersKeepCounts DEF Recorded, Unsettled
  <2>2. ASSUME NEW r \in Requests,
               request[r].status \notin {"absent", "settled"},
               request'[r].status # "absent",
               \A q \in Requests \ {r} : request'[q] = request[q]
        PROVE  LedgerCounts'
    BY <2>2, OthersKeepCounts DEF Recorded, Unsettled
  <2>3. ASSUME NEW r \in Requests, ThreadStep(r)
        PROVE  LedgerCounts'
    <3>1. CASE CommitDispatch(r) \/ SettleUsage(r) \/ Account(r)
      <4>1. \/ UNCHANGED request
            \/ /\ request[r].status \notin {"absent", "settled"}
               /\ request'[r].status # "absent"
               /\ \A q \in Requests \ {r} : request'[q] = request[q]
        BY <3>1 DEF CommitDispatch, BeginDispatch, SettleUsage, Settle,
           Account, MarkUnknown, ledgerVars, LedgerTypeOK
      <4> QED
        BY <2>1, <2>2, <4>1
    <3>2. CASE TakeLock(r) \/ RefuseDispatch(r) \/ Forward(r) \/ Deliver(r)
               \/ TraceFails(r) \/ CallFails(r) \/ Disarm(r) \/ CloseFailed(r)
      BY <2>1, <3>2 DEF TakeLock, RefuseDispatch, Forward, Deliver, TraceFails,
         CallFails, Disarm, CloseFailed, CloseRun, ledgerVars
    <3> QED
      BY <2>3, <3>1, <3>2 DEF ThreadStep, RunningThread
  <2>4. EventLoop \/ Operator \/ Restart \/ UNCHANGED vars => UNCHANGED request
    BY <1>2 DEF EventLoop, PrepareCheck, PrepareRefuse, PrepareClose, Operator,
       ArmRead, ArmCommit, CloseDisarm, CloseCommit, CloseRun, Restart, vars,
       ledgerVars
  <2> QED
    BY <2>1, <2>3, <2>4 DEF Next
<1> QED
  BY <1>1, <1>2

(* However requests interleave, fail or are abandoned, the numbers of      *)
(* requests, of each role's and of unsettled ones stay within the limits.  *)
THEOREM CountsBounded == Spec => []CountsWithinLimits
<1>1. Init => LedgerCounts
  <2> SUFFICES ASSUME Init
               PROVE  LedgerCounts
    OBVIOUS
  <2>1. Recorded = {} /\ Unsettled = {} /\ \A o \in Roles : OfRole(o) = {}
    BY DEF Init, LedgerInit, Absent, Recorded, Unsettled, OfRole
  <2> QED
    BY <2>1, FS_EmptySet, LedgerAssumption DEF LedgerCounts
<1>2. LedgerCounts => CountsWithinLimits
  <2>1. /\ Recorded = {r \in Requests : request[r].status # "absent"}
        /\ Unsettled = {r \in Requests : request[r].status \notin {"absent", "settled"}}
        /\ \A o \in Roles :
             OfRole(o) = {r \in Requests : RoleOf[r] = o /\ request[r].status # "absent"}
    BY DEF Recorded, Unsettled, OfRole
  <2> QED
    BY <2>1 DEF LedgerCounts, CountsWithinLimits
<1>3. TypeOK /\ LedgerCounts /\ [Next]_vars => LedgerCounts'
  BY CountsPreserved
<1> QED
  BY <1>1, <1>2, <1>3, TypeCorrect, PTL DEF Spec
=============================================================================
