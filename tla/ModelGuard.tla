----------------------------- MODULE ModelGuard -----------------------------
(***************************************************************************)
(* The guard in front of the paid model provider: one process over the     *)
(* ledger of one run.  Its event loop prepares one request at a time; each *)
(* admitted request is executed by a thread of its own; the operator arms  *)
(* and closes from further threads.  The state lock covers arming, closing *)
(* and the commitment of a dispatch, but neither preparation nor the       *)
(* failure path of a thread.  Any ledger transaction may fail, as SQLite   *)
(* does when it is locked or its disk is full, and the process may die.    *)
(***************************************************************************)
EXTENDS AdmissionLedger

CONSTANT NoRequest

ASSUME NoRequestAssumption == NoRequest \notin Requests

VARIABLES armed,      \* process-local on purpose
          stateLock,  \* "free", the operator's "arming" or "closing", a thread
          preparing,  \* the request the event loop is preparing
          thread,     \* how far execute has got with each request
          forwards,   \* auxiliary: calls made to the provider
          orphans     \* auxiliary: requests unsettled when a process died

guardVars == <<armed, stateLock, preparing, thread>>
vars      == <<ledgerVars, guardVars, forwards, orphans>>

ThreadSteps == {"idle", "admitted", "dispatching", "forwarding", "waiting",
                "answered", "failing", "accounting", "closing"}

TypeOK ==
  /\ LedgerTypeOK
  /\ armed \in BOOLEAN
  /\ stateLock \in {"free", "arming", "closing"} \cup Requests
  /\ preparing \in Requests \cup {NoRequest}
  /\ thread \in [Requests -> ThreadSteps]
  /\ forwards \in [Requests -> Nat]
  /\ orphans \subseteq Requests

Init ==
  /\ LedgerInit
  /\ armed = FALSE
  /\ stateLock = "free"
  /\ preparing = NoRequest
  /\ thread = [r \in Requests |-> "idle"]
  /\ forwards = [r \in Requests |-> 0]
  /\ orphans = {}

GoTo(r, step) == thread' = [thread EXCEPT ![r] = step]

-----------------------------------------------------------------------------
(* prepare, on the event loop.  Arming is looked at first and not again;   *)
(* the same request may be sent any number of times.                       *)
PrepareCheck(r) ==
  /\ armed
  /\ preparing = NoRequest
  /\ preparing' = r
  /\ UNCHANGED <<ledgerVars, armed, stateLock, thread, forwards, orphans>>

PrepareReserve ==
  /\ preparing # NoRequest
  /\ Reserve(preparing)
  /\ GoTo(preparing, "admitted")
  /\ preparing' = NoRequest
  /\ UNCHANGED <<armed, stateLock, forwards, orphans>>

(* An invalid, repeated or inadmissible request, or no ledger to ask.      *)
PrepareRefuse ==
  /\ preparing # NoRequest
  /\ preparing' = NoRequest
  /\ UNCHANGED <<ledgerVars, armed, stateLock, thread, forwards, orphans>>

(* The history repeats a structured tool failure: the run is closed, the   *)
(* guard stays armed.                                                      *)
PrepareClose ==
  /\ preparing # NoRequest
  /\ CloseRun
  /\ preparing' = NoRequest
  /\ UNCHANGED <<armed, stateLock, thread, forwards, orphans>>

-----------------------------------------------------------------------------
(* execute, in a thread per admitted request.                              *)
TakeLock(r) ==
  /\ thread[r] = "admitted"
  /\ stateLock = "free"
  /\ IF armed THEN stateLock' = r /\ GoTo(r, "dispatching")
              ELSE UNCHANGED stateLock /\ GoTo(r, "failing")
  /\ UNCHANGED <<ledgerVars, armed, preparing, forwards, orphans>>

(* The linearisation point of dispatch against closing.                    *)
CommitDispatch(r) ==
  /\ thread[r] = "dispatching"
  /\ BeginDispatch(r)
  /\ stateLock' = "free"
  /\ GoTo(r, "forwarding")
  /\ UNCHANGED <<armed, preparing, forwards, orphans>>

(* Mutant: the lock is kept when the ledger refuses.                       *)
RefuseDispatchKeepingLock(r) ==
  /\ thread[r] = "dispatching"
  /\ GoTo(r, "failing")
  /\ UNCHANGED <<ledgerVars, armed, stateLock, preparing, forwards, orphans>>

(* The run was closed meanwhile, or the ledger is unavailable.             *)
RefuseDispatch(r) ==
  /\ thread[r] = "dispatching"
  /\ stateLock' = "free"
  /\ GoTo(r, "failing")
  /\ UNCHANGED <<ledgerVars, armed, preparing, forwards, orphans>>

Forward(r) ==
  /\ thread[r] = "forwarding"
  /\ forwards' = [forwards EXCEPT ![r] = @ + 1]
  /\ GoTo(r, "waiting")
  /\ UNCHANGED <<ledgerVars, armed, stateLock, preparing, orphans>>

(* Usage is settled before the answer is looked at; a run found halted,    *)
(* by this request or another, makes the thread fail.                      *)
SettleUsage(r) ==
  /\ thread[r] = "waiting"
  /\ \E usage \in Usages : Settle(r, usage)
  /\ GoTo(r, IF runStatus' = "halted" THEN "failing" ELSE "answered")
  /\ UNCHANGED <<armed, stateLock, preparing, forwards, orphans>>

Deliver(r) ==
  /\ thread[r] = "answered"
  /\ GoTo(r, "idle")
  /\ UNCHANGED <<ledgerVars, armed, stateLock, preparing, forwards, orphans>>

(* The trace cannot be written before the dispatch.                        *)
TraceFails(r) ==
  /\ thread[r] = "admitted"
  /\ GoTo(r, "failing")
  /\ UNCHANGED <<ledgerVars, armed, stateLock, preparing, forwards, orphans>>

(* The provider fails, times out or reports no usage; the ledger does not  *)
(* take the settlement; the answer asks for an undeclared tool, or its     *)
(* trace cannot be written.                                                *)
CallFails(r) ==
  /\ thread[r] \in {"waiting", "answered"}
  /\ GoTo(r, "failing")
  /\ UNCHANGED <<ledgerVars, armed, stateLock, preparing, forwards, orphans>>

(* The failure path: disarm, account, close, none of it under the lock.    *)
Disarm(r) ==
  /\ thread[r] = "failing"
  /\ armed' = FALSE
  /\ GoTo(r, IF request[r].status = "settled" THEN "closing" ELSE "accounting")
  /\ UNCHANGED <<ledgerVars, stateLock, preparing, forwards, orphans>>

Account(r) ==
  /\ thread[r] = "accounting"
  /\ MarkUnknown(r) \/ UNCHANGED ledgerVars
  /\ GoTo(r, "closing")
  /\ UNCHANGED <<armed, stateLock, preparing, forwards, orphans>>

CloseFailed(r) ==
  /\ thread[r] = "closing"
  /\ CloseRun \/ UNCHANGED ledgerVars
  /\ GoTo(r, "idle")
  /\ UNCHANGED <<armed, stateLock, preparing, forwards, orphans>>

-----------------------------------------------------------------------------
(* The operator.  Mutant: whatever the ledger says, an open run is armed.  *)
ArmReadsStatusOnly ==
  /\ stateLock = "free"
  /\ runStatus = "open"
  /\ stateLock' = "arming"
  /\ UNCHANGED <<ledgerVars, armed, preparing, thread, forwards, orphans>>

ArmRead ==
  /\ stateLock = "free"
  /\ runStatus = "open" /\ Unsettled = {}
  /\ stateLock' = "arming"
  /\ UNCHANGED <<ledgerVars, armed, preparing, thread, forwards, orphans>>

ArmCommit ==
  /\ stateLock = "arming"
  /\ armed' = TRUE
  /\ stateLock' = "free"
  /\ UNCHANGED <<ledgerVars, preparing, thread, forwards, orphans>>

CloseDisarm ==
  /\ stateLock = "free"
  /\ armed' = FALSE
  /\ stateLock' = "closing"
  /\ UNCHANGED <<ledgerVars, preparing, thread, forwards, orphans>>

CloseCommit ==
  /\ stateLock = "closing"
  /\ CloseRun \/ UNCHANGED ledgerVars
  /\ stateLock' = "free"
  /\ UNCHANGED <<armed, preparing, thread, forwards, orphans>>

(* The process dies and comes back over the same ledger, disarmed.         *)
Restart ==
  /\ armed' = FALSE
  /\ stateLock' = "free"
  /\ preparing' = NoRequest
  /\ thread' = [r \in Requests |-> "idle"]
  /\ orphans' = orphans \cup Unsettled
  /\ UNCHANGED <<ledgerVars, forwards>>

-----------------------------------------------------------------------------
EventLoop == \/ \E r \in Requests : PrepareCheck(r)
             \/ PrepareReserve \/ PrepareRefuse \/ PrepareClose

RunningThread(r) ==
  \/ CommitDispatch(r) \/ RefuseDispatch(r) \/ Forward(r)
  \/ SettleUsage(r) \/ CallFails(r) \/ Deliver(r)
  \/ Disarm(r) \/ Account(r) \/ CloseFailed(r)

ThreadStep(r) == TraceFails(r) \/ TakeLock(r) \/ RunningThread(r)

Operator == ArmRead \/ ArmCommit \/ CloseDisarm \/ CloseCommit

Next == EventLoop \/ (\E r \in Requests : ThreadStep(r)) \/ Operator \/ Restart

Spec == Init /\ [][Next]_vars

(* Threads run, a handler that holds the lock goes on, and the provider    *)
(* answers or times out.  The lock is taken and released by others in      *)
(* between, so waiting for it needs strong fairness.  Clients, operators,  *)
(* crashes and a full disk get none.                                       *)
Fairness ==
  /\ \A r \in Requests : WF_vars(RunningThread(r)) /\ SF_vars(TakeLock(r))
  /\ WF_vars(ArmCommit \/ CloseCommit)

FairSpec == Spec /\ Fairness

-----------------------------------------------------------------------------
(* A request is forwarded at most once, whatever is sent again, fails or   *)
(* is restarted, and one that was forwarded keeps a reservation or a       *)
(* charge: its row is never pending or absent again (docs/MODEL_GUARD.md). *)
ForwardedOnce ==
  \A r \in Requests :
    /\ forwards[r] <= 1
    /\ forwards[r] = 1 => request[r].status \in {"dispatched", "settled", "unknown"}

(* However requests interleave, fail or are abandoned, the run never holds *)
(* more requests in all, more of one role, or more unsettled ones at a     *)
(* time than its limits say.                                               *)
CountsWithinLimits ==
  /\ Cardinality({r \in Requests : request[r].status # "absent"}) <= MaxRequests
  /\ \A o \in Roles :
       Cardinality({r \in Requests : RoleOf[r] = o /\ request[r].status # "absent"})
         <= MaxRequestsPerRole[o]
  /\ Cardinality({r \in Requests : request[r].status \notin {"absent", "settled"}})
       <= MaxConcurrency

(* What is reserved and what was used stay together within the run's token *)
(* limits, until a provider reports more than was reserved, which halts    *)
(* the run.                                                                *)
Committed(k) ==
  MapThenSumSet(LAMBDA r : IF request[r].status = "settled"
                             THEN request[r].usage[k] ELSE Reservation[r][k],
                {r \in Requests : request[r].status # "absent"})

TokensWithinLimits ==
  runStatus # "halted" => \A k \in Kinds : Committed(k) <= MaxTokens[k]

(* Once the run is closed or halted, by whomever, the calls in flight only *)
(* drain: none is added to those committed before, though other requests   *)
(* were admitted and the guard may still be armed.                         *)
InFlight == {r \in Requests : thread[r] \in {"forwarding", "waiting"}}

OnlyDrains == [][runStatus # "open" => InFlight' \subseteq InFlight]_vars

(* A reservation that a dead process left behind is never released, so no  *)
(* later process is armed and nothing is forwarded in this run again.      *)
OrphansDisarm ==
  orphans # {} => ~armed /\ InFlight = {} /\ orphans \subseteq Unsettled

(* An admitted request comes to an end: no thread waits for ever on the    *)
(* state lock, whoever holds it fails.                                     *)
ThreadsEnd == \A r \in Requests : thread[r] # "idle" ~> thread[r] = "idle"

(* "Uncertain reservations prevent rearming" (docs/MODEL_GUARD.md:15).     *)
Uncertain == {r \in Requests : request[r].status = "unknown"}

UncertainPreventsArming == [][Uncertain # {} /\ ~armed => ~armed']_vars
=============================================================================
