-------------------------- MODULE AdmissionLedger ---------------------------
(***************************************************************************)
(* The durable ledger of one run's model requests.  Every operator below   *)
(* is one SQLite transaction, so it is one step; who calls it, when, and   *)
(* what happens when the ledger cannot be reached is in ModelGuard.        *)
(*                                                                         *)
(* A request is its role and the hash of its normalised body, which is     *)
(* what its identifier is computed from.  It reserves tokens of two kinds; *)
(* a settled request is charged for what the provider reports, any other   *)
(* for its reservation.                                                    *)
(***************************************************************************)
EXTENDS Naturals, FiniteSets, FiniteSetsExt

CONSTANTS Requests, Roles, RoleOf,
          Reservation,       \* tokens reserved by a request, of each kind
          Usages,            \* token counts a provider may report
          MaxRequests, MaxRequestsPerRole, MaxTokens, MaxConcurrency

Kinds  == {"input", "output"}
Tokens == [Kinds -> Nat]

ASSUME LedgerAssumption ==
  /\ RoleOf \in [Requests -> Roles]
  /\ Reservation \in [Requests -> Tokens]
  /\ Usages \subseteq Tokens
  /\ MaxRequests \in Nat \ {0}
  /\ MaxRequestsPerRole \in [Roles -> Nat \ {0}]
  /\ MaxTokens \in Tokens
  /\ MaxConcurrency \in Nat \ {0}

VARIABLES runStatus, request

ledgerVars == <<runStatus, request>>

Nothing  == [k \in Kinds |-> 0]
Absent   == [status |-> "absent",  usage |-> Nothing]
Pending  == [status |-> "pending", usage |-> Nothing]

Statuses == {"absent", "pending", "dispatched", "settled", "unknown"}

LedgerTypeOK ==
  /\ runStatus \in {"open", "closed", "halted"}
  /\ request \in [Requests -> [status : Statuses, usage : Tokens]]

-----------------------------------------------------------------------------
(* The summary of a run.                                                   *)
Recorded    == {r \in Requests : request[r].status # "absent"}
Unsettled   == {r \in Recorded : request[r].status # "settled"}
OfRole(o)   == {r \in Recorded : RoleOf[r] = o}
Charge(r)   == IF request[r].status = "settled" THEN request[r].usage
                                                ELSE Reservation[r]
Charged(k)  == MapThenSumSet(LAMBDA r : Charge(r)[k], Recorded)
(* Mutant: only what was reported is charged, not what is reserved.        *)
RemainingUnreserved(k) ==
  MaxTokens[k] - MapThenSumSet(LAMBDA r : request[r].usage[k], Recorded)
Remaining(k) ==
  IF Charged(k) > MaxTokens[k] THEN 0 ELSE MaxTokens[k] - Charged(k)

(* Mutant: an off-by-one in the limit on requests under way.               *)
AdmissibleOneMore(r) ==
  /\ runStatus = "open"
  /\ Cardinality(Recorded) < MaxRequests
  /\ Cardinality(OfRole(RoleOf[r])) < MaxRequestsPerRole[RoleOf[r]]
  /\ \A k \in Kinds : Reservation[r][k] <= Remaining(k)
  /\ Cardinality(Unsettled) <= MaxConcurrency

Admissible(r) ==
  /\ runStatus = "open"
  /\ Cardinality(Recorded) < MaxRequests
  /\ Cardinality(OfRole(RoleOf[r])) < MaxRequestsPerRole[RoleOf[r]]
  /\ \A k \in Kinds : Reservation[r][k] <= Remaining(k)
  /\ Cardinality(Unsettled) < MaxConcurrency

-----------------------------------------------------------------------------
LedgerInit ==
  /\ runStatus = "open"
  /\ request = [r \in Requests |-> Absent]

(* Mutant: INSERT OR REPLACE, a settled request may be reserved once more. *)
ReserveAgain(r) ==
  /\ request[r].status \in {"absent", "settled"}
  /\ Admissible(r)
  /\ request' = [request EXCEPT ![r] = Pending]
  /\ UNCHANGED runStatus

(* Only a fresh reservation is eligible for forwarding.                    *)
Reserve(r) ==
  /\ request[r].status = "absent"
  /\ Admissible(r)
  /\ request' = [request EXCEPT ![r] = Pending]
  /\ UNCHANGED runStatus

(* Mutant: the status of the run is not read again.                        *)
BeginDispatchOfAnyRun(r) ==
  /\ request[r].status = "pending"
  /\ request' = [request EXCEPT ![r].status = "dispatched"]
  /\ UNCHANGED runStatus

BeginDispatch(r) ==
  /\ runStatus = "open"
  /\ request[r].status = "pending"
  /\ request' = [request EXCEPT ![r].status = "dispatched"]
  /\ UNCHANGED runStatus

(* A settlement is accepted whatever the status of the run, and halts the  *)
(* run, closed or not, when it exceeds the reservation.                    *)
Settle(r, usage) ==
  /\ request[r].status \notin {"absent", "settled"}
  /\ request' = [request EXCEPT ![r] = [status |-> "settled", usage |-> usage]]
  /\ runStatus' = IF \E k \in Kinds : usage[k] > Reservation[r][k]
                    THEN "halted" ELSE runStatus

MarkUnknown(r) ==
  /\ request[r].status \notin {"absent", "settled"}
  /\ request' = [request EXCEPT ![r].status = "unknown"]
  /\ UNCHANGED runStatus

CloseRun ==
  /\ runStatus' = IF runStatus = "open" THEN "closed" ELSE runStatus
  /\ UNCHANGED request
=============================================================================
