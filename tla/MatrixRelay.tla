---------------------------- MODULE MatrixRelay -----------------------------
(***************************************************************************)
(* The older backend: three workers asked one after the other, each in a   *)
(* Matrix room of its own.  Preparing the read cursor, sending the request *)
(* and looking for the answer are separate steps, so that the answer can   *)
(* never lie before the cursor; a request repeated under its transaction   *)
(* name is recognised only by the credential it was first sent with.       *)
(*                                                                         *)
(* The rooms and the workers are external.                                 *)
(***************************************************************************)
EXTENDS InvestigationQueue

CONSTANT Roles  \* the workers, in the order in which they are asked

ASSUME RelayAssumption == Len(Roles) \in Nat \ {0}

VARIABLE log  \* the events of each job in each worker's room

(* A checkpoint of this backend: the reports are those of the roles before *)
(* stage; cursor 0 is no cursor, cursor n lies behind n - 1 events.        *)
RelayStart ==
  [backend |-> "matrix", stage |-> 1, cursor |-> 0, sent |-> FALSE, credential |-> 0]

RelayInit == log = [j \in Jobs |-> [r \in 1..Len(Roles) |-> <<>>]]

RelayTypeOK ==
  \A j \in Jobs, r \in 1..Len(Roles) : \A i \in 1..Len(log[j][r]) :
    log[j][r][i].kind \in {"request", "report", "invalid"}

Relay(d) == Dispatchable(d) /\ tick[d].cp.backend \in {"none", "matrix"}

Started(cp) == IF cp = Nothing THEN RelayStart ELSE cp

RelayKeeps == UNCHANGED <<job, queue, lease, cancelling, setting, budget>>

(* Mutant: the credential is not looked at again.                          *)
Unbound(d, cp) == TRUE

(* The credential is bound to the job before anything is sent.             *)
Bound(d, cp) == cp.credential \in {0, setting[d].bearer}

-----------------------------------------------------------------------------
(* A credential got by logging in is kept for five minutes; the step that  *)
(* finds it too old logs in anew.                                          *)
ChangeCredential(d) ==
  /\ Relay(d)
  /\ Fault
  /\ \E s \in Settings : s.backend = setting[d].backend
                         /\ setting' = [setting EXCEPT ![d] = s]
  /\ UNCHANGED <<job, queue, lease, tick, cancelling, budget, log>>

CredentialChanged(d) ==
  LET cp == Started(tick[d].cp) IN
  /\ Relay(d)
  /\ ~Bound(d, cp)
  /\ Return(d, "failed", cp)
  /\ UNCHANGED <<log, faults>>
  /\ RelayKeeps

Prepare(d) ==
  LET cp == Started(tick[d].cp) IN
  /\ Relay(d)
  /\ Bound(d, cp)
  /\ cp.cursor = 0
  /\ Return(d, "running",
            [cp EXCEPT !.cursor = Len(log[tick[d].job][cp.stage]) + 1,
                       !.credential = setting[d].bearer])
  /\ UNCHANGED <<log, faults>>
  /\ RelayKeeps

(* The room takes a transaction once for each credential.                  *)
Request(j, stage, bearer) ==
  LET event == [kind |-> "request", credential |-> bearer] IN
  log' = IF event \in ToSet(log[j][stage]) THEN log
         ELSE [log EXCEPT ![j][stage] = Append(@, event)]

(* Mutant: the cursor is taken after the request was sent.                 *)
SendThenPrepare(d) ==
  LET j == tick[d].job
      cp == Started(tick[d].cp) IN
  /\ Relay(d)
  /\ Bound(d, cp)
  /\ cp.cursor # 0
  /\ ~cp.sent
  /\ Request(j, cp.stage, setting[d].bearer)
  /\ Return(d, "running", [cp EXCEPT !.sent = TRUE, !.cursor = Len(log'[j][cp.stage]) + 1])
  /\ UNCHANGED faults
  /\ RelayKeeps

Send(d) ==
  LET cp == Started(tick[d].cp) IN
  /\ Relay(d)
  /\ Bound(d, cp)
  /\ cp.cursor # 0
  /\ ~cp.sent
  /\ Request(tick[d].job, cp.stage, setting[d].bearer)
  /\ Return(d, "running", [cp EXCEPT !.sent = TRUE])
  /\ UNCHANGED faults
  /\ RelayKeeps

(* The receipt is lost, or was not a receipt.                              *)
SendFails(d) ==
  LET cp == Started(tick[d].cp) IN
  /\ Relay(d)
  /\ Bound(d, cp)
  /\ cp.cursor # 0
  /\ ~cp.sent
  /\ Fault
  /\ Request(tick[d].job, cp.stage, setting[d].bearer)
  /\ Return(d, "waiting_backend", cp)
  /\ RelayKeeps

(* The events behind the cursor that claim to be the report, and the first *)
(* of them: it is valid, or the job fails.                                 *)
Claims(j, cp) ==
  {i \in cp.cursor..Len(log[j][cp.stage]) : log[j][cp.stage][i].kind # "request"}

FirstClaim(j, cp, i) == \A k \in Claims(j, cp) : i <= k

Poll(d) ==
  LET j == tick[d].job
      cp == Started(tick[d].cp)
      last == cp.stage = Len(Roles)
      next == [cp EXCEPT !.stage = @ + 1, !.cursor = 0, !.sent = FALSE]
  IN
  /\ Relay(d)
  /\ Bound(d, cp)
  /\ cp.sent
  /\ \/ /\ Claims(j, cp) = {}
        /\ Return(d, "running", [cp EXCEPT !.cursor = Len(log[j][cp.stage]) + 1])
     \/ \E i \in Claims(j, cp) :
          /\ FirstClaim(j, cp, i)
          /\ IF log[j][cp.stage][i].kind = "invalid" THEN Return(d, "failed", cp)
             ELSE Return(d, IF last THEN "completed" ELSE "running", next)
  /\ UNCHANGED <<log, faults>>
  /\ RelayKeeps

(* A worker, or the whole job, is given up after its deadline; the room    *)
(* cannot be read, or refuses for good.  The binding, and the credential,  *)
(* may have been noted before.                                             *)
Noted(d) ==
  LET cp == Started(tick[d].cp) IN
  {tick[d].cp, cp}
    \cup {c \in {[cp EXCEPT !.credential = setting[d].bearer]} : Bound(d, cp)}

GiveUp(d) ==
  /\ Relay(d)
  /\ Fault
  /\ \E status \in {"failed", "waiting_backend"}, cp \in Noted(d) : Return(d, status, cp)
  /\ UNCHANGED log
  /\ RelayKeeps

-----------------------------------------------------------------------------
(* The workers answer each request they see, and say other things.         *)
Asked(j, r)    == {i \in 1..Len(log[j][r]) : log[j][r][i].kind = "request"}
Answered(j, r) == {i \in 1..Len(log[j][r]) : log[j][r][i].kind # "request"}

WorkerAnswers(j, r) ==
  /\ j \in Open
  /\ Cardinality(Answered(j, r)) < Cardinality(Asked(j, r))
  /\ \E kind \in {"report", "invalid"} :
       log' = [log EXCEPT ![j][r] = Append(@, [kind |-> kind, credential |-> 0])]
  /\ UNCHANGED queueVars
=============================================================================
