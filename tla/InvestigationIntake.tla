------------------------ MODULE InvestigationIntake -------------------------
(***************************************************************************)
(* The gateway's investigation store, app/investigation.py of the security *)
(* tool gateway: bundles, runs, and the evidence and report calls that     *)
(* spend a run's tool-call budget.                                         *)
(*                                                                         *)
(* A write works in one SQLite transaction (BEGIN IMMEDIATE): it has the   *)
(* database to itself, works on a draft and commits it; anything that goes *)
(* wrong before the commit drops the draft.  The listing of a run has no   *)
(* transaction: each SELECT sees what is committed then.                   *)
(*                                                                         *)
(* One bundle id; hashes are taken to identify what they are taken of.     *)
(***************************************************************************)
EXTENDS Naturals, Sequences, FiniteSets

CONSTANTS
  Callers,     \* requests at the gateway at a time
  InvRuns,     \* investigation run ids
  InvReports,  \* report contents that validate against the bundle
  Contents,    \* what a bundle of the id may contain
  Limits       \* values of budget.max_tool_calls

NoCaller  == "no caller"
NoContent == "no content"
NoReport  == "no report"
NotRun    == [limit |-> 0]
NoRequest == [step |-> "off"]

ASSUME IntakeAssumption ==
  /\ Limits \subseteq Nat \ {0}
  /\ NoCaller \notin Callers
  /\ NoReport \notin InvReports

VARIABLES
  records,  \* the committed database
  draft,    \* the database as the open transaction sees it
  writer,   \* whose transaction that is
  asked     \* [caller -> its request]

intakeVars == <<records, draft, writer, asked>>

IntakeInit ==
  /\ records = [bundle |-> NoContent, runs |-> [r \in InvRuns |-> NotRun]]
  /\ draft = records
  /\ writer = NoCaller
  /\ asked = [c \in Callers |-> NoRequest]

-----------------------------------------------------------------------------
(* What is checked of a run's receipts.                                    *)

Submitted(receipts) ==
  {receipts[i].report : i \in DOMAIN receipts} \ {NoReport}

(* receipt_history up to its SELECT of the reports, and from there on.     *)
Counted(limit, used, receipts) ==
  /\ used = Len(receipts) /\ used <= limit
  /\ \A i \in DOMAIN receipts : receipts[i].sequence = i

Accounted(receipts, reports) == reports = Submitted(receipts)

(* bundle_by_id and bound_run.                                             *)
Bound(db, r) ==
  LET run == db.runs[r] IN
  /\ run # NotRun
  /\ db.bundle = run.content
  /\ Counted(run.limit, run.used, run.receipts)
  /\ Accounted(run.receipts, run.reports)

-----------------------------------------------------------------------------
(* A request and its end.                                                  *)

Waits(c) == asked[c].step \notin {"off", "answered"}

Arrive(c, op) ==
  /\ asked[c] = NoRequest
  /\ asked' = [asked EXCEPT ![c] = [step |-> "asked", op |-> op]]
  /\ UNCHANGED <<records, draft, writer>>

Answer(c, reply) ==
  asked' = [asked EXCEPT ![c] =
    [step |-> "answered", op |-> @.op, reply |-> reply]]

Refused == [ok |-> FALSE]

(* The caller has its answer, or is no longer there to hear it.            *)
Hear(c) ==
  /\ asked[c].step = "answered"
  /\ asked' = [asked EXCEPT ![c] = NoRequest]

Release(c) ==
  IF writer = c THEN writer' = NoCaller /\ draft' = records
                ELSE UNCHANGED <<writer, draft>>

(* An HTTPException leaves database() without the commit.                  *)
Refuse(c) ==
  /\ Answer(c, Refused)
  /\ Release(c)
  /\ UNCHANGED records

(* sqlite3.OperationalError: the database is locked, or the disk fails.    *)
Unavailable(c) == Waits(c) /\ Refuse(c)

(* The gateway's process is restarted.                                     *)
RestartGateway ==
  /\ asked' = [c \in Callers |->
       IF Waits(c) THEN [step |-> "answered", op |-> asked[c].op,
                         reply |-> Refused]
                   ELSE asked[c]]
  /\ writer' = NoCaller
  /\ draft' = records
  /\ UNCHANGED records

-----------------------------------------------------------------------------
(* Writes.                                                                 *)

Begin(c) ==
  /\ asked[c].step = "asked"
  /\ asked[c].op.kind # "list"
  /\ writer = NoCaller
  /\ writer' = c
  /\ draft' = records
  /\ asked' = [asked EXCEPT ![c].step = "began"]
  /\ UNCHANGED records

Began(c, kinds) == asked[c].step = "began" /\ asked[c].op.kind \in kinds

(* The draft is complete; what the commit will be answered with.           *)
Propose(c, db, reply) ==
  /\ draft' = db
  /\ asked' = [asked EXCEPT ![c] =
       [step |-> "commit", op |-> @.op, reply |-> reply]]
  /\ UNCHANGED <<records, writer>>

(* import_bundle: an id is given its content once.                         *)
ImportBundle(c) ==
  LET content == asked[c].op.content IN
  /\ Began(c, {"import"})
  /\ IF draft.bundle \in {NoContent, content}
     THEN Propose(c, [draft EXCEPT !.bundle = content], [ok |-> TRUE])
     ELSE Refuse(c)

(* create_run.                                                             *)
CreateRun(c) ==
  LET r == asked[c].op.run
      limit == asked[c].op.limit
  IN
  /\ Began(c, {"create"})
  /\ IF draft.runs[r] # NotRun
     THEN IF Bound(draft, r) /\ draft.runs[r].limit = limit
          THEN Propose(c, draft, [ok |-> TRUE])
          ELSE Refuse(c)
     ELSE IF draft.bundle = NoContent THEN Refuse(c)
     ELSE Propose(c, [draft EXCEPT !.runs[r] =
            [limit |-> limit, content |-> draft.bundle, used |-> 0,
             receipts |-> <<>>, reports |-> {}]], [ok |-> TRUE])

(* tool_event: one more receipt, one more call used.  A receipt does not   *)
(* name its caller; "by" is there to speak of it.                          *)
Receipt(c, run, report) ==
  [sequence |-> run.used + 1, report |-> report, by |-> c]

Spent(run, receipt) ==
  [run EXCEPT !.used = @ + 1, !.receipts = Append(@, receipt)]

(* run_evidence and submit_report up to their receipt.  A report that is   *)
(* stored already is answered as it was stored, and spends nothing.        *)
SpendCall(c) ==
  LET op == asked[c].op
      run == draft.runs[op.run]
      receipt == Receipt(c, run, op.report)
      earlier == {i \in DOMAIN run.receipts : run.receipts[i].report = op.report}
  IN
  /\ Began(c, {"read", "submit"})
  /\ IF ~Bound(draft, op.run) THEN Refuse(c)
     ELSE IF op.kind = "submit" /\ op.report \in run.reports
     THEN \E i \in earlier :
            Propose(c, draft, [ok |-> TRUE, receipt |-> run.receipts[i]])
     ELSE IF run.used >= run.limit THEN Refuse(c)
     ELSE /\ draft' = [draft EXCEPT !.runs[op.run] = Spent(run, receipt)]
          /\ asked' = [asked EXCEPT ![c] =
               [step |-> IF op.kind = "submit" THEN "store" ELSE "commit",
                op |-> op, reply |-> [ok |-> TRUE, receipt |-> receipt]]]
          /\ UNCHANGED <<records, writer>>

(* submit_report, the report itself.                                       *)
StoreReport(c) ==
  LET op == asked[c].op IN
  /\ asked[c].step = "store"
  /\ Propose(c, [draft EXCEPT !.runs[op.run].reports = @ \cup {op.report}],
             asked[c].reply)

Commit(c) ==
  /\ asked[c].step = "commit"
  /\ records' = draft
  /\ writer' = NoCaller
  /\ Answer(c, asked[c].reply)
  /\ UNCHANGED draft

-----------------------------------------------------------------------------
(* run_reports: six SELECTs, each of what is committed then.               *)

Look(c, step, next, seen) ==
  /\ asked[c].step = step
  /\ asked' = [asked EXCEPT ![c] =
       [step |-> next, op |-> @.op, seen |-> seen]]
  /\ UNCHANGED <<records, draft, writer>>

Seen(c) == asked[c].seen
Stored(c) == records.runs[asked[c].op.run]

ListRun(c) ==
  /\ asked[c].step = "asked" /\ asked[c].op.kind = "list"
  /\ IF Stored(c) = NotRun THEN Refuse(c)
     ELSE Look(c, "asked", "count", [used |-> Stored(c).used])

(* Mutant: the receipts are not counted again after the reports.           *)
ListReceiptsOnce(c, step, next) ==
  /\ asked[c].step = step
  /\ IF step = "count" => Counted(Stored(c).limit, Seen(c).used, Stored(c).receipts)
     THEN Look(c, step, next,
            [used |-> Seen(c).used, receipts |-> Stored(c).receipts,
             reports |-> IF step = "count" THEN {} ELSE Seen(c).reports])
     ELSE Refuse(c)

ListReceipts(c, step, next) ==
  /\ asked[c].step = step
  /\ IF Counted(Stored(c).limit, Seen(c).used, Stored(c).receipts)
     THEN Look(c, step, next,
            [used |-> Seen(c).used, receipts |-> Stored(c).receipts,
             reports |-> IF step = "count" THEN {} ELSE Seen(c).reports])
     ELSE Refuse(c)

ListIds(c) ==
  /\ asked[c].step = "ids"
  /\ IF Accounted(Seen(c).receipts, Stored(c).reports)
     THEN Look(c, "ids", "reports", Seen(c)) ELSE Refuse(c)

(* The cursor over the reports is one read of the database, and the        *)
(* receipt of a stored report was committed with it.                       *)
ListReports(c) ==
  Look(c, "reports", "recount",
       [used |-> Seen(c).used, receipts |-> Seen(c).receipts,
        reports |-> Stored(c).reports])

ListIdsAgain(c) ==
  /\ asked[c].step = "reids"
  /\ IF Accounted(Seen(c).receipts, Stored(c).reports)
     THEN /\ Answer(c, [ok |-> TRUE, listing |-> Seen(c)])
          /\ UNCHANGED <<records, draft, writer>>
     ELSE Refuse(c)

List(c) ==
  \/ ListRun(c)
  \/ ListReceipts(c, "count", "ids")
  \/ ListIds(c)
  \/ ListReports(c)
  \/ ListReceipts(c, "recount", "reids")
  \/ ListIdsAgain(c)

-----------------------------------------------------------------------------
(* What is asked.  What does not validate as a bundle, or as a report on   *)
(* the bundle, is refused and is no member of Contents or InvReports.      *)
Imports     == [kind : {"import"}, content : Contents]
Creations   == [kind : {"create"}, run : InvRuns, limit : Limits]
Submissions == [kind : {"submit"}, run : InvRuns, report : InvReports]
Readings    == [kind : {"read", "list"}, run : InvRuns, report : {NoReport}]

Operations == Imports \cup Creations \cup Submissions \cup Readings

Serve(c) ==
  \/ Begin(c) \/ ImportBundle(c) \/ CreateRun(c) \/ SpendCall(c)
  \/ StoreReport(c) \/ Commit(c) \/ List(c)

Gateway == RestartGateway \/ \E c \in Callers : Serve(c) \/ Unavailable(c)

-----------------------------------------------------------------------------
(* What was answered is so: a listing shows the run as it was at one       *)
(* moment, whatever was committed between its six reads, and a call that   *)
(* was answered has its receipt in the run at its place, with the report   *)
(* it submitted, whatever failed, restarted or raced it.                   *)
ListingHolds(c) ==
  LET seen == asked[c].reply.listing
      now == Stored(c).receipts
  IN
  /\ seen.used = Len(seen.receipts)
  /\ seen.reports = Submitted(seen.receipts)
  /\ seen.receipts = SubSeq(now, 1, seen.used)

CallHolds(c) ==
  LET receipt == asked[c].reply.receipt IN
  /\ Stored(c).used >= receipt.sequence
  /\ Stored(c).receipts[receipt.sequence] = receipt
  /\ asked[c].op.report \in Stored(c).reports \cup {NoReport}

AnswersHold ==
  \A c \in Callers :
    (asked[c].step = "answered" /\ asked[c].reply.ok) =>
      /\ asked[c].op.kind = "list" => ListingHolds(c)
      /\ asked[c].op.kind \in {"read", "submit"} => CallHolds(c)
=============================================================================
