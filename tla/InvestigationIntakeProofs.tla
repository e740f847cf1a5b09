----------------------- MODULE InvestigationIntakeProofs -----------------------
(***************************************************************************)
(* Proofs about the gateway's investigation store and about the attempts   *)
(* of the runner as its clients, for any callers, runs and reports.  A     *)
(* transaction's draft only adds to what is committed, so what a call was  *)
(* answered with, and what a listing has read, stays in its place.         *)
(***************************************************************************)
EXTENDS ModelRunner, SequenceTheorems, TLAPS

(* The store and whatever asks it.                                         *)
IntakeStep ==
  \/ Gateway
  \/ \E c \in Callers :
       \/ \E op \in Operations : Arrive(c, op)
       \/ Hear(c) /\ UNCHANGED <<records, draft, writer>>

IntakeSpec == IntakeInit /\ [][IntakeStep]_intakeVars

-----------------------------------------------------------------------------
(* The inductive invariant of the store.                                   *)

ReceiptRows ==
  [sequence : Nat, report : InvReports \cup {NoReport}, by : Callers]

RunRows ==
  [limit : Limits, content : Contents, used : Nat, receipts : Seq(ReceiptRows),
   reports : SUBSET InvReports]

Databases ==
  [bundle : Contents \cup {NoContent}, runs : [InvRuns -> {NotRun} \cup RunRows]]

InTransaction == {"began", "store", "commit"}
ListSteps == {"count", "ids", "reports", "recount", "reids"}

AskedTyped(c) ==
  /\ asked[c].step \in {"off", "asked", "answered"} \cup InTransaction \cup ListSteps
  /\ asked[c].step # "off" => asked[c].op \in Operations
  /\ asked[c].step \in {"asked", "began"} =>
       asked[c] \in [step : {"asked", "began"}, op : Operations]
  /\ asked[c].step \in InTransaction => asked[c].op.kind # "list"
  /\ asked[c].step = "store" => asked[c].op.kind = "submit"
  /\ asked[c].step \in ListSteps => asked[c].op.kind = "list"

IntakeTyped ==
  /\ records \in Databases /\ draft \in Databases
  /\ DOMAIN asked = Callers
  /\ \A c \in Callers : AskedTyped(c)

(* Who is in a transaction is the writer; until it has written its draft   *)
(* is what is committed.                                                   *)
OneWriter ==
  /\ writer = NoCaller => draft = records
  /\ writer # NoCaller => writer \in Callers /\ asked[writer].step \in InTransaction
  /\ \A c \in Callers : asked[c].step \in InTransaction => writer = c
  /\ \A c \in Callers : asked[c].step = "began" => draft = records

(* The receipts of a run are numbered, as many as calls were used.         *)
Numbered(run) ==
  /\ run.used = Len(run.receipts)
  /\ \A i \in 1..Len(run.receipts) : run.receipts[i].sequence = i

Sound(db) ==
  \A r \in InvRuns : db.runs[r] # NotRun =>
    Numbered(db.runs[r]) /\ Accounted(db.runs[r].receipts, db.runs[r].reports)

(* The one report whose receipt is written and which itself is not.        *)
DraftSound ==
  /\ \A r \in InvRuns : draft.runs[r] # NotRun => Numbered(draft.runs[r])
  /\ \A c \in Callers :
       IF asked[c].step = "store"
       THEN \A r \in InvRuns : draft.runs[r] # NotRun =>
              Accounted(draft.runs[r].receipts,
                        draft.runs[r].reports \cup
                          (IF r = asked[c].op.run THEN {asked[c].op.report} ELSE {}))
       ELSE asked[c].step \in {"began", "commit"} => Sound(draft)

(* A run only grows.                                                       *)
Grows(run, later) ==
  run # NotRun =>
    /\ later # NotRun
    /\ Len(run.receipts) <= Len(later.receipts)
    /\ \A i \in 1..Len(run.receipts) : later.receipts[i] = run.receipts[i]
    /\ run.reports \subseteq later.reports

DraftAdds == \A r \in InvRuns : Grows(records.runs[r], draft.runs[r])

(* A call's answer is a receipt in the run, of this call or, for a report  *)
(* that was stored before, of the same report.                             *)
Receipted(db, op, receipt, c) ==
  /\ db.runs[op.run] # NotRun
  /\ receipt.sequence \in 1..Len(db.runs[op.run].receipts)
  /\ db.runs[op.run].receipts[receipt.sequence] = receipt
  /\ op.kind = "read" => receipt.by = c
  /\ op.kind = "submit" => receipt.report = op.report

Calls(c) == asked[c].step # "off" /\ asked[c].op.kind \in {"read", "submit"}

CallTrue(c) ==
  Calls(c) =>
    /\ asked[c].step \in {"store", "commit"} =>
         /\ asked[c].reply.ok
         /\ Receipted(draft, asked[c].op, asked[c].reply.receipt, c)
    /\ asked[c].step = "commit" =>
         asked[c].op.report \in draft.runs[asked[c].op.run].reports \cup {NoReport}
    /\ asked[c].step = "answered" /\ asked[c].reply.ok =>
         /\ Receipted(records, asked[c].op, asked[c].reply.receipt, c)
         /\ asked[c].op.report \in Stored(c).reports \cup {NoReport}

(* What a listing has read so far is a beginning of the run; when nothing  *)
(* was added since, the reports it has read are those of its receipts.     *)
Begins(seen, run) ==
  /\ run # NotRun
  /\ seen.used \in 0..Len(run.receipts)

Reads(seen, run) ==
  /\ Begins(seen, run)
  /\ seen.receipts \in Seq(ReceiptRows) /\ Len(seen.receipts) = seen.used
  /\ \A i \in 1..seen.used : seen.receipts[i] = run.receipts[i]

ListingTrue(c) ==
  /\ asked[c].step \in ListSteps => Begins(Seen(c), Stored(c))
  /\ asked[c].step \in ListSteps \ {"count"} => Reads(Seen(c), Stored(c))
  /\ asked[c].step = "recount" /\ Len(Stored(c).receipts) = Seen(c).used =>
       Seen(c).reports = Submitted(Seen(c).receipts)
  /\ asked[c].step = "reids" => Seen(c).reports = Submitted(Seen(c).receipts)
  /\ asked[c].step = "answered" /\ asked[c].op.kind = "list" /\ asked[c].reply.ok =>
       /\ Reads(asked[c].reply.listing, Stored(c))
       /\ asked[c].reply.listing.reports = Submitted(asked[c].reply.listing.receipts)

IntakeInvariant ==
  /\ IntakeTyped /\ OneWriter /\ Sound(records) /\ DraftSound /\ DraftAdds
  /\ \A c \in Callers : CallTrue(c) /\ ListingTrue(c)

-----------------------------------------------------------------------------
(* Facts about the data.                                                   *)

(* What is asked of a run names one, and a report only to submit it.       *)
LEMMA OpKinds ==
  ASSUME NEW op \in Operations
  PROVE  /\ op.kind \in {"import", "create", "submit", "read", "list"}
         /\ op.kind = "import" => op.content \in Contents
         /\ op.kind = "create" => op.run \in InvRuns /\ op.limit \in Limits
         /\ op.kind \in {"submit", "read", "list"} => op.run \in InvRuns
         /\ op.kind = "submit" => op.report \in InvReports /\ op.report # NoReport
         /\ op.kind \in {"read", "list"} => op.report = NoReport
BY IntakeAssumption DEF Operations, Imports, Creations, Submissions, Readings

(* The fields of a run that was created.                                   *)
LEMMA RunFields ==
  ASSUME NEW db \in Databases, NEW r \in InvRuns
  PROVE  /\ db.runs[r] \in {NotRun} \cup RunRows
         /\ db.runs[r] # NotRun =>
              /\ db.runs[r] \in RunRows
              /\ db.runs[r].receipts \in Seq(ReceiptRows) /\ Len(db.runs[r].receipts) \in Nat
              /\ db.runs[r].used \in Nat /\ db.runs[r].reports \subseteq InvReports
<1>1. db.runs[r] \in {NotRun} \cup RunRows
  BY DEF Databases
<1>2. ASSUME db.runs[r] \in RunRows
      PROVE  /\ db.runs[r].receipts \in Seq(ReceiptRows) /\ Len(db.runs[r].receipts) \in Nat
             /\ db.runs[r].used \in Nat /\ db.runs[r].reports \subseteq InvReports
  <2>1. /\ db.runs[r].receipts \in Seq(ReceiptRows) /\ db.runs[r].used \in Nat
        /\ db.runs[r].reports \subseteq InvReports
    BY <1>2 DEF RunRows
  <2> QED
    BY <2>1, LenProperties
<1> QED
  BY <1>1, <1>2

(* A run that was created is told from one that was not.                   *)
LEMMA RowsAreRuns == \A run \in RunRows : run # NotRun
BY DEF RunRows, NotRun

(* A run that was not touched has not shrunk.                              *)
LEMMA GrowsStays ==
  ASSUME NEW db \in Databases, NEW r \in InvRuns
  PROVE  Grows(db.runs[r], db.runs[r])
BY RunFields DEF Grows

(* A place among the first m is one among more.                            *)
LEMMA PlaceStays ==
  ASSUME NEW m \in Nat, NEW n \in Nat, m <= n, NEW i \in 1..m
  PROVE  i \in 1..n
OBVIOUS

(* What grew twice has grown.                                              *)
LEMMA GrowsAgain ==
  ASSUME NEW a \in Databases, NEW b \in Databases, NEW c \in Databases, NEW r \in InvRuns,
         Grows(a.runs[r], b.runs[r]), Grows(b.runs[r], c.runs[r])
  PROVE  Grows(a.runs[r], c.runs[r])
<1> PICK x, y, z : x = a.runs[r] /\ y = b.runs[r] /\ z = c.runs[r]
  OBVIOUS
<1>1. /\ x # NotRun => Len(x.receipts) \in Nat
      /\ y # NotRun => Len(y.receipts) \in Nat
      /\ z # NotRun => Len(z.receipts) \in Nat
  BY RunFields
<1>2. Grows(x, y) /\ Grows(y, z)
  OBVIOUS
<1>3. Grows(x, z)
  <2>1. SUFFICES ASSUME x # NotRun
                 PROVE  /\ z # NotRun /\ Len(x.receipts) <= Len(z.receipts)
                        /\ \A i \in 1..Len(x.receipts) : z.receipts[i] = x.receipts[i]
                        /\ x.reports \subseteq z.reports
    BY DEF Grows
  <2>2. /\ y # NotRun /\ Len(x.receipts) <= Len(y.receipts) /\ x.reports \subseteq y.reports
        /\ \A i \in 1..Len(x.receipts) : y.receipts[i] = x.receipts[i]
    BY <1>2, <2>1 DEF Grows
  <2>3. /\ z # NotRun /\ Len(y.receipts) <= Len(z.receipts) /\ y.reports \subseteq z.reports
        /\ \A i \in 1..Len(y.receipts) : z.receipts[i] = y.receipts[i]
    BY <1>2, <2>2 DEF Grows
  <2> PICK k, m, n : k = Len(x.receipts) /\ m = Len(y.receipts) /\ n = Len(z.receipts)
    OBVIOUS
  <2>4. k \in Nat /\ m \in Nat /\ n \in Nat /\ k <= m /\ m <= n
    BY <1>1, <2>1, <2>2, <2>3
  <2>5. k <= n
    BY <2>4, SMTT(30)
  <2>8. \A i \in 1..k : i \in 1..m
    BY <2>4, PlaceStays
  <2>6. \A i \in 1..k : z.receipts[i] = x.receipts[i]
    BY <2>2, <2>3, <2>8
  <2>7. x.reports \subseteq z.reports
    BY <2>2, <2>3
  <2> QED
    BY <2>3, <2>5, <2>6, <2>7
<1> QED
  BY <1>3

(* The reports of receipts, one receipt later.                             *)
LEMMA SubmittedLater ==
  ASSUME NEW receipts \in Seq(ReceiptRows), NEW receipt \in ReceiptRows
  PROVE  /\ Submitted(Append(receipts, receipt)) =
              Submitted(receipts) \cup ({receipt.report} \ {NoReport})
<1> PICK later : later = Append(receipts, receipt)
  OBVIOUS
<1>1. /\ DOMAIN receipts = 1..Len(receipts) /\ Len(receipts) \in Nat
      /\ DOMAIN later = 1..(Len(receipts) + 1)
      /\ \A i \in 1..Len(receipts) : later[i] = receipts[i]
      /\ later[Len(receipts) + 1] = receipt
  <2>1. later \in Seq(ReceiptRows) /\ Len(later) = Len(receipts) + 1
    BY AppendProperties
  <2> QED
    BY <2>1, AppendProperties, LenProperties
<1>2. \A x : (\E i \in DOMAIN later : x = later[i].report) <=>
             (\E i \in DOMAIN receipts : x = receipts[i].report) \/ x = receipt.report
  BY <1>1
<1> QED
  BY <1>2 DEF Submitted

(* Receipts that are the same one by one have the same reports.            *)
LEMMA SubmittedSame ==
  ASSUME NEW a \in Seq(ReceiptRows), NEW b \in Seq(ReceiptRows), Len(a) = Len(b),
         \A i \in 1..Len(a) : a[i] = b[i]
  PROVE  Submitted(a) = Submitted(b)
<1>1. DOMAIN a = 1..Len(a) /\ DOMAIN b = 1..Len(a)
  BY LenProperties
<1> QED
  BY <1>1 DEF Submitted

(* What a call was answered with stays in its place.                       *)
LEMMA ReceiptedStays ==
  ASSUME NEW db \in Databases, NEW later \in Databases, NEW op, op.run \in InvRuns,
         NEW receipt, NEW c, Grows(db.runs[op.run], later.runs[op.run]),
         Receipted(db, op, receipt, c)
  PROVE  Receipted(later, op, receipt, c)
<1> PICK x, y, r : x = db.runs[r] /\ y = later.runs[r] /\ r = op.run
  OBVIOUS
<1>1. /\ x # NotRun => Len(x.receipts) \in Nat
      /\ y # NotRun => Len(y.receipts) \in Nat
  BY RunFields
<1>2. Grows(x, y)
  OBVIOUS
<1>3. x # NotRun /\ receipt.sequence \in 1..Len(x.receipts) /\ x.receipts[receipt.sequence] = receipt
  BY DEF Receipted
<1>4. y # NotRun /\ receipt.sequence \in 1..Len(y.receipts) /\ y.receipts[receipt.sequence] = receipt
  <2> PICK i : i = receipt.sequence
    OBVIOUS
  <2>1. /\ y # NotRun /\ Len(x.receipts) <= Len(y.receipts)
        /\ \A j \in 1..Len(x.receipts) : y.receipts[j] = x.receipts[j]
    BY <1>2, <1>3 DEF Grows
  <2>2. i \in 1..Len(x.receipts) /\ x.receipts[i] = receipt
    BY <1>3
  <2> PICK m, n : m = Len(x.receipts) /\ n = Len(y.receipts)
    OBVIOUS
  <2>3. m \in Nat /\ n \in Nat /\ m <= n /\ i \in 1..m
    BY <1>1, <1>3, <2>1, <2>2
  <2>4. i \in 1..n
    BY <2>3, PlaceStays
  <2> QED
    BY <2>1, <2>2, <2>4
<1> QED
  BY <1>4 DEF Receipted

(* And what a listing has read.                                            *)
LEMMA ReadsStays ==
  ASSUME NEW db \in Databases, NEW later \in Databases, NEW r \in InvRuns, NEW seen,
         Grows(db.runs[r], later.runs[r])
  PROVE  /\ Begins(seen, db.runs[r]) => Begins(seen, later.runs[r])
         /\ Reads(seen, db.runs[r]) => Reads(seen, later.runs[r])
         /\ Begins(seen, db.runs[r]) /\ Len(later.runs[r].receipts) = seen.used =>
              Len(db.runs[r].receipts) = seen.used
<1> PICK x, y : x = db.runs[r] /\ y = later.runs[r]
  OBVIOUS
<1>1. /\ x # NotRun => Len(x.receipts) \in Nat
      /\ y # NotRun => Len(y.receipts) \in Nat
  BY RunFields
<1>2. Grows(x, y)
  OBVIOUS
<1>3. /\ Begins(seen, x) => Begins(seen, y)
      /\ Begins(seen, x) /\ Len(y.receipts) = seen.used => Len(x.receipts) = seen.used
  BY <1>1, <1>2, SMTT(30) DEF Grows, Begins
<1>4. Reads(seen, x) => Reads(seen, y)
  BY <1>1, <1>2, <1>3, SMT DEF Grows, Begins, Reads
<1> QED
  BY <1>3, <1>4

-----------------------------------------------------------------------------
(* One caller's step leaves the others as they are.                        *)

(* What the store has told a caller stays true while the store grows.      *)
LEMMA OthersRest ==
  ASSUME IntakeInvariant, NEW d \in Callers, asked'[d] = asked[d], records' \in Databases,
         \A r \in InvRuns : Grows(records.runs[r], records'.runs[r]),
         asked[d].step \in {"store", "commit"} => draft' = draft
  PROVE  AskedTyped(d)' /\ CallTrue(d)' /\ ListingTrue(d)'
<1> PICK q : q = asked[d]
  OBVIOUS
<1>1. /\ AskedTyped(d) /\ CallTrue(d) /\ ListingTrue(d) /\ asked'[d] = q
      /\ records \in Databases
  BY DEF IntakeInvariant, IntakeTyped
<1>2. AskedTyped(d)'
  BY <1>1 DEF AskedTyped
<1>3. CallTrue(d)'
  <2>1. SUFFICES ASSUME Calls(d)
                 PROVE  CallTrue(d)'
    BY <1>1 DEF CallTrue, Calls
  <2>2. q.op.run \in InvRuns /\ Grows(records.runs[q.op.run], records'.runs[q.op.run])
    BY <1>1, <2>1, OpKinds DEF Calls, AskedTyped
  <2>3. Receipted(records, q.op, q.reply.receipt, d) =>
          /\ Receipted(records', q.op, q.reply.receipt, d)
          /\ records.runs[q.op.run].reports \subseteq records'.runs[q.op.run].reports
    <3>1. Receipted(records, q.op, q.reply.receipt, d) => records.runs[q.op.run] # NotRun
      BY DEF Receipted
    <3> QED
      BY <1>1, <2>2, <3>1, ReceiptedStays DEF Grows
  <2>4. q.step = "answered" /\ q.reply.ok =>
          /\ Receipted(records, q.op, q.reply.receipt, d)
          /\ q.op.report \in records.runs[q.op.run].reports \cup {NoReport}
    BY <1>1, <2>1 DEF CallTrue, Stored
  <2>5. q.step = "answered" /\ q.reply.ok =>
          /\ Receipted(records', q.op, q.reply.receipt, d)
          /\ q.op.report \in records'.runs[q.op.run].reports \cup {NoReport}
    BY <2>3, <2>4
  <2>6. q.step \in {"store", "commit"} => draft' = draft
    OBVIOUS
  <2>7. /\ q.step \in {"store", "commit"} =>
             q.reply.ok /\ Receipted(draft', q.op, q.reply.receipt, d)
        /\ q.step = "commit" => q.op.report \in draft'.runs[q.op.run].reports \cup {NoReport}
    BY <1>1, <2>1, <2>6 DEF CallTrue
  <2> QED
    BY <1>1, <2>5, <2>7 DEF CallTrue, Stored
<1>4. ListingTrue(d)'
  <2>1. CASE q.step \notin ListSteps \cup {"answered"}
    BY <1>1, <2>1 DEF ListingTrue, ListSteps
  <2>2. CASE q.step \in ListSteps
    <3> PICK seen : seen = q.seen
      OBVIOUS
    <3>1. q.op.run \in InvRuns /\ Grows(records.runs[q.op.run], records'.runs[q.op.run])
      BY <1>1, <2>2, OpKinds DEF AskedTyped, ListSteps
    <3>2. /\ Begins(seen, records.runs[q.op.run])
          /\ q.step # "count" => Reads(seen, records.runs[q.op.run])
      BY <1>1, <2>2 DEF ListingTrue, Seen, Stored
    <3>3. /\ Begins(seen, records'.runs[q.op.run])
          /\ q.step # "count" => Reads(seen, records'.runs[q.op.run])
          /\ Len(records'.runs[q.op.run].receipts) = seen.used =>
               Len(records.runs[q.op.run].receipts) = seen.used
      BY <1>1, <3>1, <3>2, ReadsStays
    <3>4. /\ q.step = "recount" /\ Len(records.runs[q.op.run].receipts) = seen.used =>
               seen.reports = Submitted(seen.receipts)
          /\ q.step = "reids" => seen.reports = Submitted(seen.receipts)
      BY <1>1 DEF ListingTrue, Seen, Stored
    <3>5. q.step # "answered"
      BY <2>2 DEF ListSteps
    <3> QED
      BY <1>1, <3>3, <3>4, <3>5 DEF ListingTrue, Seen, Stored
  <2>3. CASE q.step = "answered"
    <3>1. SUFFICES ASSUME q.op.kind = "list", q.reply.ok
                   PROVE  /\ Reads(q.reply.listing, records'.runs[q.op.run])
                          /\ q.reply.listing.reports = Submitted(q.reply.listing.receipts)
      BY <1>1, <2>3 DEF ListingTrue, Stored, ListSteps
    <3>2. q.op.run \in InvRuns /\ Grows(records.runs[q.op.run], records'.runs[q.op.run])
      BY <1>1, <2>3, <3>1, OpKinds DEF AskedTyped
    <3>3. /\ Reads(q.reply.listing, records.runs[q.op.run])
          /\ q.reply.listing.reports = Submitted(q.reply.listing.receipts)
      BY <1>1, <2>3, <3>1 DEF ListingTrue, Stored
    <3> QED
      BY <1>1, <3>2, <3>3, ReadsStays
  <2> QED
    BY <2>1, <2>2, <2>3
<1> QED
  BY <1>2, <1>3, <1>4

(* A caller outside of a transaction moves on and touches nothing else.    *)
LEMMA CallerMoves ==
  ASSUME IntakeInvariant, NEW c \in Callers, UNCHANGED <<records, draft, writer>>,
         NEW q, asked' = [asked EXCEPT ![c] = q], asked[c].step \notin InTransaction,
         q.step \notin InTransaction,
         (AskedTyped(c) /\ CallTrue(c) /\ ListingTrue(c))'
  PROVE  IntakeInvariant'
<1>1. /\ IntakeTyped /\ OneWriter /\ Sound(records) /\ DraftSound /\ DraftAdds
      /\ records' = records /\ draft' = draft /\ writer' = writer
  BY DEF IntakeInvariant
<1>2. /\ DOMAIN asked' = Callers /\ asked'[c] = q
      /\ \A d \in Callers : d # c => asked'[d] = asked[d]
  BY <1>1 DEF IntakeTyped
<1>3. \A d \in Callers : d # c => AskedTyped(d)' /\ CallTrue(d)' /\ ListingTrue(d)'
  BY <1>1, <1>2, OthersRest, GrowsStays DEF IntakeTyped
<1>4. IntakeTyped'
  BY <1>1, <1>2, <1>3 DEF IntakeTyped
<1>5. OneWriter'
  BY <1>1, <1>2 DEF OneWriter, InTransaction
<1>6. DraftSound'
  BY <1>1, <1>2 DEF DraftSound, InTransaction
<1>7. Sound(records)' /\ DraftAdds'
  BY <1>1 DEF Sound, DraftAdds
<1> QED
  BY <1>3, <1>4, <1>5, <1>6, <1>7 DEF IntakeInvariant

(* What needs no word about calls and listings.                            *)
LEMMA NothingSaid ==
  ASSUME NEW c \in Callers, asked[c].step \in {"off", "asked", "began"}
  PROVE  CallTrue(c) /\ ListingTrue(c)
BY DEF CallTrue, ListingTrue, ListSteps

(* A caller asks something.                                               *)
LEMMA ArriveKeeps ==
  ASSUME IntakeInvariant, NEW c \in Callers, NEW op \in Operations, Arrive(c, op)
  PROVE  IntakeInvariant'
<1> PICK q : q = [step |-> "asked", op |-> op]
  OBVIOUS
<1>1. /\ asked' = [asked EXCEPT ![c] = q] /\ UNCHANGED <<records, draft, writer>>
      /\ asked[c].step = "off"
  BY DEF Arrive, NoRequest
<1>2. asked'[c] = q /\ q.step = "asked" /\ q.op = op
  BY <1>1 DEF IntakeInvariant, IntakeTyped
<1>3. AskedTyped(c)'
  BY <1>2 DEF AskedTyped, InTransaction, ListSteps
<1>4. CallTrue(c)' /\ ListingTrue(c)'
  BY <1>2 DEF CallTrue, ListingTrue, ListSteps
<1> QED
  BY <1>1, <1>2, <1>3, <1>4, CallerMoves DEF InTransaction

(* A caller takes its answer.                                             *)
LEMMA HearKeeps ==
  ASSUME IntakeInvariant, NEW c \in Callers, Hear(c), UNCHANGED <<records, draft, writer>>
  PROVE  IntakeInvariant'
<1> PICK q : q = NoRequest
  OBVIOUS
<1>1. asked' = [asked EXCEPT ![c] = q] /\ asked[c].step = "answered"
  BY DEF Hear
<1>2. asked'[c] = q /\ q.step = "off"
  BY <1>1 DEF IntakeInvariant, IntakeTyped, NoRequest
<1>3. AskedTyped(c)'
  BY <1>2 DEF AskedTyped, InTransaction, ListSteps
<1>4. CallTrue(c)' /\ ListingTrue(c)'
  BY <1>2 DEF CallTrue, ListingTrue, ListSteps, Calls
<1> QED
  BY <1>1, <1>2, <1>3, <1>4, CallerMoves DEF InTransaction

(* A step of a listing: what it has seen, and where it goes on.            *)
LEMMA LookKeeps ==
  ASSUME IntakeInvariant, NEW c \in Callers, NEW next \in ListSteps, NEW seen, NEW step,
         Look(c, step, next, seen), step \in {"asked"} \cup ListSteps,
         asked[c].op.kind = "list",
         Begins(seen, Stored(c)),
         next # "count" => Reads(seen, Stored(c)),
         next = "recount" /\ Len(Stored(c).receipts) = seen.used =>
           seen.reports = Submitted(seen.receipts),
         next = "reids" => seen.reports = Submitted(seen.receipts)
  PROVE  IntakeInvariant'
<1> PICK q : q = [step |-> next, op |-> asked[c].op, seen |-> seen]
  OBVIOUS
<1>1. /\ asked' = [asked EXCEPT ![c] = q] /\ UNCHANGED <<records, draft, writer>>
      /\ asked[c].step = step
  BY DEF Look, IntakeInvariant, IntakeTyped
<1>2. asked'[c] = q /\ q.step = next /\ q.op = asked[c].op /\ q.seen = seen
      /\ asked[c].op \in Operations
  BY <1>1 DEF IntakeInvariant, IntakeTyped, AskedTyped, ListSteps
<1>3. AskedTyped(c)'
  BY <1>2 DEF AskedTyped, InTransaction, ListSteps
<1>4. CallTrue(c)'
  BY <1>2 DEF CallTrue, Calls
<1>5. ListingTrue(c)'
  BY <1>1, <1>2 DEF ListingTrue, ListSteps, Seen, Stored
<1> QED
  BY <1>1, <1>2, <1>3, <1>4, <1>5, CallerMoves DEF InTransaction, ListSteps

-----------------------------------------------------------------------------
(* Listings.                                                               *)

(* A refused caller was promised nothing.                                  *)
LEMMA RefusedTold ==
  ASSUME IntakeInvariant, NEW c \in Callers, asked[c].step # "off",
         asked'[c] = [step |-> "answered", op |-> asked[c].op, reply |-> Refused]
  PROVE  AskedTyped(c)' /\ CallTrue(c)' /\ ListingTrue(c)'
<1> PICK q : q = [step |-> "answered", op |-> asked[c].op, reply |-> Refused]
  OBVIOUS
<1>1. /\ asked'[c] = q /\ q.step = "answered" /\ q.op = asked[c].op /\ ~q.reply.ok
      /\ asked[c].op \in Operations
  BY DEF Refused, IntakeInvariant, IntakeTyped, AskedTyped
<1>2. AskedTyped(c)'
  BY <1>1 DEF AskedTyped, InTransaction, ListSteps
<1>3. CallTrue(c)' /\ ListingTrue(c)'
  BY <1>1 DEF CallTrue, ListingTrue, ListSteps
<1> QED
  BY <1>2, <1>3

(* However a transaction ends, the next one begins from what is committed. *)
LEMMA TransactionEnds ==
  ASSUME IntakeInvariant, records' \in Databases, Sound(records)', draft' = records',
         writer' = NoCaller, DOMAIN asked' = Callers,
         \A c \in Callers : /\ asked'[c].step \notin InTransaction
                            /\ AskedTyped(c)' /\ CallTrue(c)' /\ ListingTrue(c)'
  PROVE  IntakeInvariant'
<1>1. IntakeTyped' /\ OneWriter'
  BY DEF IntakeTyped, OneWriter, InTransaction
<1>2. DraftSound'
  BY DEF DraftSound, Sound, InTransaction
<1>3. DraftAdds'
  BY GrowsStays DEF DraftAdds
<1> QED
  BY <1>1, <1>2, <1>3 DEF IntakeInvariant

(* A refusal drops the draft of a transaction and nothing else.            *)
LEMMA RefuseKeeps ==
  ASSUME IntakeInvariant, NEW c \in Callers, asked[c].step # "off", Refuse(c)
  PROVE  IntakeInvariant'
<1> PICK q : q = [step |-> "answered", op |-> asked[c].op, reply |-> Refused]
  OBVIOUS
<1>1. /\ asked' = [asked EXCEPT ![c] = q] /\ records' = records
      /\ DOMAIN asked = Callers /\ records \in Databases /\ OneWriter /\ Sound(records)
  BY DEF Refuse, Answer, IntakeInvariant, IntakeTyped
<1>2. /\ DOMAIN asked' = Callers /\ asked'[c] = q /\ q.step = "answered"
      /\ \A d \in Callers : d # c => asked'[d] = asked[d]
  BY <1>1
<1>3. AskedTyped(c)' /\ CallTrue(c)' /\ ListingTrue(c)'
  BY <1>2, RefusedTold
<1>4. CASE writer = c
  <2>1. writer' = NoCaller /\ draft' = records'
    BY <1>1, <1>4 DEF Refuse, Release
  <2>2. \A d \in Callers : asked'[d].step \notin InTransaction
    BY <1>1, <1>2, <1>4 DEF OneWriter, InTransaction
  <2>3. \A d \in Callers : d # c => AskedTyped(d)' /\ CallTrue(d)' /\ ListingTrue(d)'
    BY <1>1, <1>2, <2>2, OthersRest, GrowsStays DEF InTransaction
  <2>4. Sound(records)'
    BY <1>1 DEF Sound
  <2> QED
    BY <1>1, <1>2, <1>3, <2>1, <2>2, <2>3, <2>4, TransactionEnds
<1>5. CASE writer # c
  <2>1. UNCHANGED <<records, draft, writer>>
    BY <1>1, <1>5 DEF Refuse, Release
  <2>2. asked[c].step \notin InTransaction /\ q.step \notin InTransaction
    BY <1>1, <1>2, <1>5 DEF OneWriter, InTransaction
  <2> QED
    BY <1>1, <1>3, <2>1, <2>2, CallerMoves
<1> QED
  BY <1>4, <1>5

(* A restart refuses whoever waits.                                        *)
LEMMA RestartKeeps ==
  ASSUME IntakeInvariant, RestartGateway
  PROVE  IntakeInvariant'
<1>1. /\ records' = records /\ draft' = records' /\ writer' = NoCaller
      /\ records \in Databases /\ Sound(records)
      /\ DOMAIN asked' = Callers
  BY DEF RestartGateway, IntakeInvariant, IntakeTyped
<1>2. ASSUME NEW c \in Callers
      PROVE  /\ asked'[c].step \notin InTransaction
             /\ AskedTyped(c)' /\ CallTrue(c)' /\ ListingTrue(c)'
  <2>1. CASE Waits(c)
    <3>1. asked'[c] = [step |-> "answered", op |-> asked[c].op, reply |-> Refused]
      BY <2>1 DEF RestartGateway
    <3>2. asked[c].step # "off"
      BY <2>1 DEF Waits
    <3>3. asked'[c].step \notin InTransaction
      BY <3>1 DEF InTransaction
    <3> QED
      BY <3>1, <3>2, <3>3, RefusedTold
  <2>2. CASE ~Waits(c)
    <3>1. asked'[c] = asked[c] /\ asked[c].step \in {"off", "answered"}
      BY <2>2 DEF RestartGateway, Waits
    <3>2. asked'[c].step \notin InTransaction /\ asked[c].step \notin {"store", "commit"}
      BY <3>1 DEF InTransaction
    <3> QED
      BY <1>1, <3>1, <3>2, OthersRest, GrowsStays
  <2> QED
    BY <2>1, <2>2
<1>3. Sound(records)'
  BY <1>1 DEF Sound
<1> QED
  BY <1>1, <1>2, <1>3, TransactionEnds

(* The first SELECT of a listing: the run, with the calls it has used.     *)
LEMMA ListRunKeeps ==
  ASSUME IntakeInvariant, NEW c \in Callers, ListRun(c)
  PROVE  IntakeInvariant'
<1>1. asked[c].step = "asked" /\ asked[c].op.kind = "list"
  BY DEF ListRun
<1>2. CASE Stored(c) = NotRun
  <2>1. Refuse(c)
    BY <1>2 DEF ListRun
  <2> QED
    BY <1>1, <2>1, RefuseKeeps
<1>3. CASE Stored(c) # NotRun
  <2> PICK run, seen : run = Stored(c) /\ seen = [used |-> run.used]
    OBVIOUS
  <2>1. Look(c, "asked", "count", seen) /\ seen.used = run.used
    BY <1>3 DEF ListRun
  <2>2. /\ asked[c].op.run \in InvRuns /\ records \in Databases
        /\ run = records.runs[asked[c].op.run] /\ run # NotRun
    BY <1>1, <1>3, OpKinds DEF IntakeInvariant, IntakeTyped, AskedTyped, Stored
  <2>3. run.used = Len(run.receipts) /\ Len(run.receipts) \in Nat
    BY <2>2, RunFields DEF IntakeInvariant, Sound, Numbered
  <2>4. Begins(seen, Stored(c))
    BY <2>1, <2>2, <2>3 DEF Begins
  <2> QED
    BY <1>1, <2>1, <2>4, LookKeeps DEF ListSteps
<1> QED
  BY <1>2, <1>3

(* The receipts are read: as many as were counted.                         *)
LEMMA ListReceiptsKeeps ==
  ASSUME IntakeInvariant, NEW c \in Callers, NEW step, NEW next,
         <<step, next>> \in {<<"count", "ids">>, <<"recount", "reids">>},
         ListReceipts(c, step, next)
  PROVE  IntakeInvariant'
<1> PICK run, old : run = Stored(c) /\ old = asked[c].seen
  OBVIOUS
<1>0. \/ step = "count" /\ next = "ids"
      \/ step = "recount" /\ next = "reids"
  OBVIOUS
<1>1. asked[c].step = step /\ step \in ListSteps /\ next \in ListSteps
  BY <1>0 DEF ListReceipts, ListSteps
<1>2. /\ asked[c].op.kind = "list" /\ asked[c].op.run \in InvRuns /\ records \in Databases
      /\ run = records.runs[asked[c].op.run]
      /\ Begins(old, run) /\ (step = "recount" => Reads(old, run))
      /\ step = "recount" /\ Len(run.receipts) = old.used =>
           old.reports = Submitted(old.receipts)
  BY <1>0, <1>1, OpKinds
     DEF IntakeInvariant, IntakeTyped, AskedTyped, ListingTrue, ListSteps, Stored, Seen
<1>3. CASE ~Counted(run.limit, old.used, run.receipts)
  <2>1. Refuse(c)
    BY <1>3 DEF ListReceipts, Seen
  <2> QED
    BY <1>0, <1>1, <2>1, RefuseKeeps DEF ListSteps
<1>4. CASE Counted(run.limit, old.used, run.receipts)
  <2> PICK seen : seen = [used |-> old.used, receipts |-> run.receipts,
                          reports |-> IF step = "count" THEN {} ELSE old.reports]
    OBVIOUS
  <2>1. Look(c, step, next, seen) /\ old.used = Len(run.receipts)
    BY <1>4 DEF ListReceipts, Seen, Counted
  <2>2. /\ seen.used = old.used /\ seen.receipts = run.receipts
        /\ step # "count" => seen.reports = old.reports
    OBVIOUS
  <2>3. run # NotRun /\ run.receipts \in Seq(ReceiptRows) /\ Len(run.receipts) \in Nat
    BY <1>2, RunFields DEF Begins
  <2>4. Begins(seen, Stored(c)) /\ Reads(seen, Stored(c))
    BY <2>1, <2>2, <2>3 DEF Begins, Reads
  <2>5. next = "reids" => seen.reports = Submitted(seen.receipts)
    <3>1. SUFFICES ASSUME next = "reids"
                   PROVE  seen.reports = Submitted(seen.receipts)
      OBVIOUS
    <3>2. step = "recount" /\ Reads(old, run) /\ seen.reports = old.reports
      BY <1>0, <1>2, <2>2, <3>1, SMTT(30)
    <3>3. old.reports = Submitted(old.receipts)
      BY <1>2, <2>1, <3>2
    <3>4. Submitted(old.receipts) = Submitted(run.receipts)
      BY <2>1, <2>3, <3>2, SubmittedSame DEF Reads
    <3> QED
      BY <2>2, <3>2, <3>3, <3>4
  <2>6. next # "recount"
    BY <1>0
  <2> QED
    BY <1>1, <1>2, <2>1, <2>4, <2>5, <2>6, LookKeeps, Zenon
<1> QED
  BY <1>3, <1>4

(* The reports are read: those of the receipts, if none was added since.   *)
LEMMA ListReportsKeeps ==
  ASSUME IntakeInvariant, NEW c \in Callers, ListReports(c)
  PROVE  IntakeInvariant'
<1> PICK run, old : run = Stored(c) /\ old = asked[c].seen
  OBVIOUS
<1> PICK seen : seen = [used |-> old.used, receipts |-> old.receipts,
                        reports |-> run.reports]
  BY Zenon
<1>1. /\ asked[c].step = "reports" /\ Look(c, "reports", "recount", seen)
      /\ seen.used = old.used /\ seen.receipts = old.receipts /\ seen.reports = run.reports
  BY DEF ListReports, Look, Seen
<1>2. /\ asked[c].op.kind = "list" /\ asked[c].op.run \in InvRuns /\ records \in Databases
      /\ run = records.runs[asked[c].op.run] /\ Reads(old, run) /\ run # NotRun
  BY <1>1, OpKinds, Zenon
     DEF IntakeInvariant, IntakeTyped, AskedTyped, ListingTrue, ListSteps, Stored, Seen,
         Reads, Begins
<1>3. Reads(seen, Stored(c)) /\ Begins(seen, Stored(c))
  BY <1>1, <1>2, Zenon DEF Reads, Begins
<1>4. Len(run.receipts) = seen.used => seen.reports = Submitted(seen.receipts)
  <2>1. SUFFICES ASSUME Len(run.receipts) = seen.used
                 PROVE  run.reports = Submitted(old.receipts)
    BY <1>1
  <2>2. run.reports = Submitted(run.receipts)
    BY <1>2 DEF IntakeInvariant, Sound, Accounted
  <2>3. run.receipts \in Seq(ReceiptRows)
    BY <1>2, RunFields
  <2>4. Submitted(old.receipts) = Submitted(run.receipts)
    BY <1>1, <1>2, <2>1, <2>3, SubmittedSame DEF Reads
  <2> QED
    BY <2>2, <2>4
<1> QED
  BY <1>1, <1>2, <1>3, <1>4, LookKeeps, Zenon DEF ListSteps

(* The other two only compare.                                             *)
LEMMA ListIdsKeeps ==
  ASSUME IntakeInvariant, NEW c \in Callers, ListIds(c) \/ ListIdsAgain(c)
  PROVE  IntakeInvariant'
<1> PICK run, old : run = Stored(c) /\ old = asked[c].seen
  OBVIOUS
<1>1. asked[c].step \in {"ids", "reids"}
  BY DEF ListIds, ListIdsAgain
<1>2. /\ asked[c].op.kind = "list" /\ asked[c].op \in Operations /\ Reads(old, run)
      /\ asked[c].step = "reids" => old.reports = Submitted(old.receipts)
  BY <1>1 DEF IntakeInvariant, IntakeTyped, AskedTyped, ListingTrue, ListSteps, Stored, Seen
<1>3. CASE Refuse(c)
  BY <1>1, <1>3, RefuseKeeps
<1>4. CASE asked[c].step = "ids" /\ ~Refuse(c)
  <2>1. Look(c, "ids", "reports", old)
    BY <1>4 DEF ListIds, ListIdsAgain, Seen
  <2>2. Begins(old, Stored(c))
    BY <1>2 DEF Reads
  <2> QED
    BY <1>2, <2>1, <2>2, LookKeeps DEF ListSteps
<1>5. CASE asked[c].step = "reids" /\ ~Refuse(c)
  <2> PICK q : q = [step |-> "answered", op |-> asked[c].op,
                    reply |-> [ok |-> TRUE, listing |-> old]]
    OBVIOUS
  <2>1. asked' = [asked EXCEPT ![c] = q] /\ UNCHANGED <<records, draft, writer>>
    BY <1>5 DEF ListIds, ListIdsAgain, Seen, Answer, IntakeInvariant, IntakeTyped
  <2>2. /\ asked'[c] = q /\ q.step = "answered" /\ q.op = asked[c].op
        /\ q.reply.listing = old
    BY <2>1 DEF IntakeInvariant, IntakeTyped
  <2>3. AskedTyped(c)'
    BY <1>2, <2>2 DEF AskedTyped, InTransaction, ListSteps
  <2>4. CallTrue(c)'
    BY <1>2, <2>2 DEF CallTrue, Calls
  <2>5. ListingTrue(c)'
    BY <1>2, <1>5, <2>1, <2>2 DEF ListingTrue, ListSteps, Stored
  <2> QED
    BY <1>1, <2>1, <2>2, <2>3, <2>4, <2>5, CallerMoves DEF InTransaction
<1> QED
  BY <1>1, <1>3, <1>4, <1>5

-----------------------------------------------------------------------------
(* Transactions.                                                           *)

(* A transaction begins, from what is committed (BEGIN IMMEDIATE).        *)
LEMMA BeginKeeps ==
  ASSUME IntakeInvariant, NEW c \in Callers, Begin(c)
  PROVE  IntakeInvariant'
<1> PICK q : q = [asked[c] EXCEPT !.step = "began"]
  OBVIOUS
<1>1. /\ asked' = [asked EXCEPT ![c] = q] /\ asked[c].step = "asked"
      /\ asked[c].op.kind # "list" /\ writer = NoCaller /\ writer' = c
      /\ records' = records /\ draft' = records
      /\ records \in Databases /\ Sound(records) /\ OneWriter /\ DraftSound
      /\ asked[c] \in [step : {"asked", "began"}, op : Operations]
  BY DEF Begin, IntakeInvariant, IntakeTyped, AskedTyped
<1>2. /\ q \in [step : {"asked", "began"}, op : Operations]
      /\ q.step = "began" /\ q.op = asked[c].op
  BY <1>1
<1>3. /\ DOMAIN asked' = Callers /\ asked'[c] = q
      /\ \A d \in Callers : d # c => asked'[d] = asked[d]
  BY <1>1 DEF IntakeInvariant, IntakeTyped
<1>4. draft = records /\ draft' = draft
  BY <1>1 DEF OneWriter
<1>5. \A d \in Callers : asked[d].step \notin InTransaction
  BY <1>1, IntakeAssumption DEF OneWriter
<1>6. \A d \in Callers : d # c => AskedTyped(d)' /\ CallTrue(d)' /\ ListingTrue(d)'
  BY <1>1, <1>3, <1>4, OthersRest, GrowsStays
<1>7. AskedTyped(c)'
  BY <1>1, <1>2, <1>3 DEF AskedTyped, InTransaction, ListSteps
<1>8. CallTrue(c)' /\ ListingTrue(c)'
  BY <1>2, <1>3 DEF CallTrue, ListingTrue, ListSteps
<1>9. IntakeTyped'
  BY <1>1, <1>3, <1>6, <1>7 DEF IntakeTyped
<1>10. OneWriter'
  BY <1>1, <1>2, <1>3, <1>5, IntakeAssumption DEF OneWriter, InTransaction
<1>11. DraftSound'
  <2>1. \A d \in Callers : asked'[d].step # "store"
    BY <1>2, <1>3, <1>5 DEF InTransaction
  <2> QED
    BY <1>1, <1>4, <2>1 DEF DraftSound, Sound
<1>12. Sound(records)' /\ DraftAdds'
  BY <1>1, GrowsStays DEF Sound, DraftAdds
<1> QED
  BY <1>6, <1>7, <1>8, <1>9, <1>10, <1>11, <1>12 DEF IntakeInvariant

(* A draft that a request may commit, but for the report it still owes.    *)
Whole(db, q) ==
  \A r \in InvRuns : db.runs[r] # NotRun =>
    /\ Numbered(db.runs[r])
    /\ Accounted(db.runs[r].receipts,
         db.runs[r].reports \cup
           (IF q.step = "store" /\ r = q.op.run THEN {q.op.report} ELSE {}))

(* What a call will be answered with is in the draft.                      *)
Backed(db, q, c) ==
  q.op.kind \in {"read", "submit"} =>
    /\ q.reply.ok /\ Receipted(db, q.op, q.reply.receipt, c)
    /\ q.step = "commit" =>
         q.op.report \in db.runs[q.op.run].reports \cup {NoReport}

(* Between statements of other callers the draft accounts for itself.     *)
LEMMA SoundIsWhole ==
  ASSUME NEW db, NEW q, Sound(db), q.step # "store"
  PROVE  Whole(db, q)
<1>1. \A r \in InvRuns : db.runs[r].reports \cup {} = db.runs[r].reports
  OBVIOUS
<1> QED
  BY <1>1 DEF Whole, Sound, Accounted

(* A step of the transaction: the draft may only add, and its caller is    *)
(* told what is so in the draft.                                           *)
LEMMA DraftKeeps ==
  ASSUME IntakeInvariant, NEW c \in Callers, asked[c].step \in {"began", "store"},
         NEW q, asked' = [asked EXCEPT ![c] = q], q.op = asked[c].op,
         q.step = "commit" \/ (q.step = "store" /\ q.op.kind = "submit"),
         UNCHANGED <<records, writer>>, draft' \in Databases,
         \A r \in InvRuns : Grows(draft.runs[r], draft'.runs[r]),
         Whole(draft', q), Backed(draft', q, c)
  PROVE  IntakeInvariant'
<1>1. /\ IntakeTyped /\ OneWriter /\ DraftAdds /\ Sound(records)
      /\ AskedTyped(c) /\ records \in Databases /\ draft \in Databases
  BY DEF IntakeInvariant, IntakeTyped
<1>2. /\ DOMAIN asked' = Callers /\ asked'[c] = q
      /\ \A d \in Callers : d # c => asked'[d] = asked[d]
  BY <1>1 DEF IntakeTyped
<1>3. writer = c /\ \A d \in Callers : d # c => asked[d].step \notin InTransaction
  BY <1>1 DEF OneWriter, InTransaction
<1>4. \A d \in Callers : d # c => AskedTyped(d)' /\ CallTrue(d)' /\ ListingTrue(d)'
  BY <1>1, <1>2, <1>3, OthersRest, GrowsStays DEF InTransaction
<1>5. q.op \in Operations /\ q.op.kind # "list"
  BY <1>1 DEF AskedTyped, InTransaction
<1>6. AskedTyped(c)'
  BY <1>2, <1>5 DEF AskedTyped, InTransaction, ListSteps
<1>7. CallTrue(c)'
  BY <1>2 DEF CallTrue, Calls, Backed
<1>8. ListingTrue(c)'
  BY <1>2 DEF ListingTrue, ListSteps
<1>9. IntakeTyped'
  BY <1>1, <1>2, <1>4, <1>6 DEF IntakeTyped
<1>10. OneWriter'
  BY <1>1, <1>2, <1>3, IntakeAssumption DEF OneWriter, InTransaction
<1>11. DraftSound'
  <2>1. \A r \in InvRuns : draft'.runs[r] # NotRun => Numbered(draft'.runs[r])
    BY DEF Whole
  <2>2. \A d \in Callers : asked'[d].step \in InTransaction => d = c
    BY <1>2, <1>3
  <2>3. CASE q.step = "store"
    BY <1>2, <2>1, <2>2, <2>3 DEF DraftSound, Whole, InTransaction
  <2>4. CASE q.step = "commit"
    <3>1. Sound(draft')
      BY <2>4 DEF Sound, Whole, Accounted
    <3> QED
      BY <1>2, <2>1, <2>2, <2>4, <3>1 DEF DraftSound, Sound, InTransaction
  <2> QED
    BY <2>3, <2>4
<1>12. Sound(records)'
  BY <1>1 DEF Sound
<1>13. DraftAdds'
  BY <1>1, GrowsAgain DEF DraftAdds
<1> QED
  BY <1>4, <1>6, <1>7, <1>8, <1>9, <1>10, <1>11, <1>12, <1>13 DEF IntakeInvariant

(* Until its first write a transaction sees what is committed.             *)
LEMMA BeganSees ==
  ASSUME IntakeInvariant, NEW c \in Callers, asked[c].step = "began"
  PROVE  /\ draft \in Databases /\ draft = records /\ Sound(draft)
         /\ asked[c].op \in Operations
BY DEF IntakeInvariant, IntakeTyped, AskedTyped, OneWriter

(* A commit makes the draft what is stored, and only now answers.          *)
LEMMA CommitKeeps ==
  ASSUME IntakeInvariant, NEW c \in Callers, Commit(c)
  PROVE  IntakeInvariant'
<1> PICK q : q = [step |-> "answered", op |-> asked[c].op, reply |-> asked[c].reply]
  OBVIOUS
<1>1. /\ asked' = [asked EXCEPT ![c] = q] /\ asked[c].step = "commit"
      /\ records' = draft /\ draft' = draft /\ writer' = NoCaller
      /\ draft \in Databases /\ OneWriter /\ DraftSound
      /\ AskedTyped(c) /\ CallTrue(c)
  BY DEF Commit, Answer, IntakeInvariant, IntakeTyped
<1>2. /\ DOMAIN asked' = Callers /\ asked'[c] = q /\ q.step = "answered"
      /\ q.op = asked[c].op /\ q.reply = asked[c].reply
      /\ \A d \in Callers : d # c => asked'[d] = asked[d]
  BY <1>1 DEF IntakeInvariant, IntakeTyped
<1>3. \A r \in InvRuns : Grows(records.runs[r], records'.runs[r])
  BY <1>1 DEF IntakeInvariant, DraftAdds
<1>4. \A d \in Callers : d # c => AskedTyped(d)' /\ CallTrue(d)' /\ ListingTrue(d)'
  BY <1>1, <1>2, <1>3, OthersRest
<1>5. \A d \in Callers : asked'[d].step \notin InTransaction
  BY <1>1, <1>2 DEF OneWriter, InTransaction
<1>6. AskedTyped(c)'
  BY <1>1, <1>2 DEF AskedTyped, InTransaction, ListSteps
<1>7. CallTrue(c)'
  BY <1>1, <1>2 DEF CallTrue, Calls, Stored
<1>8. ListingTrue(c)'
  BY <1>1, <1>2 DEF ListingTrue, AskedTyped, InTransaction, ListSteps
<1>9. Sound(records)'
  BY <1>1 DEF DraftSound, Sound
<1> QED
  BY <1>1, <1>2, <1>4, <1>5, <1>6, <1>7, <1>8, <1>9, TransactionEnds

(* A bundle is imported.                                                  *)
LEMMA ImportKeeps ==
  ASSUME IntakeInvariant, NEW c \in Callers, ImportBundle(c)
  PROVE  IntakeInvariant'
<1> PICK op, content : op = asked[c].op /\ content = op.content
  OBVIOUS
<1>1. /\ asked[c].step = "began" /\ op.kind = "import"
      /\ draft \in Databases /\ Sound(draft) /\ op \in Operations
  BY BeganSees DEF ImportBundle, Began
<1>2. CASE Refuse(c)
  BY <1>1, <1>2, RefuseKeeps
<1>3. CASE ~Refuse(c)
  <2> PICK q : q = [step |-> "commit", op |-> op, reply |-> [ok |-> TRUE]]
    OBVIOUS
  <2>1. /\ asked' = [asked EXCEPT ![c] = q] /\ UNCHANGED <<records, writer>>
        /\ draft' = [draft EXCEPT !.bundle = content]
    BY <1>3 DEF ImportBundle, Propose, IntakeInvariant, IntakeTyped
  <2>2. draft' \in Databases /\ draft'.runs = draft.runs
    BY <1>1, <2>1, OpKinds DEF Databases
  <2>3. \A r \in InvRuns : Grows(draft.runs[r], draft'.runs[r])
    BY <1>1, <2>2, GrowsStays
  <2>4. q.step = "commit" /\ q.op = op
    OBVIOUS
  <2>5. Sound(draft')
    BY <1>1, <2>2 DEF Sound
  <2>6. Whole(draft', q) /\ Backed(draft', q, c)
    BY <1>1, <2>4, <2>5, SoundIsWhole DEF Backed
  <2> QED
    BY <1>1, <2>1, <2>2, <2>3, <2>4, <2>6, DraftKeeps
<1> QED
  BY <1>2, <1>3

(* A run is created.                                                      *)
LEMMA CreateKeeps ==
  ASSUME IntakeInvariant, NEW c \in Callers, CreateRun(c)
  PROVE  IntakeInvariant'
<1> PICK op, r : op = asked[c].op /\ r = op.run
  OBVIOUS
<1>1. /\ asked[c].step = "began" /\ op.kind = "create" /\ r \in InvRuns /\ op.limit \in Limits
      /\ draft \in Databases /\ Sound(draft) /\ op \in Operations
  BY BeganSees, OpKinds DEF CreateRun, Began
<1>2. CASE Refuse(c)
  BY <1>1, <1>2, RefuseKeeps
<1>3. CASE ~Refuse(c)
  <2> PICK q : q = [step |-> "commit", op |-> op, reply |-> [ok |-> TRUE]]
    OBVIOUS
  <2> PICK run : run = [limit |-> op.limit, content |-> draft.bundle, used |-> 0,
                        receipts |-> <<>>, reports |-> {}]
    OBVIOUS
  <2>1. /\ asked' = [asked EXCEPT ![c] = q] /\ UNCHANGED <<records, writer>>
        /\ \/ draft' = draft
           \/ /\ draft.runs[r] = NotRun /\ draft.bundle # NoContent
              /\ draft' = [draft EXCEPT !.runs[r] = run]
    BY <1>3 DEF CreateRun, Propose, IntakeInvariant, IntakeTyped
  <2>2. q.step = "commit" /\ q.op = op
    OBVIOUS
  <2>3. Backed(draft', q, c)
    BY <1>1, <2>2 DEF Backed
  <2>4. CASE draft' = draft
    <3>1. \A s \in InvRuns : Grows(draft.runs[s], draft'.runs[s])
      BY <1>1, <2>4, GrowsStays
    <3>2. Whole(draft', q)
      BY <1>1, <2>2, <2>4, SoundIsWhole
    <3> QED
      BY <1>1, <2>1, <2>2, <2>3, <2>4, <3>1, <3>2, DraftKeeps
  <2>5. CASE draft.runs[r] = NotRun /\ draft.bundle # NoContent
             /\ draft' = [draft EXCEPT !.runs[r] = run]
    <3>1. run \in RunRows
      <4>1. draft.bundle \in Contents /\ <<>> \in Seq(ReceiptRows)
        BY <1>1, <2>5 DEF Databases
      <4> QED
        BY <1>1, <4>1 DEF RunRows
    <3>2. /\ draft' \in Databases /\ draft'.runs[r] = run
          /\ \A s \in InvRuns : s # r => draft'.runs[s] = draft.runs[s]
      <4>1. draft \in Databases /\ r \in InvRuns
        BY <1>1
      <4>2. draft' = [draft EXCEPT !.runs[r] = run]
        BY <2>5
      <4> QED
        BY <3>1, <4>1, <4>2 DEF Databases
    <3>3. \A s \in InvRuns : Grows(draft.runs[s], draft'.runs[s])
      <4>1. \A s \in InvRuns : s # r => Grows(draft.runs[s], draft'.runs[s])
        BY <1>1, <3>2, GrowsStays
      <4>2. Grows(draft.runs[r], draft'.runs[r])
        BY <2>5 DEF Grows
      <4> QED
        BY <4>1, <4>2
    <3>4. Numbered(run) /\ Accounted(run.receipts, run.reports)
      BY DEF Numbered, Accounted, Submitted
    <3>5. Sound(draft')
      BY <1>1, <3>2, <3>4 DEF Sound
    <3>6. Whole(draft', q)
      BY <2>2, <3>5, SoundIsWhole
    <3> QED
      BY <1>1, <2>1, <2>2, <2>3, <2>5, <3>2, <3>3, <3>6, DraftKeeps
  <2> QED
    BY <2>1, <2>4, <2>5
<1> QED
  BY <1>2, <1>3

(* One call more of a run: the next receipt, and everything else as it was. *)
LEMMA SpentRun ==
  ASSUME NEW run \in RunRows, Numbered(run), NEW receipt \in ReceiptRows,
         receipt.sequence = run.used + 1
  PROVE  /\ Spent(run, receipt) \in RunRows /\ Numbered(Spent(run, receipt))
         /\ Spent(run, receipt).reports = run.reports
         /\ receipt.sequence \in 1..Len(Spent(run, receipt).receipts)
         /\ Spent(run, receipt).receipts[receipt.sequence] = receipt
         /\ Submitted(Spent(run, receipt).receipts) =
              Submitted(run.receipts) \cup ({receipt.report} \ {NoReport})
         /\ Grows(run, Spent(run, receipt))
<1> PICK old, n, later : old = run.receipts /\ n = run.used /\ later = Append(old, receipt)
  OBVIOUS
<1>1. old \in Seq(ReceiptRows) /\ n \in Nat /\ run.reports \subseteq InvReports
  BY DEF RunRows
<1>2. n = Len(old) /\ \A i \in 1..Len(old) : old[i].sequence = i
  BY DEF Numbered
<1>3. later \in Seq(ReceiptRows) /\ Len(later) = n + 1
  BY <1>1, <1>2, AppendProperties
<1>4. (\A i \in 1..n : later[i] = old[i]) /\ later[n + 1] = receipt
  BY <1>1, <1>2, AppendProperties
<1> PICK new : new = Spent(run, receipt)
  OBVIOUS
<1>5. /\ new \in RunRows /\ new.used = n + 1 /\ new.receipts = later
      /\ new.reports = run.reports
  <2> PICK mid : mid = [run EXCEPT !.used = n + 1]
    OBVIOUS
  <2>1. /\ mid \in RunRows /\ mid.used = n + 1 /\ mid.receipts = old
        /\ mid.reports = run.reports
    BY <1>1 DEF RunRows
  <2>2. new = [mid EXCEPT !.receipts = later]
    BY DEF Spent
  <2> QED
    BY <1>3, <2>1, <2>2 DEF RunRows
<1>6. Numbered(new)
  BY <1>1, <1>2, <1>3, <1>4, <1>5 DEF Numbered
<1>7. receipt.sequence \in 1..Len(new.receipts) /\ new.receipts[receipt.sequence] = receipt
  BY <1>1, <1>3, <1>4, <1>5
<1>8. Submitted(new.receipts) = Submitted(old) \cup ({receipt.report} \ {NoReport})
  BY <1>1, <1>5, SubmittedLater
<1>9. Grows(run, new)
  BY <1>1, <1>2, <1>3, <1>4, <1>5, RowsAreRuns DEF Grows
<1> QED
  BY <1>5, <1>6, <1>7, <1>8, <1>9

(* A call: the earlier receipt of the report, or a receipt of its own.     *)
LEMMA SpendKeeps ==
  ASSUME IntakeInvariant, NEW c \in Callers, SpendCall(c)
  PROVE  IntakeInvariant'
<1> PICK op, r, run : op = asked[c].op /\ r = op.run /\ run = draft.runs[r]
  OBVIOUS
<1> PICK receipt : receipt = Receipt(c, run, op.report)
  OBVIOUS
<1>1. /\ asked[c].step = "began" /\ op.kind \in {"read", "submit"} /\ r \in InvRuns
      /\ draft \in Databases /\ Sound(draft) /\ op \in Operations
  BY BeganSees, OpKinds, Zenon DEF SpendCall, Began
<1>2. CASE Refuse(c)
  BY <1>1, <1>2, RefuseKeeps
<1>3. CASE ~Refuse(c)
  <2>1. /\ run # NotRun /\ UNCHANGED <<records, writer>>
        /\ \/ /\ op.kind = "submit" /\ op.report \in run.reports /\ draft' = draft
              /\ \E i \in DOMAIN run.receipts :
                   /\ run.receipts[i].report = op.report
                   /\ asked' = [asked EXCEPT ![c] =
                        [step |-> "commit", op |-> op,
                         reply |-> [ok |-> TRUE, receipt |-> run.receipts[i]]]]
           \/ /\ draft' = [draft EXCEPT !.runs[r] = Spent(run, receipt)]
              /\ asked' = [asked EXCEPT ![c] =
                   [step |-> IF op.kind = "submit" THEN "store" ELSE "commit",
                    op |-> op, reply |-> [ok |-> TRUE, receipt |-> receipt]]]
    BY <1>3, Zenon DEF SpendCall, Propose, Bound, IntakeInvariant, IntakeTyped
  <2>2. run \in RunRows /\ run.receipts \in Seq(ReceiptRows) /\ run.used \in Nat
    BY <1>1, <2>1, RunFields, Zenon
  <2>3. Numbered(run) /\ run.reports = Submitted(run.receipts)
    BY <1>1, <2>1, Zenon DEF Sound, Accounted
  <2>5. ASSUME NEW i \in DOMAIN run.receipts, run.receipts[i].report = op.report,
               op.kind = "submit", op.report \in run.reports, draft' = draft,
               asked' = [asked EXCEPT ![c] =
                 [step |-> "commit", op |-> op,
                  reply |-> [ok |-> TRUE, receipt |-> run.receipts[i]]]]
        PROVE  IntakeInvariant'
    <3> PICK old, q : /\ old = run.receipts[i]
                      /\ q = [step |-> "commit", op |-> op,
                              reply |-> [ok |-> TRUE, receipt |-> old]]
      OBVIOUS
    <3>1. /\ asked' = [asked EXCEPT ![c] = q] /\ q.step = "commit" /\ q.op = op
          /\ q.reply.ok /\ q.reply.receipt = old
      BY <2>5
    <3>2. i \in 1..Len(run.receipts) /\ old.sequence = i
      BY <2>2, <2>3, LenProperties, Zenon DEF Numbered
    <3>3. Receipted(draft', op, old, c)
      BY <2>1, <2>5, <3>2, Zenon DEF Receipted
    <3>4. op.report \in draft'.runs[op.run].reports \cup {NoReport}
      BY <2>5, SMTT(30)
    <3>5. \A s \in InvRuns : Grows(draft.runs[s], draft'.runs[s])
      BY <1>1, <2>5, GrowsStays
    <3>6. Whole(draft', q) /\ Backed(draft', q, c)
      BY <1>1, <2>5, <3>1, <3>3, <3>4, SoundIsWhole, Zenon DEF Backed
    <3> QED
      BY <1>1, <2>1, <2>5, <3>1, <3>5, <3>6, DraftKeeps, Zenon
  <2>6. ASSUME draft' = [draft EXCEPT !.runs[r] = Spent(run, receipt)],
               asked' = [asked EXCEPT ![c] =
                 [step |-> IF op.kind = "submit" THEN "store" ELSE "commit",
                  op |-> op, reply |-> [ok |-> TRUE, receipt |-> receipt]]]
        PROVE  IntakeInvariant'
    <3> PICK q, new : /\ q = [step |-> IF op.kind = "submit" THEN "store" ELSE "commit",
                              op |-> op, reply |-> [ok |-> TRUE, receipt |-> receipt]]
                      /\ new = Spent(run, receipt)
      OBVIOUS
    <3>1. /\ asked' = [asked EXCEPT ![c] = q] /\ q.op = op
          /\ q.reply.ok /\ q.reply.receipt = receipt
          /\ op.kind = "submit" => q.step = "store"
          /\ op.kind = "read" => q.step = "commit"
      BY <1>1, <2>6
    <3>2. /\ op.kind = "submit" => op.report \in InvReports /\ op.report # NoReport
          /\ op.kind = "read" => op.report = NoReport
      BY <1>1, OpKinds
    <3>3. /\ receipt \in ReceiptRows /\ receipt.sequence = run.used + 1
          /\ receipt.report = op.report /\ receipt.by = c
      BY <1>1, <2>2, <3>2 DEF Receipt, ReceiptRows
    <3>4. /\ new \in RunRows /\ Numbered(new) /\ new.reports = run.reports
          /\ receipt.sequence \in 1..Len(new.receipts)
          /\ new.receipts[receipt.sequence] = receipt
          /\ Submitted(new.receipts) =
               Submitted(run.receipts) \cup ({receipt.report} \ {NoReport})
          /\ Grows(run, new)
      BY <2>2, <2>3, <3>3, SpentRun, ZenonT(40)
    <3>5. /\ draft' \in Databases /\ draft'.runs[r] = new
          /\ \A s \in InvRuns : s # r => draft'.runs[s] = draft.runs[s]
      <4>1. draft \in Databases /\ r \in InvRuns /\ new \in RunRows
        BY <1>1, <3>4, Zenon
      <4>2. draft' = [draft EXCEPT !.runs[r] = new]
        BY <2>6
      <4> QED
        BY <4>1, <4>2 DEF Databases
    <3>6. \A s \in InvRuns : Grows(draft.runs[s], draft'.runs[s])
      <4>1. \A s \in InvRuns : s # r => Grows(draft.runs[s], draft'.runs[s])
        BY <1>1, <3>5, GrowsStays
      <4> QED
        BY <3>4, <3>5, <4>1, Zenon
    <3>7. Whole(draft', q)
      <4>1. new.reports \cup (IF q.step = "store" THEN {op.report} ELSE {}) =
              Submitted(new.receipts)
        <5> PICK before, after : /\ before = Submitted(run.receipts)
                                 /\ after = Submitted(new.receipts)
          OBVIOUS
        <5>1. after = before \cup ({op.report} \ {NoReport}) /\ new.reports = before
          BY <2>3, <3>3, <3>4, Zenon
        <5>2. CASE op.kind = "submit"
          <6>1. {op.report} \ {NoReport} = {op.report} /\ q.step = "store"
            BY <3>1, <3>2, <5>2, Zenon
          <6> QED
            BY <5>1, <6>1, Zenon
        <5>3. CASE op.kind = "read"
          BY <3>1, <3>2, <5>1, <5>3, Zenon
        <5> QED
          BY <1>1, <5>2, <5>3, Zenon
      <4>2. Numbered(new) /\ q.op = op /\ r = op.run
        BY <3>1, <3>4, Zenon
      <4>3. \A s \in InvRuns : s # r /\ draft.runs[s] # NotRun =>
              /\ Numbered(draft.runs[s])
              /\ Accounted(draft.runs[s].receipts, draft.runs[s].reports \cup {})
        <5>1. \A s \in InvRuns : draft.runs[s].reports \cup {} = draft.runs[s].reports
          OBVIOUS
        <5> QED
          BY <1>1, <5>1 DEF Sound
      <4>4. Accounted(new.receipts,
              new.reports \cup (IF q.step = "store" THEN {op.report} ELSE {}))
        BY <4>1, Zenon DEF Accounted
      <4> QED
        BY <3>5, <4>2, <4>3, <4>4, ZenonT(40) DEF Whole
    <3>8. Receipted(draft', op, receipt, c)
      BY <3>3, <3>4, <3>5, RowsAreRuns, Zenon DEF Receipted
    <3>9. q.step = "commit" => q.op.report \in draft'.runs[q.op.run].reports \cup {NoReport}
      BY <1>1, <3>1, <3>2
    <3>10. q.step = "commit" \/ (q.step = "store" /\ q.op.kind = "submit")
      BY <1>1, <3>1, SMTT(30)
    <3>11. Backed(draft', q, c)
      BY <3>1, <3>8, <3>9 DEF Backed
    <3>12. q.op = asked[c].op /\ asked[c].step \in {"began", "store"}
      BY <1>1, <3>1
    <3> QED
      BY <2>1, <3>1, <3>5, <3>6, <3>7, <3>10, <3>11, <3>12, DraftKeeps, Zenon
  <2> QED
    BY <2>1, <2>5, <2>6, Zenon
<1> QED
  BY <1>2, <1>3

(* A run whose receipts are the same has grown if its reports have.        *)
LEMMA GrowsByReports ==
  ASSUME NEW run \in RunRows, NEW later \in RunRows, NEW report,
         later.receipts = run.receipts, later.reports = run.reports \cup {report}
  PROVE  Grows(run, later)
<1> PICK n : n = Len(run.receipts)
  BY Zenon
<1>1. n \in Nat
  BY LenProperties DEF RunRows
<1>2. n <= n
  BY <1>1
<1>3. later # NotRun /\ Len(later.receipts) = n
  BY RowsAreRuns
<1>4. run.reports \subseteq later.reports
  OBVIOUS
<1> QED
  BY <1>2, <1>3, <1>4 DEF Grows

(* The report joins its receipt.                                           *)
LEMMA StoreKeeps ==
  ASSUME IntakeInvariant, NEW c \in Callers, StoreReport(c)
  PROVE  IntakeInvariant'
<1> PICK op, r, run, reply : /\ op = asked[c].op /\ r = op.run /\ run = draft.runs[r]
                             /\ reply = asked[c].reply
  OBVIOUS
<1> PICK new, q : /\ new = [run EXCEPT !.reports = @ \cup {op.report}]
                  /\ q = [step |-> "commit", op |-> op, reply |-> reply]
  OBVIOUS
<1>1. /\ asked[c].step = "store" /\ op.kind = "submit" /\ op \in Operations
      /\ AskedTyped(c) /\ CallTrue(c) /\ DraftSound /\ draft \in Databases
  BY DEF StoreReport, IntakeInvariant, IntakeTyped, AskedTyped
<1>2. r \in InvRuns /\ op.report \in InvReports
  BY <1>1, OpKinds
<1>3. reply.ok /\ Receipted(draft, op, reply.receipt, c)
  BY <1>1 DEF CallTrue, Calls
<1>4. /\ asked' = [asked EXCEPT ![c] = q] /\ UNCHANGED <<records, writer>>
      /\ draft' = [draft EXCEPT !.runs[r].reports = @ \cup {op.report}]
  BY DEF StoreReport, Propose, IntakeInvariant, IntakeTyped
<1>5. run # NotRun /\ run \in RunRows
  BY <1>1, <1>2, <1>3, RunFields, Zenon DEF Receipted
<1>6. /\ new \in RunRows /\ new.receipts = run.receipts /\ new.used = run.used
      /\ new.reports = run.reports \cup {op.report}
  BY <1>2, <1>5 DEF RunRows
<1>7. /\ draft' \in Databases /\ draft'.runs[r] = new
      /\ \A s \in InvRuns : s # r => draft'.runs[s] = draft.runs[s]
  <2>1. draft' = [draft EXCEPT !.runs[r] = new]
    BY <1>4
  <2>2. draft \in Databases
    BY <1>1
  <2> QED
    BY <1>2, <1>6, <2>1, <2>2, Zenon DEF Databases
<1>8. Grows(run, new)
  BY <1>5, <1>6, GrowsByReports, ZenonT(40)
<1>9. \A s \in InvRuns : Grows(draft.runs[s], draft'.runs[s])
  <2>1. \A s \in InvRuns : s # r => Grows(draft.runs[s], draft'.runs[s])
    BY <1>1, <1>7, GrowsStays
  <2> QED
    BY <1>7, <1>8, <2>1
<1>10. \A s \in InvRuns : draft.runs[s] # NotRun =>
         /\ Numbered(draft.runs[s])
         /\ Accounted(draft.runs[s].receipts,
              draft.runs[s].reports \cup (IF s = r THEN {op.report} ELSE {}))
  BY <1>1 DEF DraftSound
<1>11. Sound(draft')
  <2>1. Numbered(new) /\ Accounted(new.receipts, new.reports)
    <3>1. Numbered(run) /\ Accounted(run.receipts, run.reports \cup {op.report})
      BY <1>2, <1>5, <1>10
    <3> QED
      BY <1>6, <3>1, Zenon DEF Numbered
  <2>2. \A s \in InvRuns : s # r /\ draft.runs[s] # NotRun =>
          Numbered(draft.runs[s]) /\ Accounted(draft.runs[s].receipts, draft.runs[s].reports)
    BY <1>10 DEF Accounted
  <2> QED
    BY <1>7, <2>1, <2>2, Zenon DEF Sound
<1>12. Receipted(draft', op, reply.receipt, c)
  BY <1>1, <1>2, <1>3, <1>7, <1>9, ReceiptedStays
<1>13. op.report \in draft'.runs[op.run].reports \cup {NoReport}
  BY <1>6, <1>7
<1>14. q.step = "commit" /\ q.op = op /\ q.reply = reply
  OBVIOUS
<1>15. Whole(draft', q) /\ Backed(draft', q, c)
  BY <1>3, <1>11, <1>12, <1>13, <1>14, SoundIsWhole DEF Backed
<1> QED
  BY <1>1, <1>4, <1>7, <1>9, <1>14, <1>15, DraftKeeps, Zenon

-----------------------------------------------------------------------------
(* A step of the gateway keeps the invariant, whoever the callers are.     *)
LEMMA GatewayKeeps ==
  ASSUME IntakeInvariant, Gateway
  PROVE  IntakeInvariant'
<1>1. ASSUME NEW c \in Callers, Unavailable(c)
      PROVE  IntakeInvariant'
  BY <1>1, RefuseKeeps DEF Unavailable, Waits
<1>2. ASSUME NEW c \in Callers, List(c)
      PROVE  IntakeInvariant'
  <2>1. ASSUME ListReceipts(c, "count", "ids")
        PROVE  IntakeInvariant'
    <3> PICK step, next : step = "count" /\ next = "ids"
      OBVIOUS
    <3> QED
      BY <2>1, ListReceiptsKeeps
  <2>2. ASSUME ListReceipts(c, "recount", "reids")
        PROVE  IntakeInvariant'
    <3> PICK step, next : step = "recount" /\ next = "reids"
      OBVIOUS
    <3> QED
      BY <2>2, ListReceiptsKeeps
  <2> QED
    BY <1>2, <2>1, <2>2, ListRunKeeps, ListIdsKeeps, ListReportsKeeps DEF List
<1>3. ASSUME NEW c \in Callers, Serve(c)
      PROVE  IntakeInvariant'
  BY <1>2, <1>3, BeginKeeps, ImportKeeps, CreateKeeps, SpendKeeps, StoreKeeps, CommitKeeps
     DEF Serve
<1> QED
  BY <1>1, <1>3, RestartKeeps DEF Gateway

(* The store with nothing in it and nobody at its door.                    *)
LEMMA IntakeStarts ==
  ASSUME IntakeInit
  PROVE  IntakeInvariant
<1>1. /\ records = [bundle |-> NoContent, runs |-> [r \in InvRuns |-> NotRun]]
      /\ draft = records /\ writer = NoCaller
      /\ \A c \in Callers : asked[c] = NoRequest /\ asked[c].step = "off"
      /\ DOMAIN asked = Callers
  BY DEF IntakeInit, NoRequest
<1>2. records \in Databases /\ \A r \in InvRuns : records.runs[r] = NotRun
  BY <1>1 DEF Databases
<1>3. \A c \in Callers : AskedTyped(c)
  BY <1>1 DEF AskedTyped, InTransaction, ListSteps
<1>4. \A c \in Callers : CallTrue(c) /\ ListingTrue(c)
  BY <1>1 DEF CallTrue, Calls, ListingTrue, ListSteps
<1>5. IntakeTyped /\ OneWriter
  BY <1>1, <1>2, <1>3 DEF IntakeTyped, OneWriter, InTransaction
<1>6. Sound(records) /\ DraftSound /\ DraftAdds
  BY <1>1, <1>2, GrowsStays DEF Sound, DraftSound, DraftAdds
<1> QED
  BY <1>4, <1>5, <1>6 DEF IntakeInvariant

(* Nothing is said of a step that leaves the store alone.                  *)
LEMMA IntakeRests ==
  ASSUME IntakeInvariant, UNCHANGED intakeVars
  PROVE  IntakeInvariant'
<1>1. UNCHANGED <<records, draft, writer, asked>>
  BY DEF intakeVars
<1>2. /\ IntakeTyped /\ OneWriter /\ Sound(records) /\ DraftSound /\ DraftAdds
      /\ \A c \in Callers : AskedTyped(c) /\ CallTrue(c) /\ ListingTrue(c)
  BY DEF IntakeInvariant, IntakeTyped
<1>3. \A c \in Callers : AskedTyped(c)' /\ CallTrue(c)' /\ ListingTrue(c)'
  BY <1>1, <1>2, OthersRest, GrowsStays DEF IntakeTyped
<1>4. IntakeTyped' /\ OneWriter'
  BY <1>1, <1>2, <1>3 DEF IntakeTyped, OneWriter
<1>5. (Sound(records) /\ DraftSound /\ DraftAdds)'
  BY <1>1, <1>2 DEF Sound, DraftSound, DraftAdds
<1> QED
  BY <1>3, <1>4, <1>5 DEF IntakeInvariant

(* A stored run only grows, its receipts numbered as its calls and naming  *)
(* exactly its reports; a draft only adds to it; and what was read or      *)
(* answered is what is stored.                                             *)
THEOREM IntakeInvariantHolds == IntakeSpec => []IntakeInvariant
<1>1. IntakeInit => IntakeInvariant
  BY IntakeStarts
<1>2. IntakeInvariant /\ [IntakeStep]_intakeVars => IntakeInvariant'
  <2> SUFFICES ASSUME IntakeInvariant, [IntakeStep]_intakeVars
               PROVE  IntakeInvariant'
    OBVIOUS
  <2>1. CASE IntakeStep
    BY <2>1, GatewayKeeps, ArriveKeeps, HearKeeps DEF IntakeStep
  <2>2. CASE UNCHANGED intakeVars
    BY <2>2, IntakeRests
  <2> QED
    BY <2>1, <2>2
<1> QED
  BY <1>1, <1>2, PTL DEF IntakeSpec

(* AnswersHold: a listing shows the run as it was at one moment, and the   *)
(* receipt a call was answered with is in the run, with its report.        *)
LEMMA AnswersFollow ==
  ASSUME IntakeInvariant
  PROVE  AnswersHold
<1> SUFFICES ASSUME NEW c \in Callers, asked[c].step = "answered", asked[c].reply.ok
             PROVE  /\ asked[c].op.kind = "list" => ListingHolds(c)
                    /\ asked[c].op.kind \in {"read", "submit"} => CallHolds(c)
  BY DEF AnswersHold
<1>1. /\ AskedTyped(c) /\ CallTrue(c) /\ ListingTrue(c) /\ records \in Databases
      /\ Sound(records)
  BY DEF IntakeInvariant, IntakeTyped
<1> PICK run, reply, op : run = Stored(c) /\ reply = asked[c].reply /\ op = asked[c].op
  OBVIOUS
<1>2. op \in Operations /\ run = records.runs[op.run]
  BY <1>1 DEF AskedTyped, Stored
<1>3. ASSUME op.kind = "list"
      PROVE  ListingHolds(c)
  <2> PICK seen, now, n : seen = reply.listing /\ now = run.receipts /\ n = seen.used
    OBVIOUS
  <2>1. Reads(seen, run) /\ seen.reports = Submitted(seen.receipts)
    BY <1>1, <1>3 DEF ListingTrue
  <2>2. op.run \in InvRuns
    BY <1>2, <1>3, OpKinds
  <2>3. /\ now \in Seq(ReceiptRows) /\ Len(now) \in Nat /\ n \in 0..Len(now)
        /\ seen.receipts \in Seq(ReceiptRows) /\ Len(seen.receipts) = n
        /\ \A i \in 1..n : seen.receipts[i] = now[i]
    BY <1>1, <1>2, <2>1, <2>2, RunFields DEF Reads, Begins
  <2> PICK cut : cut = SubSeq(now, 1, n)
    OBVIOUS
  <2>4. cut \in Seq(ReceiptRows) /\ Len(cut) = n /\ \A i \in 1..n : cut[i] = now[i]
    BY <2>3, SubSeqProperties
  <2>5. seen.receipts = cut
    BY <2>3, <2>4, SeqEqual
  <2> QED
    BY <2>1, <2>3, <2>5 DEF ListingHolds
<1>4. ASSUME op.kind \in {"read", "submit"}
      PROVE  CallHolds(c)
  <2>1. /\ Receipted(records, op, reply.receipt, c)
        /\ op.report \in run.reports \cup {NoReport}
    BY <1>1, <1>4 DEF CallTrue, Calls
  <2>2. op.run \in InvRuns /\ run # NotRun
    BY <1>2, <1>4, <2>1, OpKinds DEF Receipted
  <2>3. run.used = Len(run.receipts) /\ Len(run.receipts) \in Nat
    BY <1>1, <1>2, <2>2, RunFields DEF Sound, Numbered
  <2>4. /\ reply.receipt.sequence \in 1..Len(run.receipts)
        /\ run.receipts[reply.receipt.sequence] = reply.receipt
    BY <1>2, <2>1 DEF Receipted
  <2> QED
    BY <2>1, <2>3, <2>4 DEF CallHolds
<1> QED
  BY <1>3, <1>4

(* What was answered is so, whatever the callers ask and in whatever       *)
(* order the gateway, its failures and its restarts come between.          *)
THEOREM AnswersAreSo == IntakeSpec => []AnswersHold
BY IntakeInvariantHolds, AnswersFollow, PTL

-----------------------------------------------------------------------------
(* The attempts of the runner, and the gateway's other callers, who ask    *)
(* what they like.  An attempt that has ended no longer waits for what it  *)
(* asked last.                                                             *)
Others(c) ==
  \/ \E op \in Operations : Arrive(c, op)
  \/ Hear(c) /\ UNCHANGED <<records, draft, writer>>

EndsUnheard(a) ==
  attempts[a].step \in {"final", "done"} /\ Hear(a) /\ UNCHANGED <<records, draft, writer>>

RunnerNext ==
  \/ \E a \in Attempts : RunnerStep(a)
  \/ /\ Gateway \/ (\E c \in Callers \ Attempts : Others(c)) \/ (\E a \in Attempts : EndsUnheard(a))
     /\ UNCHANGED runnerVars

RunnerSpec ==
  IntakeInit /\ RunnerInit /\ [][RunnerNext]_<<intakeVars, runnerVars>>

-----------------------------------------------------------------------------
(* The inductive invariant of the attempts.                                *)
LoopSteps == {"prepare", "preflight", "model", "thinking", "tools", "calling", "save"}

AttemptRows ==
  [step : LoopSteps \cup {"final", "done"}, run : InvRuns, limit : Limits,
   spent : Nat, known : BOOLEAN, awaiting : BOOLEAN, calls : Nat, rounds : Nat,
   sequence : Nat, read : BOOLEAN, todo : Seq(ToolCalls),
   report : InvReports \cup {NoReport}, status : {"running", "failed", "completed"}]

(* The first n receipts of the run are those of the attempt's own calls.   *)
Mine(a, r, n) ==
  n > 0 =>
    /\ records.runs[r] # NotRun
    /\ n <= Len(records.runs[r].receipts)
    /\ \A i \in 1..n : records.runs[r].receipts[i].by = a

(* The sequence counts them up to the report, which the first read comes   *)
(* before.                                                                 *)
Owns(a, now) ==
  IF now.report = NoReport
  THEN /\ now.status # "completed" /\ now.step # "save"
       /\ Mine(a, now.run, now.sequence)
       /\ now.read => now.sequence > 0
  ELSE /\ now.step \in {"save", "final", "done"}
       /\ now.sequence > 1 /\ Mine(a, now.run, now.sequence - 1)
       /\ now.sequence <= Len(records.runs[now.run].receipts)
       /\ records.runs[now.run].receipts[now.sequence].report = now.report
       /\ now.report \in records.runs[now.run].reports

(* What was billed is what was spent, but for what is still awaited.       *)
Pays(now, paid) ==
  /\ paid \in Nat
  /\ ~now.awaiting \/ now.step = "thinking" => now.spent = paid
  /\ now.awaiting => now.step \in {"thinking", "final", "done"} /\ now.status # "completed"
  /\ now.step = "thinking" => now.awaiting
  /\ IF now.step = "done" THEN now.known = ~now.awaiting ELSE now.known
  /\ now.step \in LoopSteps \/ now.status = "completed" =>
       now.spent <= TokenLimit /\ now.calls <= now.limit
  /\ now.step \in LoopSteps => now.status = "running" \/ now.step = "save"

(* A final record is on the disk only when there is nothing more to bill.  *)
Shows(now, record, paid) ==
  record.status \in {"completed", "failed"} =>
    /\ now.step \in {"final", "done"}
    /\ record.known => record.spent = paid
    /\ record.status = "completed" =>
         /\ now.report # NoReport
         /\ record.known /\ record.spent <= TokenLimit /\ record.calls <= now.limit

AttemptIs(a, now, record, paid) ==
  IF now.step = "off" THEN record = NoRecord /\ paid = 0
  ELSE now \in AttemptRows /\ Owns(a, now) /\ Pays(now, paid) /\ Shows(now, record, paid)

(* What an attempt waits for is what it called.                            *)
Awaits(a) ==
  attempts[a].step = "calling" =>
    /\ asked[a].step # "off"
    /\ asked[a].op.kind \in {"read", "submit"}
    /\ asked[a].op.run = attempts[a].run
    /\ asked[a].op.kind = "submit" => attempts[a].read
    /\ attempts[a].todo # <<>>

AttemptTrue(a) == AttemptIs(a, attempts[a], disk[a], billed[a]) /\ Awaits(a)

RunnerInvariant ==
  /\ IntakeInvariant
  /\ DOMAIN attempts = Attempts /\ DOMAIN disk = Attempts /\ DOMAIN billed = Attempts
  /\ \A a \in Attempts : AttemptTrue(a)

-----------------------------------------------------------------------------
(* What the gateway does, as its callers see it: their requests stay       *)
(* theirs, and what is stored only grows.                                  *)
Tells(d) ==
  /\ records' = records \/ records' = draft
  /\ asked[d].step # "off"
  /\ \E q : asked' = [asked EXCEPT ![d] = q] /\ q.step # "off" /\ q.op = asked[d].op

(* A refusal is the answer of the call it refuses.                        *)
LEMMA RefuseTells ==
  ASSUME NEW d \in Callers, asked[d].step # "off", Refuse(d)
  PROVE  Tells(d)
<1> PICK q : q = [step |-> "answered", op |-> asked[d].op, reply |-> Refused]
  OBVIOUS
<1>1. asked' = [asked EXCEPT ![d] = q] /\ records' = records
  BY DEF Refuse, Answer
<1>2. q.step # "off" /\ q.op = asked[d].op
  OBVIOUS
<1> QED
  BY <1>1, <1>2 DEF Tells

(* A draft that is complete is no more than that.                          *)
LEMMA ProposeTells ==
  ASSUME NEW d \in Callers, asked[d].step # "off", NEW db, NEW reply, Propose(d, db, reply)
  PROVE  Tells(d)
<1> PICK q : q = [step |-> "commit", op |-> asked[d].op, reply |-> reply]
  OBVIOUS
<1>1. asked' = [asked EXCEPT ![d] = q] /\ records' = records
  BY DEF Propose
<1>2. q.step # "off" /\ q.op = asked[d].op
  OBVIOUS
<1> QED
  BY <1>1, <1>2 DEF Tells

(* And a listing only looks.                                               *)
LEMMA LookTells ==
  ASSUME NEW d \in Callers, NEW step, NEW next, NEW seen, step # "off", next # "off",
         Look(d, step, next, seen)
  PROVE  Tells(d)
<1> PICK q : q = [step |-> next, op |-> asked[d].op, seen |-> seen]
  OBVIOUS
<1>1. asked' = [asked EXCEPT ![d] = q] /\ records' = records /\ asked[d].step = step
  BY DEF Look
<1>2. q.step # "off" /\ q.op = asked[d].op
  OBVIOUS
<1> QED
  BY <1>1, <1>2 DEF Tells

(* So every action of the gateway for a request.                           *)
LEMMA ServeTells ==
  ASSUME IntakeInvariant, NEW d \in Callers, Serve(d) \/ Unavailable(d)
  PROVE  Tells(d)
<1>1. ASSUME Unavailable(d)
      PROVE  Tells(d)
  BY <1>1, RefuseTells DEF Unavailable, Waits
<1>2. ASSUME Begin(d)
      PROVE  Tells(d)
  <2> PICK q : q = [asked[d] EXCEPT !.step = "began"]
    OBVIOUS
  <2>1. /\ asked' = [asked EXCEPT ![d] = q] /\ records' = records /\ asked[d].step = "asked"
        /\ asked[d] \in [step : {"asked", "began"}, op : Operations]
    BY <1>2 DEF Begin, IntakeInvariant, IntakeTyped, AskedTyped
  <2>2. q.step # "off" /\ q.op = asked[d].op
    BY <2>1
  <2> QED
    BY <2>1, <2>2 DEF Tells
<1>3. ASSUME Commit(d)
      PROVE  Tells(d)
  <2> PICK q : q = [step |-> "answered", op |-> asked[d].op, reply |-> asked[d].reply]
    OBVIOUS
  <2>1. asked' = [asked EXCEPT ![d] = q] /\ records' = draft /\ asked[d].step = "commit"
    BY <1>3 DEF Commit, Answer
  <2>2. q.step # "off" /\ q.op = asked[d].op
    OBVIOUS
  <2> QED
    BY <2>1, <2>2 DEF Tells
<1>4. ASSUME ImportBundle(d) \/ CreateRun(d) \/ StoreReport(d)
      PROVE  Tells(d)
  <2>1. asked[d].step # "off" /\ (Refuse(d) \/ \E db, reply : Propose(d, db, reply))
    BY <1>4 DEF ImportBundle, CreateRun, StoreReport, Began
  <2> QED
    BY <2>1, RefuseTells, ProposeTells
<1>5. ASSUME SpendCall(d)
      PROVE  Tells(d)
  <2>1. /\ asked[d].step # "off"
        /\ \/ Refuse(d) \/ \E db, reply : Propose(d, db, reply)
           \/ /\ records' = records
              /\ \E reply : asked' = [asked EXCEPT ![d] =
                   [step |-> IF asked[d].op.kind = "submit" THEN "store" ELSE "commit",
                    op |-> asked[d].op, reply |-> reply]]
    BY <1>5 DEF SpendCall, Began
  <2>2. ASSUME records' = records, NEW reply,
               asked' = [asked EXCEPT ![d] =
                 [step |-> IF asked[d].op.kind = "submit" THEN "store" ELSE "commit",
                  op |-> asked[d].op, reply |-> reply]]
        PROVE  Tells(d)
    <3> PICK q : q = [step |-> IF asked[d].op.kind = "submit" THEN "store" ELSE "commit",
                      op |-> asked[d].op, reply |-> reply]
      OBVIOUS
    <3>1. asked' = [asked EXCEPT ![d] = q]
      BY <2>2
    <3>2. q.step # "off" /\ q.op = asked[d].op
      OBVIOUS
    <3> QED
      BY <2>1, <2>2, <3>1, <3>2 DEF Tells
  <2> QED
    BY <2>1, <2>2, RefuseTells, ProposeTells, SMTT(30)
<1>6. ASSUME List(d)
      PROVE  Tells(d)
  <2>1. ASSUME ListIdsAgain(d)
        PROVE  Tells(d)
    <3>1. CASE Refuse(d)
      BY <2>1, <3>1, RefuseTells DEF ListIdsAgain
    <3>2. CASE ~Refuse(d)
      <4> PICK q : q = [step |-> "answered", op |-> asked[d].op,
                        reply |-> [ok |-> TRUE, listing |-> Seen(d)]]
        OBVIOUS
      <4>1. /\ asked' = [asked EXCEPT ![d] = q] /\ records' = records
            /\ asked[d].step = "reids"
        BY <2>1, <3>2 DEF ListIdsAgain, Answer
      <4>2. q.step # "off" /\ q.op = asked[d].op
        OBVIOUS
      <4> QED
        BY <4>1, <4>2 DEF Tells
    <3> QED
      BY <3>1, <3>2
  <2>2. ASSUME ListRun(d) \/ ListIds(d) \/ ListReports(d)
        PROVE  Tells(d)
    <3>1. \/ asked[d].step # "off" /\ Refuse(d)
          \/ \E step, next, seen : step # "off" /\ next # "off" /\ Look(d, step, next, seen)
      BY <2>2 DEF ListRun, ListIds, ListReports
    <3> QED
      BY <3>1, RefuseTells, LookTells
  <2>3. ASSUME NEW step, NEW next, step # "off", next # "off", ListReceipts(d, step, next)
        PROVE  Tells(d)
    <3>1. \/ asked[d].step # "off" /\ Refuse(d)
          \/ \E seen : Look(d, step, next, seen)
      BY <2>3 DEF ListReceipts
    <3> QED
      BY <2>3, <3>1, RefuseTells, LookTells
  <2> QED
    BY <1>6, <2>1, <2>2, <2>3 DEF List
<1> QED
  BY <1>1, <1>2, <1>3, <1>4, <1>5, <1>6 DEF Serve

(* A restart tells everybody who waits.                                    *)
LEMMA GatewayTells ==
  ASSUME IntakeInvariant, Gateway
  PROVE  /\ \A r \in InvRuns : Grows(records.runs[r], records'.runs[r])
         /\ \A c \in Callers : asked[c].step # "off" =>
              asked'[c].step # "off" /\ asked'[c].op = asked[c].op
<1>1. /\ \A r \in InvRuns : Grows(records.runs[r], records.runs[r])
      /\ \A r \in InvRuns : Grows(records.runs[r], draft.runs[r])
      /\ DOMAIN asked = Callers
  BY GrowsStays DEF IntakeInvariant, IntakeTyped, DraftAdds
<1>2. CASE RestartGateway
  <2>1. records' = records
    BY <1>2 DEF RestartGateway
  <2>2. ASSUME NEW c \in Callers, asked[c].step # "off"
        PROVE  asked'[c].step # "off" /\ asked'[c].op = asked[c].op
    <3> PICK q : q = [step |-> "answered", op |-> asked[c].op, reply |-> Refused]
      OBVIOUS
    <3>1. asked'[c] = q \/ asked'[c] = asked[c]
      BY <1>2 DEF RestartGateway
    <3> QED
      BY <2>2, <3>1
  <2> QED
    BY <1>1, <2>1, <2>2
<1>3. ASSUME NEW d \in Callers, Tells(d)
      PROVE  /\ \A r \in InvRuns : Grows(records.runs[r], records'.runs[r])
             /\ \A c \in Callers : asked[c].step # "off" =>
                  asked'[c].step # "off" /\ asked'[c].op = asked[c].op
  <2>1. \A r \in InvRuns : Grows(records.runs[r], records'.runs[r])
    BY <1>1, <1>3 DEF Tells
  <2>2. PICK q : asked' = [asked EXCEPT ![d] = q] /\ q.step # "off" /\ q.op = asked[d].op
    BY <1>3 DEF Tells
  <2> QED
    BY <1>1, <2>1, <2>2
<1> QED
  BY <1>2, <1>3, ServeTells DEF Gateway

-----------------------------------------------------------------------------
(* The data of an attempt.                                                 *)

(* The fields of an attempt.                                              *)
LEMMA AttemptFields ==
  ASSUME NEW now \in AttemptRows
  PROVE  /\ now.step \in LoopSteps \cup {"final", "done"} /\ now.run \in InvRuns
         /\ now.limit \in Limits /\ now.limit \in Nat /\ now.spent \in Nat
         /\ now.known \in BOOLEAN /\ now.awaiting \in BOOLEAN /\ now.calls \in Nat
         /\ now.rounds \in Nat /\ now.sequence \in Nat /\ now.read \in BOOLEAN
         /\ now.todo \in Seq(ToolCalls) /\ now.report \in InvReports \cup {NoReport}
         /\ now.status \in {"running", "failed", "completed"}
BY IntakeAssumption DEF AttemptRows

(* A failure ends the loop and changes nothing else.                       *)
LEMMA FailedRow ==
  ASSUME NEW now \in AttemptRows
  PROVE  /\ Failed(now) \in AttemptRows
         /\ Failed(now).step = "final" /\ Failed(now).status = "failed"
         /\ Failed(now).run = now.run /\ Failed(now).spent = now.spent
         /\ Failed(now).known = now.known /\ Failed(now).awaiting = now.awaiting
         /\ Failed(now).sequence = now.sequence /\ Failed(now).read = now.read
         /\ Failed(now).report = now.report /\ Failed(now).limit = now.limit
<1> PICK mid : mid = [now EXCEPT !.step = "final"]
  OBVIOUS
<1>1. /\ mid \in AttemptRows /\ mid.step = "final" /\ mid.run = now.run
      /\ mid.spent = now.spent /\ mid.known = now.known /\ mid.awaiting = now.awaiting
      /\ mid.sequence = now.sequence /\ mid.read = now.read /\ mid.report = now.report
      /\ mid.limit = now.limit
  BY DEF AttemptRows
<1>2. Failed(now) = [mid EXCEPT !.status = "failed"]
  BY DEF Failed
<1> QED
  BY <1>1, <1>2 DEF AttemptRows

(* Only its step changes.                                                  *)
LEMMA StepRow ==
  ASSUME NEW now \in AttemptRows, NEW s \in LoopSteps \cup {"final", "done"}
  PROVE  /\ [now EXCEPT !.step = s] \in AttemptRows
         /\ [now EXCEPT !.step = s].step = s /\ [now EXCEPT !.step = s].run = now.run
         /\ [now EXCEPT !.step = s].limit = now.limit
         /\ [now EXCEPT !.step = s].spent = now.spent
         /\ [now EXCEPT !.step = s].calls = now.calls
         /\ [now EXCEPT !.step = s].known = now.known
         /\ [now EXCEPT !.step = s].awaiting = now.awaiting
         /\ [now EXCEPT !.step = s].sequence = now.sequence
         /\ [now EXCEPT !.step = s].read = now.read
         /\ [now EXCEPT !.step = s].report = now.report
         /\ [now EXCEPT !.step = s].status = now.status
         /\ [now EXCEPT !.step = s].todo = now.todo
BY DEF AttemptRows

(* What the model has answered is to be done.                              *)
ToDo(now, todo) == [now EXCEPT !.step = "tools", !.todo = todo]

(* Setting what is to be done leaves the rest of an attempt.              *)
LEMMA ToolsRow ==
  ASSUME NEW now \in AttemptRows, NEW todo \in Seq(ToolCalls), NEW next,
         next = ToDo(now, todo)
  PROVE  /\ next \in AttemptRows /\ next.step = "tools" /\ next.run = now.run
         /\ next.limit = now.limit /\ next.spent = now.spent /\ next.calls = now.calls
         /\ next.known = now.known /\ next.awaiting = now.awaiting
         /\ next.sequence = now.sequence /\ next.read = now.read
         /\ next.report = now.report /\ next.status = now.status
<1> PICK mid : mid = [now EXCEPT !.step = "tools"]
  OBVIOUS
<1>1. /\ mid \in AttemptRows /\ mid.step = "tools" /\ mid.run = now.run
      /\ mid.limit = now.limit /\ mid.spent = now.spent /\ mid.calls = now.calls
      /\ mid.known = now.known /\ mid.awaiting = now.awaiting
      /\ mid.sequence = now.sequence /\ mid.read = now.read
      /\ mid.report = now.report /\ mid.status = now.status
  BY StepRow DEF LoopSteps
<1>2. next = [mid EXCEPT !.todo = todo]
  BY DEF ToDo
<1> QED
  BY <1>1, <1>2 DEF AttemptRows

(* An attempt that has begun is one of the rows.                           *)
LEMMA BegunIs ==
  ASSUME NEW a, NEW now, NEW record, NEW paid, AttemptIs(a, now, record, paid),
         now.step # "off"
  PROVE  now \in AttemptRows /\ Owns(a, now) /\ Pays(now, paid) /\ Shows(now, record, paid)
BY DEF AttemptIs

(* A failure keeps what is known of the usage: all of it, or that there is *)
(* more.                                                                   *)
LEMMA AttemptFails ==
  ASSUME NEW a, NEW now \in AttemptRows, NEW record, NEW paid \in Nat, Owns(a, now),
         ~now.awaiting => now.spent = paid, now.known, Shows(Failed(now), record, paid)
  PROVE  AttemptIs(a, Failed(now), record, paid)
<1> PICK next : next = Failed(now)
  OBVIOUS
<1>1. /\ next \in AttemptRows /\ next.step = "final" /\ next.status = "failed"
      /\ next.run = now.run /\ next.spent = now.spent
      /\ next.known = now.known /\ next.awaiting = now.awaiting
      /\ next.sequence = now.sequence /\ next.read = now.read
      /\ next.report = now.report
  BY FailedRow
<1>2. Owns(a, next)
  BY <1>1 DEF Owns
<1>3. Pays(next, paid)
  BY <1>1 DEF Pays, LoopSteps
<1> QED
  BY <1>1, <1>2, <1>3 DEF AttemptIs

(* In the loop there is no final record yet.                               *)
LEMMA LoopFails ==
  ASSUME NEW a, NEW now, NEW record, NEW paid, AttemptIs(a, now, record, paid),
         now.step \in LoopSteps
  PROVE  /\ now \in AttemptRows /\ Owns(a, now) /\ now.known /\ paid \in Nat
         /\ record.status \notin {"completed", "failed"}
         /\ AttemptIs(a, Failed(now), record, paid)
<1>1. now \in AttemptRows /\ Owns(a, now) /\ Pays(now, paid) /\ Shows(now, record, paid)
  BY BegunIs DEF LoopSteps
<1>2. record.status \notin {"completed", "failed"}
  BY <1>1 DEF Shows, LoopSteps
<1>3. paid \in Nat /\ now.known /\ (~now.awaiting => now.spent = paid)
  BY <1>1 DEF Pays, LoopSteps
<1>4. Shows(Failed(now), record, paid)
  BY <1>2 DEF Shows
<1> QED
  BY <1>1, <1>2, <1>3, <1>4, AttemptFails

(* From one step of the loop to the next.                                  *)
LEMMA LoopGoesOn ==
  ASSUME NEW a, NEW now, NEW record, NEW paid, AttemptIs(a, now, record, paid),
         now.step \in LoopSteps \ {"thinking", "save"},
         NEW s \in LoopSteps \ {"thinking", "save"}
  PROVE  AttemptIs(a, [now EXCEPT !.step = s], record, paid)
<1> PICK next : next = [now EXCEPT !.step = s]
  OBVIOUS
<1>1. now \in AttemptRows /\ Owns(a, now) /\ Pays(now, paid) /\ Shows(now, record, paid)
  BY BegunIs DEF LoopSteps
<1>2. /\ next \in AttemptRows /\ next.step = s /\ next.run = now.run
      /\ next.limit = now.limit /\ next.spent = now.spent /\ next.calls = now.calls
      /\ next.known = now.known /\ next.awaiting = now.awaiting
      /\ next.sequence = now.sequence /\ next.read = now.read
      /\ next.report = now.report /\ next.status = now.status
  BY <1>1, StepRow
<1>3. Owns(a, next)
  BY <1>1, <1>2 DEF Owns, LoopSteps
<1>4. Pays(next, paid)
  BY <1>1, <1>2 DEF Pays, LoopSteps
<1>5. Shows(next, record, paid)
  BY <1>1, <1>2 DEF Shows, LoopSteps
<1> QED
  BY <1>2, <1>3, <1>4, <1>5 DEF AttemptIs, LoopSteps

(* What was stored for an attempt stays stored.                            *)
LEMMA AttemptStays ==
  ASSUME NEW a, NEW now, NEW record, NEW paid, AttemptIs(a, now, record, paid),
         records \in Databases, records' \in Databases,
         \A r \in InvRuns : Grows(records.runs[r], records'.runs[r])
  PROVE  AttemptIs(a, now, record, paid)'
<1>1. CASE now.step = "off"
  BY <1>1 DEF AttemptIs
<1>2. CASE now.step # "off"
  <2>1. now \in AttemptRows /\ Owns(a, now) /\ Pays(now, paid) /\ Shows(now, record, paid)
    BY <1>2, BegunIs
  <2>2. now.run \in InvRuns /\ now.sequence \in Nat
    BY <2>1, AttemptFields
  <2> PICK x, y : x = records.runs[now.run] /\ y = records'.runs[now.run]
    OBVIOUS
  <2>3. /\ x # NotRun => Len(x.receipts) \in Nat
        /\ y # NotRun => Len(y.receipts) \in Nat
        /\ Grows(x, y)
    BY <2>2, RunFields
  <2>4. ASSUME NEW n \in Nat, Mine(a, now.run, n)
        PROVE  Mine(a, now.run, n)'
    <3>1. SUFFICES ASSUME n > 0
                   PROVE  y # NotRun /\ n <= Len(y.receipts) /\ \A i \in 1..n : y.receipts[i].by = a
      BY DEF Mine
    <3> PICK k, m : k = Len(x.receipts) /\ m = Len(y.receipts)
      OBVIOUS
    <3>2. x # NotRun /\ n <= k /\ \A i \in 1..n : x.receipts[i].by = a
      BY <2>4, <3>1 DEF Mine
    <3>3. y # NotRun /\ k <= m /\ \A i \in 1..k : y.receipts[i] = x.receipts[i]
      BY <2>3, <3>2 DEF Grows
    <3>4. n <= m /\ \A i \in 1..n : i \in 1..k
      BY <2>3, <3>2, <3>3
    <3> QED
      BY <3>2, <3>3, <3>4
  <2>5. Owns(a, now)'
    <3>1. CASE now.report = NoReport
      BY <2>1, <2>2, <2>4, <3>1 DEF Owns
    <3>2. CASE now.report # NoReport
      <4> PICK n, k, m : n = now.sequence /\ k = Len(x.receipts) /\ m = Len(y.receipts)
        OBVIOUS
      <4>1. /\ now.step \in {"save", "final", "done"} /\ n > 1 /\ Mine(a, now.run, n - 1)
            /\ n <= k /\ x.receipts[n].report = now.report /\ now.report \in x.reports
        BY <2>1, <3>2 DEF Owns
      <4>2. x # NotRun
        BY <2>2, <4>1 DEF Mine
      <4>3. y # NotRun /\ k <= m /\ k \in Nat /\ m \in Nat
            /\ (\A i \in 1..k : y.receipts[i] = x.receipts[i]) /\ x.reports \subseteq y.reports
        BY <2>3, <4>2 DEF Grows
      <4>4. n - 1 \in Nat /\ n \in 1..k /\ n <= m
        BY <2>2, <4>1, <4>3, SMTT(30)
      <4>5. Mine(a, now.run, n - 1)'
        BY <2>4, <4>1, <4>4
      <4>6. y.receipts[n].report = now.report /\ now.report \in y.reports
        BY <4>1, <4>3, <4>4
      <4> QED
        BY <3>2, <4>1, <4>4, <4>5, <4>6 DEF Owns
    <3> QED
      BY <3>1, <3>2
  <2>6. Pays(now, paid)' /\ Shows(now, record, paid)'
    BY <2>1 DEF Pays, Shows
  <2> QED
    BY <1>2, <2>1, <2>5, <2>6 DEF AttemptIs
<1> QED
  BY <1>1, <1>2

-----------------------------------------------------------------------------
(* One attempt's step.                                                     *)

(* f with v for a, and else as it was.                                     *)
Puts(f, a, v, g) ==
  DOMAIN g = Attempts /\ g[a] = v /\ \A b \in Attempts : b # a => g[b] = f[b]

(* A function with one new value is as it was elsewhere.                  *)
LEMMA PutsOne ==
  ASSUME NEW f, NEW g, NEW a \in Attempts, DOMAIN f = Attempts
  PROVE  /\ g = f => Puts(f, a, f[a], g)
         /\ \A v : g = [f EXCEPT ![a] = v] => Puts(f, a, v, g)
BY DEF Puts

(* An attempt's own step leaves the others' and what is stored alone.      *)
LEMMA AttemptKeeps ==
  ASSUME RunnerInvariant, NEW a \in Attempts, IntakeInvariant', records' = records,
         NEW next, NEW record, NEW paid, AttemptIs(a, next, record, paid),
         Puts(attempts, a, next, attempts'), Puts(disk, a, record, disk'),
         Puts(billed, a, paid, billed'),
         \A b \in Attempts : b # a => asked'[b] = asked[b],
         Awaits(a)'
  PROVE  RunnerInvariant'
<1>1. /\ records \in Databases /\ records' \in Databases
      /\ \A r \in InvRuns : Grows(records.runs[r], records'.runs[r])
  BY GrowsStays DEF RunnerInvariant, IntakeInvariant, IntakeTyped
<1>2. ASSUME NEW b \in Attempts, b # a
      PROVE  AttemptTrue(b)'
  <2> PICK now, r, p : now = attempts[b] /\ r = disk[b] /\ p = billed[b]
    OBVIOUS
  <2>1. AttemptIs(b, now, r, p) /\ Awaits(b)
    BY DEF RunnerInvariant, AttemptTrue
  <2>2. AttemptIs(b, now, r, p)'
    BY <1>1, <2>1, AttemptStays
  <2>3. attempts'[b] = now /\ disk'[b] = r /\ billed'[b] = p /\ asked'[b] = asked[b]
    BY <1>2 DEF Puts
  <2>4. Awaits(b)'
    BY <2>1, <2>3 DEF Awaits
  <2> QED
    BY <2>2, <2>3, <2>4 DEF AttemptTrue
<1>3. AttemptTrue(a)'
  <2>1. AttemptIs(a, next, record, paid)'
    BY <1>1, AttemptStays
  <2> QED
    BY <2>1 DEF Puts, AttemptTrue
<1> QED
  BY <1>2, <1>3 DEF RunnerInvariant, Puts

(* What an attempt is, to begin with.                                      *)
LEMMA AttemptNow ==
  ASSUME RunnerInvariant, NEW a \in Attempts
  PROVE  /\ AttemptIs(a, attempts[a], disk[a], billed[a]) /\ Awaits(a) /\ IntakeInvariant
         /\ DOMAIN attempts = Attempts /\ DOMAIN disk = Attempts /\ DOMAIN billed = Attempts
BY DEF RunnerInvariant, AttemptTrue

(* A failure of the loop, with the gateway as it is.                       *)
LEMMA FailNowKeeps ==
  ASSUME RunnerInvariant, NEW a \in Attempts, attempts[a].step \in LoopSteps, FailNow(a),
         UNCHANGED intakeVars
  PROVE  RunnerInvariant'
<1> PICK now, record, paid, next : /\ now = attempts[a] /\ record = disk[a]
                                   /\ paid = billed[a] /\ next = Failed(now)
  OBVIOUS
<1>1. AttemptIs(a, next, record, paid) /\ next.step = "final"
  BY AttemptNow, LoopFails, FailedRow
<1>2. /\ Puts(attempts, a, next, attempts') /\ Puts(disk, a, record, disk')
      /\ Puts(billed, a, paid, billed')
  <2>1. attempts' = [attempts EXCEPT ![a] = next] /\ disk' = disk /\ billed' = billed
    BY DEF FailNow, Set
  <2> QED
    BY <2>1, AttemptNow, PutsOne
<1>3. IntakeInvariant' /\ records' = records /\ asked' = asked
  BY AttemptNow, IntakeRests DEF intakeVars
<1>4. Awaits(a)'
  BY <1>1, <1>2 DEF Awaits, Puts
<1> QED
  BY <1>1, <1>2, <1>3, <1>4, AttemptKeeps

(* A save: the record is on the disk or not, and the attempt goes on only  *)
(* if it is.                                                               *)
LEMMA SavingKeeps ==
  ASSUME RunnerInvariant, NEW a \in Attempts, NEW written, NEW unwritten,
         Saving(a, written, unwritten), UNCHANGED <<billed, intakeVars>>,
         written.step # "calling", unwritten.step # "calling",
         AttemptIs(a, written, Record(written), billed[a]),
         AttemptIs(a, unwritten, Record(written), billed[a]),
         AttemptIs(a, unwritten, disk[a], billed[a])
  PROVE  RunnerInvariant'
<1>1. /\ DOMAIN attempts = Attempts /\ DOMAIN disk = Attempts /\ DOMAIN billed = Attempts
      /\ IntakeInvariant' /\ records' = records /\ asked' = asked /\ billed' = billed
  BY AttemptNow, IntakeRests DEF intakeVars
<1>2. ASSUME NEW next, NEW record, attempts' = [attempts EXCEPT ![a] = next],
             disk' = [disk EXCEPT ![a] = record] \/ (disk' = disk /\ record = disk[a]),
             AttemptIs(a, next, record, billed[a]), next.step # "calling"
      PROVE  RunnerInvariant'
  <2> PICK paid : paid = billed[a]
    OBVIOUS
  <2>1. /\ Puts(attempts, a, next, attempts') /\ Puts(disk, a, record, disk')
        /\ Puts(billed, a, paid, billed')
    BY <1>1, <1>2, PutsOne
  <2>2. Awaits(a)'
    BY <1>2, <2>1 DEF Awaits, Puts
  <2> QED
    BY <1>1, <1>2, <2>1, <2>2, AttemptKeeps
<1>3. CASE disk' = [disk EXCEPT ![a] = Record(written)] /\ Set(a, written)
  BY <1>2, <1>3 DEF Set
<1>4. CASE disk' = [disk EXCEPT ![a] = Record(written)] /\ Set(a, unwritten)
  BY <1>2, <1>4 DEF Set
<1>5. CASE UNCHANGED disk /\ Set(a, unwritten)
  BY <1>2, <1>5 DEF Set
<1> QED
  BY <1>3, <1>4, <1>5 DEF Saving

(* A step that only the attempt and its bill see.                          *)
LEMMA AloneKeeps ==
  ASSUME RunnerInvariant, NEW a \in Attempts, UNCHANGED <<disk, intakeVars>>,
         NEW next, NEW paid, Set(a, next),
         billed' = [billed EXCEPT ![a] = paid] \/ (billed' = billed /\ paid = billed[a]),
         AttemptIs(a, next, disk[a], paid), next.step # "calling"
  PROVE  RunnerInvariant'
<1> PICK record : record = disk[a]
  OBVIOUS
<1>1. /\ DOMAIN attempts = Attempts /\ DOMAIN disk = Attempts /\ DOMAIN billed = Attempts
      /\ IntakeInvariant' /\ records' = records /\ asked' = asked /\ disk' = disk
  BY AttemptNow, IntakeRests DEF intakeVars
<1>2. attempts' = [attempts EXCEPT ![a] = next]
  BY DEF Set
<1>3. /\ Puts(attempts, a, next, attempts') /\ Puts(disk, a, record, disk')
      /\ Puts(billed, a, paid, billed')
  BY <1>1, <1>2, PutsOne
<1>4. Awaits(a)'
  BY <1>3 DEF Awaits, Puts
<1> QED
  BY <1>1, <1>3, <1>4, AttemptKeeps

(* A launch claims an attempt.                                            *)
LEMMA ClaimKeeps ==
  ASSUME RunnerInvariant, NEW a \in Attempts, NEW l, NEW r \in InvRuns, NEW limit \in Limits,
         Claim(a, l, r, limit)
  PROVE  RunnerInvariant'
<1> PICK now : now = [step |-> "prepare", run |-> r, limit |-> limit, spent |-> 0,
                      known |-> TRUE, awaiting |-> FALSE, calls |-> 0, rounds |-> 0,
                      sequence |-> 0, read |-> FALSE, todo |-> <<>>,
                      report |-> NoReport, status |-> "running"]
  OBVIOUS
<1>1. /\ Set(a, now) \/ Set(a, Failed(now))
      /\ UNCHANGED <<disk, intakeVars>> /\ billed' = billed /\ attempts[a].step = "off"
  BY DEF Claim, At
<1>2. disk[a] = NoRecord /\ billed[a] = 0
  BY <1>1, AttemptNow DEF AttemptIs
<1> PICK record, paid : record = disk[a] /\ paid = billed[a]
  OBVIOUS
<1>3. now \in AttemptRows
  <2>1. <<>> \in Seq(ToolCalls)
    OBVIOUS
  <2> QED
    BY <2>1 DEF AttemptRows, LoopSteps
<1>4. limit \in Nat /\ TokenLimit \in Nat /\ record.status = "none"
  BY <1>2, IntakeAssumption, RunnerAssumption DEF NoRecord
<1>5. /\ Owns(a, now) /\ Pays(now, paid) /\ Shows(now, record, paid)
      /\ Shows(Failed(now), record, paid)
  BY <1>2, <1>4 DEF Owns, Mine, Pays, Shows, LoopSteps
<1>6. AttemptIs(a, now, record, paid)
  BY <1>3, <1>5 DEF AttemptIs
<1>7. AttemptIs(a, Failed(now), record, paid) /\ Failed(now).step = "final"
  BY <1>2, <1>3, <1>5, AttemptFails, FailedRow
<1>8. now.step = "prepare"
  OBVIOUS
<1> QED
  BY <1>1, <1>6, <1>7, <1>8, AloneKeeps

(* A request goes out to the gateway.                                      *)
LEMMA RequestKeeps ==
  ASSUME RunnerInvariant, NEW a \in Attempts, NEW op \in Operations, Arrive(a, op),
         NEW next, Set(a, next), UNCHANGED <<disk, billed>>,
         AttemptIs(a, next, disk[a], billed[a]),
         next.step = "calling" =>
           /\ op.kind \in {"read", "submit"} /\ op.run = next.run
           /\ op.kind = "submit" => next.read
           /\ next.todo # <<>>
  PROVE  RunnerInvariant'
<1> PICK record, paid : record = disk[a] /\ paid = billed[a]
  OBVIOUS
<1>1. /\ DOMAIN attempts = Attempts /\ DOMAIN disk = Attempts /\ DOMAIN billed = Attempts
      /\ a \in Callers
  BY AttemptNow, RunnerAssumption
<1>2. IntakeInvariant'
  BY <1>1, AttemptNow, ArriveKeeps
<1> PICK q : q = [step |-> "asked", op |-> op]
  OBVIOUS
<1>3. /\ records' = records /\ asked' = [asked EXCEPT ![a] = q] /\ DOMAIN asked = Callers
      /\ attempts' = [attempts EXCEPT ![a] = next]
  BY AttemptNow DEF Arrive, Set, IntakeInvariant, IntakeTyped
<1>4. /\ asked'[a] = q /\ q.step = "asked" /\ q.op = op
      /\ \A b \in Attempts : b # a => asked'[b] = asked[b]
  BY <1>1, <1>3, RunnerAssumption
<1>5. /\ Puts(attempts, a, next, attempts') /\ Puts(disk, a, record, disk')
      /\ Puts(billed, a, paid, billed')
  BY <1>1, <1>3, PutsOne
<1>6. Awaits(a)'
  BY <1>4, <1>5 DEF Awaits, Puts
<1> QED
  BY <1>2, <1>3, <1>4, <1>5, <1>6, AttemptKeeps

(* The attempt asks for the run's listing.                                *)
LEMMA PreflightKeeps ==
  ASSUME RunnerInvariant, NEW a \in Attempts, Preflight(a)
  PROVE  RunnerInvariant'
<1> PICK now, op, next : /\ now = attempts[a]
                         /\ op = [kind |-> "list", run |-> now.run, report |-> NoReport]
                         /\ next = [now EXCEPT !.step = "preflight"]
  OBVIOUS
<1>1. /\ now.step = "prepare" /\ Arrive(a, op) /\ Set(a, next) /\ UNCHANGED <<disk, billed>>
  BY DEF Preflight, Request, At
<1>2. AttemptIs(a, now, disk[a], billed[a])
  BY AttemptNow
<1>3. AttemptIs(a, next, disk[a], billed[a])
  BY <1>1, <1>2, LoopGoesOn DEF LoopSteps
<1>4. now \in AttemptRows
  BY <1>1, <1>2, BegunIs
<1>5. next.step = "preflight"
  BY <1>4, StepRow DEF LoopSteps
<1>6. op \in Operations
  BY <1>4, AttemptFields DEF Operations, Readings
<1> QED
  BY <1>1, <1>3, <1>5, <1>6, RequestKeeps

(* An answer is heard.                                                     *)
LEMMA AnswerKeeps ==
  ASSUME RunnerInvariant, NEW a \in Attempts, Hear(a), UNCHANGED <<records, draft, writer>>,
         NEW next, Set(a, next), UNCHANGED <<disk, billed>>,
         AttemptIs(a, next, disk[a], billed[a]), next.step # "calling"
  PROVE  RunnerInvariant'
<1> PICK record, paid, q : record = disk[a] /\ paid = billed[a] /\ q = NoRequest
  OBVIOUS
<1>1. /\ DOMAIN attempts = Attempts /\ DOMAIN disk = Attempts /\ DOMAIN billed = Attempts
      /\ a \in Callers
  BY AttemptNow, RunnerAssumption
<1>2. IntakeInvariant'
  BY <1>1, AttemptNow, HearKeeps
<1>3. /\ records' = records /\ asked' = [asked EXCEPT ![a] = q] /\ DOMAIN asked = Callers
      /\ attempts' = [attempts EXCEPT ![a] = next]
  BY AttemptNow DEF Hear, Set, IntakeInvariant, IntakeTyped
<1>4. \A b \in Attempts : b # a => asked'[b] = asked[b]
  BY <1>1, <1>3, RunnerAssumption
<1>5. /\ Puts(attempts, a, next, attempts') /\ Puts(disk, a, record, disk')
      /\ Puts(billed, a, paid, billed')
  BY <1>1, <1>3, PutsOne
<1>6. Awaits(a)'
  BY <1>5 DEF Awaits, Puts
<1> QED
  BY <1>2, <1>3, <1>4, <1>5, <1>6, AttemptKeeps

(* The listing was answered, or the attempt fails.                        *)
LEMMA PreflightAnsweredKeeps ==
  ASSUME RunnerInvariant, NEW a \in Attempts, PreflightAnswered(a)
  PROVE  RunnerInvariant'
<1> PICK now, next : now = attempts[a] /\ next = [now EXCEPT !.step = "model"]
  OBVIOUS
<1>1. /\ now.step = "preflight" /\ Hear(a) /\ UNCHANGED <<records, draft, writer>>
      /\ Set(a, next) \/ Set(a, Failed(now))
      /\ UNCHANGED <<disk, billed>>
  BY DEF PreflightAnswered, At
<1>2. AttemptIs(a, now, disk[a], billed[a])
  BY AttemptNow
<1>3. AttemptIs(a, next, disk[a], billed[a])
  BY <1>1, <1>2, LoopGoesOn DEF LoopSteps
<1>4. now \in AttemptRows /\ AttemptIs(a, Failed(now), disk[a], billed[a])
  BY <1>1, <1>2, LoopFails DEF LoopSteps
<1>5. next.step = "model" /\ Failed(now).step = "final"
  BY <1>4, StepRow, FailedRow DEF LoopSteps
<1> QED
  BY <1>1, <1>3, <1>4, <1>5, AnswerKeeps

(* No answer.                                                              *)
LEMMA UnheardKeeps ==
  ASSUME RunnerInvariant, NEW a \in Attempts, Unheard(a)
  PROVE  RunnerInvariant'
BY FailNowKeeps DEF Unheard, LoopSteps

(* The request is in the record before it is sent.                         *)
LEMMA RequestModelKeeps ==
  ASSUME RunnerInvariant, NEW a \in Attempts, RequestModel(a)
  PROVE  RunnerInvariant'
<1> PICK now, record, paid : now = attempts[a] /\ record = disk[a] /\ paid = billed[a]
  OBVIOUS
<1>1. now.step = "model" /\ UNCHANGED intakeVars
  BY DEF RequestModel, At
<1>2. CASE FailNow(a)
  BY <1>1, <1>2, FailNowKeeps DEF LoopSteps
<1>3. CASE ~FailNow(a)
  <2> PICK next : next = [now EXCEPT !.step = "thinking", !.awaiting = TRUE]
    OBVIOUS
  <2>1. Saving(a, next, Failed(now)) /\ UNCHANGED billed
    BY <1>3 DEF RequestModel
  <2>2. /\ AttemptIs(a, now, record, paid) /\ now \in AttemptRows /\ Owns(a, now)
        /\ Pays(now, paid) /\ Shows(now, record, paid) /\ now.known /\ paid \in Nat
        /\ AttemptIs(a, Failed(now), record, paid)
        /\ record.status \notin {"completed", "failed"}
    BY <1>1, AttemptNow, LoopFails, BegunIs DEF LoopSteps
  <2>3. /\ next \in AttemptRows /\ next.step = "thinking" /\ next.awaiting /\ next.run = now.run
        /\ next.limit = now.limit /\ next.spent = now.spent /\ next.calls = now.calls
        /\ next.known = now.known /\ next.sequence = now.sequence /\ next.read = now.read
        /\ next.report = now.report /\ next.status = now.status
    <3> PICK s : s = "thinking"
      OBVIOUS
    <3> PICK mid : mid = [now EXCEPT !.step = s]
      OBVIOUS
    <3>1. /\ mid \in AttemptRows /\ mid.step = "thinking" /\ mid.run = now.run
          /\ mid.limit = now.limit /\ mid.spent = now.spent /\ mid.calls = now.calls
          /\ mid.known = now.known /\ mid.sequence = now.sequence /\ mid.read = now.read
          /\ mid.report = now.report /\ mid.status = now.status
      <4>1. s \in LoopSteps \cup {"final", "done"} /\ now \in AttemptRows
        BY <2>2 DEF LoopSteps
      <4> QED
        BY <4>1, StepRow
    <3>2. next = [mid EXCEPT !.awaiting = TRUE]
      OBVIOUS
    <3> QED
      BY <3>1, <3>2, ZenonT(40) DEF AttemptRows
  <2>4. now.status = "running" /\ ~now.awaiting /\ now.spent = paid
    BY <1>1, <2>2 DEF Pays, LoopSteps
  <2>5. Owns(a, next)
    BY <1>1, <2>2, <2>3 DEF Owns
  <2>6. Pays(next, paid)
    BY <1>1, <2>2, <2>3, <2>4 DEF Pays, LoopSteps
  <2>7. Record(next).status = "running"
    BY <2>3, <2>4 DEF Record
  <2>8. /\ Shows(next, record, paid) /\ Shows(next, Record(next), paid)
        /\ Shows(Failed(now), Record(next), paid)
    BY <2>2, <2>7 DEF Shows
  <2>9. AttemptIs(a, next, Record(next), paid) /\ AttemptIs(a, Failed(now), Record(next), paid)
    BY <2>2, <2>3, <2>4, <2>5, <2>6, <2>8, AttemptFails DEF AttemptIs
  <2>10. next.step # "calling" /\ Failed(now).step # "calling"
    BY <2>2, <2>3, FailedRow
  <2> QED
    BY <1>1, <2>1, <2>2, <2>9, <2>10, SavingKeeps
<1> QED
  BY <1>2, <1>3

(* The request may be billed and fail.                                     *)
LEMMA ModelFailsKeeps ==
  ASSUME RunnerInvariant, NEW a \in Attempts, NEW t \in Nat, ModelFails(a, t)
  PROVE  RunnerInvariant'
<1> PICK now, record, paid, next : /\ now = attempts[a] /\ record = disk[a]
                                   /\ paid = billed[a] + t /\ next = Failed(now)
  OBVIOUS
<1>1. /\ now.step = "thinking" /\ UNCHANGED <<disk, intakeVars>> /\ Set(a, next)
      /\ billed' = [billed EXCEPT ![a] = paid]
  BY DEF ModelFails, At, Bill
<1>2. /\ AttemptIs(a, now, record, billed[a]) /\ now \in AttemptRows /\ Owns(a, now)
      /\ now.known /\ billed[a] \in Nat /\ Pays(now, billed[a])
      /\ record.status \notin {"completed", "failed"}
  BY <1>1, AttemptNow, LoopFails, BegunIs DEF LoopSteps
<1>3. now.awaiting /\ paid \in Nat
  BY <1>1, <1>2 DEF Pays
<1>4. Shows(next, record, paid)
  BY <1>2 DEF Shows
<1>5. AttemptIs(a, next, record, paid) /\ next.step = "final"
  BY <1>2, <1>3, <1>4, AttemptFails, FailedRow
<1> QED
  BY <1>1, <1>5, AloneKeeps

(* Or it is answered, and what it used is spent.                           *)
LEMMA ModelAnswersKeeps ==
  ASSUME RunnerInvariant, NEW a \in Attempts, NEW t \in Nat, NEW todo \in Seq(ToolCalls),
         ModelAnswers(a, t, todo)
  PROVE  RunnerInvariant'
<1> PICK old, record, paid : /\ old = attempts[a] /\ record = disk[a]
                             /\ paid = billed[a] + t
  OBVIOUS
<1>1. PICK now : now = [old EXCEPT !.spent = @ + t, !.awaiting = FALSE]
  OBVIOUS
<1>2. PICK next : next = ToDo(now, todo)
  OBVIOUS
<1>3. /\ old.step = "thinking" /\ UNCHANGED <<disk, intakeVars>>
      /\ (now.spent <= TokenLimit /\ Set(a, next)) \/ Set(a, Failed(now))
      /\ billed' = [billed EXCEPT ![a] = paid]
  BY <1>1, <1>2 DEF ModelAnswers, At, Bill, ToDo
<1>4. /\ AttemptIs(a, old, record, billed[a]) /\ old \in AttemptRows /\ Owns(a, old)
      /\ old.known /\ billed[a] \in Nat /\ Pays(old, billed[a])
      /\ record.status \notin {"completed", "failed"}
  BY <1>3, AttemptNow, LoopFails, BegunIs DEF LoopSteps
<1>5. /\ old.spent = billed[a] /\ old.status = "running" /\ old.calls <= old.limit
      /\ old.spent \in Nat
  BY <1>3, <1>4, AttemptFields DEF Pays, LoopSteps
<1>6. /\ now \in AttemptRows /\ now.step = "thinking" /\ now.run = old.run
      /\ now.limit = old.limit /\ now.spent = paid /\ now.calls = old.calls
      /\ now.known = old.known /\ ~now.awaiting
      /\ now.sequence = old.sequence /\ now.read = old.read
      /\ now.report = old.report /\ now.status = old.status
  <2> PICK mid, sum : sum = old.spent + t /\ mid = [old EXCEPT !.spent = sum]
    OBVIOUS
  <2>1. sum \in Nat /\ sum = paid
    BY <1>5
  <2>2. /\ mid \in AttemptRows /\ mid.step = old.step /\ mid.run = old.run
        /\ mid.limit = old.limit /\ mid.spent = paid /\ mid.calls = old.calls
        /\ mid.known = old.known
        /\ mid.sequence = old.sequence /\ mid.read = old.read
        /\ mid.report = old.report /\ mid.status = old.status
    BY <1>4, <2>1 DEF AttemptRows
  <2>3. now = [mid EXCEPT !.awaiting = FALSE]
    BY <1>1
  <2> QED
    BY <1>3, <2>2, <2>3, ZenonT(40) DEF AttemptRows
<1>7. Owns(a, now)
  BY <1>3, <1>4, <1>6 DEF Owns
<1>8. paid \in Nat /\ Shows(Failed(now), record, paid)
  BY <1>4 DEF Shows
<1>9. AttemptIs(a, Failed(now), record, paid) /\ Failed(now).step = "final"
  BY <1>4, <1>6, <1>7, <1>8, AttemptFails, FailedRow
<1>10. ASSUME now.spent <= TokenLimit
      PROVE  AttemptIs(a, next, record, paid) /\ next.step = "tools"
  <2>1. /\ next \in AttemptRows /\ next.step = "tools" /\ next.run = now.run
        /\ next.limit = now.limit /\ next.spent = now.spent /\ next.calls = now.calls
        /\ next.known = now.known /\ next.awaiting = now.awaiting
        /\ next.sequence = now.sequence /\ next.read = now.read
        /\ next.report = now.report /\ next.status = now.status
    <3>1. now \in AttemptRows
      BY <1>6
    <3> QED
      BY <1>2, <3>1, ToolsRow
  <2>2. Owns(a, next)
    BY <1>6, <1>7, <2>1 DEF Owns
  <2>3. Pays(next, paid)
    BY <1>4, <1>5, <1>6, <1>8, <1>10, <2>1 DEF Pays, LoopSteps
  <2>4. Shows(next, record, paid)
    BY <1>4 DEF Shows
  <2> QED
    BY <2>1, <2>2, <2>3, <2>4 DEF AttemptIs
<1> QED
  BY <1>3, <1>9, <1>10, AloneKeeps

(* A tool is called, with what the model asked for.                        *)
LEMMA CallToolKeeps ==
  ASSUME RunnerInvariant, NEW a \in Attempts, CallTool(a)
  PROVE  RunnerInvariant'
<1> PICK now, record, paid : now = attempts[a] /\ record = disk[a] /\ paid = billed[a]
  OBVIOUS
<1> PICK call, counted : call = Head(now.todo) /\ counted = [now EXCEPT !.calls = @ + 1]
  OBVIOUS
<1> PICK op : op = [kind |-> IF call = "read" THEN "read" ELSE "submit", run |-> now.run,
                    report |-> IF call = "read" THEN NoReport ELSE call]
  OBVIOUS
<1> PICK skipped, next : /\ skipped = [counted EXCEPT !.todo = Tail(@)]
                         /\ next = [counted EXCEPT !.step = "calling"]
  OBVIOUS
<1>1. /\ now.step = "tools" /\ now.todo # <<>>
      /\ IF now.calls >= now.limit THEN FailNow(a) /\ UNCHANGED intakeVars
         ELSE IF call = "invalid" \/ (call # "read" /\ ~now.read)
         THEN Set(a, skipped) /\ UNCHANGED <<claimed, disk, billed, intakeVars>>
         ELSE Arrive(a, op) /\ Set(a, next) /\ UNCHANGED <<claimed, disk, billed>>
  BY DEF CallTool, At
<1>2. /\ AttemptIs(a, now, record, paid) /\ now \in AttemptRows /\ Owns(a, now)
      /\ Pays(now, paid) /\ Shows(now, record, paid)
  BY <1>1, AttemptNow, BegunIs
<1>3. /\ now.calls \in Nat /\ now.limit \in Nat /\ now.todo \in Seq(ToolCalls)
      /\ now.run \in InvRuns
  BY <1>2, AttemptFields
<1>4. call \in ToolCalls /\ Tail(now.todo) \in Seq(ToolCalls)
  BY <1>1, <1>3, HeadTailProperties
<1>5. CASE now.calls >= now.limit
  BY <1>1, <1>5, FailNowKeeps DEF LoopSteps
<1>6. ASSUME ~(now.calls >= now.limit)
      PROVE  /\ counted \in AttemptRows /\ counted.step = "tools"
             /\ counted.run = now.run /\ counted.read = now.read /\ counted.todo = now.todo
             /\ AttemptIs(a, counted, record, paid)
  <2> PICK n : n = now.calls + 1
    OBVIOUS
  <2>1. n \in Nat /\ n <= now.limit
    BY <1>3, <1>6
  <2>2. counted = [now EXCEPT !.calls = n]
    OBVIOUS
  <2>3. /\ counted \in AttemptRows /\ counted.step = now.step /\ counted.run = now.run
        /\ counted.limit = now.limit /\ counted.spent = now.spent /\ counted.calls = n
        /\ counted.known = now.known /\ counted.awaiting = now.awaiting
        /\ counted.sequence = now.sequence /\ counted.read = now.read
        /\ counted.report = now.report /\ counted.status = now.status
        /\ counted.todo = now.todo
    BY <1>2, <2>1, <2>2 DEF AttemptRows
  <2>4. Owns(a, counted)
    BY <1>2, <2>3 DEF Owns
  <2>5. Pays(counted, paid)
    BY <1>1, <1>2, <2>1, <2>3 DEF Pays, LoopSteps
  <2>6. Shows(counted, record, paid)
    BY <1>1, <1>2, <2>3 DEF Shows
  <2> QED
    BY <1>1, <2>3, <2>4, <2>5, <2>6 DEF AttemptIs
<1>7. CASE ~(now.calls >= now.limit) /\ (call = "invalid" \/ (call # "read" /\ ~now.read))
  <2>1. Set(a, skipped) /\ UNCHANGED <<disk, billed, intakeVars>>
    BY <1>1, <1>7
  <2> PICK rest : rest = Tail(now.todo)
    OBVIOUS
  <2>2. skipped = [counted EXCEPT !.todo = rest] /\ rest \in Seq(ToolCalls)
    BY <1>4, <1>6, <1>7
  <2>3. /\ counted \in AttemptRows /\ Owns(a, counted) /\ Pays(counted, paid)
        /\ Shows(counted, record, paid) /\ counted.step = "tools"
    BY <1>6, <1>7, BegunIs
  <2>4. /\ skipped \in AttemptRows /\ skipped.step = counted.step /\ skipped.run = counted.run
        /\ skipped.limit = counted.limit /\ skipped.spent = counted.spent
        /\ skipped.calls = counted.calls
        /\ skipped.known = counted.known /\ skipped.awaiting = counted.awaiting
        /\ skipped.sequence = counted.sequence /\ skipped.read = counted.read
        /\ skipped.report = counted.report /\ skipped.status = counted.status
    BY <2>2, <2>3, Zenon DEF AttemptRows
  <2>5. Owns(a, skipped)
    BY <2>3, <2>4 DEF Owns
  <2>6. Pays(skipped, paid)
    BY <2>3, <2>4 DEF Pays
  <2>7. Shows(skipped, record, paid)
    BY <2>3, <2>4 DEF Shows
  <2>8. AttemptIs(a, skipped, record, paid) /\ skipped.step # "calling"
    BY <2>3, <2>4, <2>5, <2>6, <2>7 DEF AttemptIs
  <2> QED
    BY <2>1, <2>8, AloneKeeps
<1>8. CASE ~(now.calls >= now.limit) /\ call # "invalid" /\ (call = "read" \/ now.read)
  <2>1. Arrive(a, op) /\ Set(a, next) /\ UNCHANGED <<disk, billed>>
    BY <1>1, <1>8
  <2>2. AttemptIs(a, next, record, paid)
    BY <1>6, <1>8, LoopGoesOn DEF LoopSteps
  <2>3. next.run = now.run /\ next.read = now.read /\ next.todo # <<>>
    BY <1>1, <1>6, <1>8, StepRow DEF LoopSteps
  <2>4. /\ op.kind \in {"read", "submit"} /\ op.run = now.run
        /\ op.kind = "submit" => now.read
    BY <1>8
  <2>5. op \in Operations
    <3>1. CASE call = "read"
      BY <1>3, <3>1 DEF Operations, Readings
    <3>2. CASE call # "read"
      <4>1. call \in InvReports
        BY <1>4, <1>8, <3>2 DEF ToolCalls
      <4> QED
        BY <1>3, <3>2, <4>1 DEF Operations, Submissions
    <3> QED
      BY <3>1, <3>2
  <2> QED
    BY <2>1, <2>2, <2>3, <2>4, <2>5, RequestKeeps
<1> QED
  BY <1>5, <1>7, <1>8

(* What a call's answer says, the attempt may count on.                    *)
LEMMA CallAnswered ==
  ASSUME RunnerInvariant, NEW a \in Attempts, attempts[a].step = "calling",
         asked[a].step = "answered", asked[a].reply.ok
  PROVE  /\ asked[a].op \in Operations /\ asked[a].op.kind \in {"read", "submit"}
         /\ asked[a].op.run = attempts[a].run
         /\ asked[a].op.kind = "submit" => attempts[a].read
         /\ Receipted(records, asked[a].op, asked[a].reply.receipt, a)
         /\ asked[a].op.report \in records.runs[attempts[a].run].reports \cup {NoReport}
<1>1. a \in Callers /\ Awaits(a) /\ IntakeInvariant
  BY AttemptNow, RunnerAssumption
<1>2. /\ asked[a].op.kind \in {"read", "submit"} /\ asked[a].op.run = attempts[a].run
      /\ asked[a].op.kind = "submit" => attempts[a].read
  BY <1>1 DEF Awaits
<1>3. CallTrue(a) /\ AskedTyped(a)
  BY <1>1 DEF IntakeInvariant, IntakeTyped
<1>4. asked[a].op \in Operations
  BY <1>3 DEF AskedTyped
<1>5. /\ Receipted(records, asked[a].op, asked[a].reply.receipt, a)
      /\ asked[a].op.report \in Stored(a).reports \cup {NoReport}
  BY <1>2, <1>3 DEF CallTrue, Calls
<1> QED
  BY <1>2, <1>4, <1>5 DEF Stored

(* The receipt of the next call is the run's next, so that nobody else's   *)
(* came between.                                                           *)
Acknowledged(now, n, rest) ==
  [now EXCEPT !.step = "tools", !.sequence = n, !.todo = rest]

(* Counting a receipt leaves the rest of an attempt.                      *)
LEMMA CountedRow ==
  ASSUME NEW now \in AttemptRows, NEW n \in Nat, NEW rest \in Seq(ToolCalls), NEW next,
         next = Acknowledged(now, n, rest)
  PROVE  /\ next \in AttemptRows /\ next.step = "tools" /\ next.run = now.run
         /\ next.limit = now.limit /\ next.spent = now.spent /\ next.calls = now.calls
         /\ next.known = now.known /\ next.awaiting = now.awaiting
         /\ next.sequence = n /\ next.read = now.read
         /\ next.report = now.report /\ next.status = now.status
<1> PICK mid : mid = ToDo(now, rest)
  OBVIOUS
<1>1. /\ mid \in AttemptRows /\ mid.step = "tools" /\ mid.run = now.run
      /\ mid.limit = now.limit /\ mid.spent = now.spent /\ mid.calls = now.calls
      /\ mid.known = now.known /\ mid.awaiting = now.awaiting
      /\ mid.read = now.read
      /\ mid.report = now.report /\ mid.status = now.status
  BY ToolsRow
<1>2. next = [mid EXCEPT !.sequence = n]
  BY DEF Acknowledged, ToDo, AttemptRows
<1> QED
  BY <1>1, <1>2, ZenonT(40) DEF AttemptRows

(* The report it was acknowledged for completes the attempt.               *)
WithReport(now, report) ==
  [now EXCEPT !.step = "save", !.report = report, !.status = "completed"]

(* Completing an attempt leaves the rest of it.                           *)
LEMMA ReportRow ==
  ASSUME NEW now \in AttemptRows, NEW report \in InvReports, NEW next,
         next = WithReport(now, report)
  PROVE  /\ next \in AttemptRows /\ next.step = "save" /\ next.run = now.run
         /\ next.limit = now.limit /\ next.spent = now.spent /\ next.calls = now.calls
         /\ next.known = now.known /\ next.awaiting = now.awaiting
         /\ next.sequence = now.sequence
         /\ next.report = report /\ next.status = "completed"
<1> PICK one, two : /\ one = [now EXCEPT !.step = "save"]
                    /\ two = [one EXCEPT !.report = report]
  OBVIOUS
<1>1. /\ one \in AttemptRows /\ one.step = "save" /\ one.run = now.run
      /\ one.limit = now.limit /\ one.spent = now.spent /\ one.calls = now.calls
      /\ one.known = now.known /\ one.awaiting = now.awaiting
      /\ one.sequence = now.sequence
  BY StepRow DEF LoopSteps
<1>2. /\ two \in AttemptRows /\ two.step = "save" /\ two.run = now.run
      /\ two.limit = now.limit /\ two.spent = now.spent /\ two.calls = now.calls
      /\ two.known = now.known /\ two.awaiting = now.awaiting
      /\ two.sequence = now.sequence /\ two.report = report
  BY <1>1 DEF AttemptRows
<1>3. next = [two EXCEPT !.status = "completed"]
  BY DEF WithReport
<1> QED
  BY <1>2, <1>3, ZenonT(40) DEF AttemptRows

(* The receipt of a call is looked at before the attempt goes on.          *)
LEMMA ToolAnswersKeeps ==
  ASSUME RunnerInvariant, NEW a \in Attempts, ToolAnswers(a)
  PROVE  RunnerInvariant'
<1> PICK now, record, paid : now = attempts[a] /\ record = disk[a] /\ paid = billed[a]
  OBVIOUS
<1> PICK op, receipt, n : /\ op = asked[a].op /\ receipt = asked[a].reply.receipt
                          /\ n = now.sequence + 1
  OBVIOUS
<1>0. PICK rest : rest = Tail(now.todo)
  OBVIOUS
<1>1. PICK ack : ack = Acknowledged(now, n, rest)
  OBVIOUS
<1>2. PICK done : done = WithReport(ack, op.report)
  OBVIOUS
<1>3. /\ now.step = "calling" /\ Hear(a) /\ UNCHANGED <<records, draft, writer>>
      /\ UNCHANGED <<disk, billed>>
      /\ IF ~NextReceipt(a) THEN Set(a, Failed(now))
         ELSE IF op.kind = "read" THEN Set(a, [ack EXCEPT !.read = TRUE])
         ELSE Set(a, done)
  BY <1>0, <1>1, <1>2 DEF ToolAnswers, At, Acknowledged, WithReport
<1>4. /\ AttemptIs(a, now, record, paid) /\ now \in AttemptRows /\ Owns(a, now)
      /\ Pays(now, paid) /\ AttemptIs(a, Failed(now), record, paid)
      /\ record.status \notin {"completed", "failed"}
  BY <1>3, AttemptNow, BegunIs, LoopFails DEF LoopSteps
<1>5. CASE ~NextReceipt(a)
  <2>1. Failed(now).step = "final"
    BY <1>4, FailedRow
  <2> QED
    BY <1>3, <1>4, <1>5, <2>1, AnswerKeeps
<1>6. CASE NextReceipt(a)
  <2> PICK run : run = records.runs[now.run]
    OBVIOUS
  <2>1. /\ op \in Operations /\ op.kind \in {"read", "submit"} /\ op.run = now.run
        /\ op.kind = "submit" => now.read
        /\ Receipted(records, op, receipt, a) /\ op.report \in run.reports \cup {NoReport}
        /\ receipt.sequence = n
    <3>1. asked[a].step = "answered" /\ asked[a].reply.ok /\ receipt.sequence = n
      BY <1>3, <1>6 DEF Hear, NextReceipt
    <3> QED
      BY <1>3, <3>1, CallAnswered
  <2>2. /\ run # NotRun /\ n \in 1..Len(run.receipts) /\ run.receipts[n] = receipt
        /\ op.kind = "read" => receipt.by = a
        /\ op.kind = "submit" => receipt.report = op.report
    BY <2>1 DEF Receipted
  <2>3. /\ now.sequence \in Nat /\ n \in Nat /\ now.run \in InvRuns
        /\ now.read \in BOOLEAN /\ now.report = NoReport
    <3>1. now.report = NoReport
      BY <1>3, <1>4 DEF Owns
    <3> QED
      BY <1>4, <3>1, AttemptFields
  <2>4. Mine(a, now.run, now.sequence) /\ (now.read => now.sequence > 0)
    BY <1>4, <2>3 DEF Owns
  <2>5. rest \in Seq(ToolCalls)
    <3>1. now.todo # <<>> /\ now.todo \in Seq(ToolCalls)
      BY <1>3, <1>4, AttemptNow, AttemptFields DEF Awaits
    <3> QED
      BY <1>0, <3>1, HeadTailProperties
  <2>6. /\ ack \in AttemptRows /\ ack.step = "tools" /\ ack.run = now.run
        /\ ack.limit = now.limit /\ ack.spent = now.spent /\ ack.calls = now.calls
        /\ ack.known = now.known /\ ack.awaiting = now.awaiting
        /\ ack.sequence = n /\ ack.read = now.read
        /\ ack.report = now.report /\ ack.status = now.status
    <3>1. now \in AttemptRows /\ n \in Nat
      BY <1>4, <2>3
    <3> QED
      BY <1>1, <2>5, <3>1, CountedRow, SMTT(30)
  <2>7. Len(run.receipts) \in Nat
    BY <2>2, <2>3, AttemptNow, RunFields DEF IntakeInvariant, IntakeTyped
  <2>8. CASE op.kind = "read"
    <3> PICK next : next = [ack EXCEPT !.read = TRUE]
      OBVIOUS
    <3>1. /\ next \in AttemptRows /\ next.step = ack.step /\ next.run = ack.run
          /\ next.limit = ack.limit /\ next.spent = ack.spent /\ next.calls = ack.calls
          /\ next.known = ack.known /\ next.awaiting = ack.awaiting
          /\ next.sequence = ack.sequence
          /\ next.report = ack.report /\ next.status = ack.status
      BY <2>6 DEF AttemptRows
    <3>2. Mine(a, now.run, n)
      <4> PICK m : m = Len(run.receipts)
        OBVIOUS
      <4>1. n <= m /\ m \in Nat
        BY <2>2, <2>7
      <4>2. \A i \in 1..n : i \in 1..now.sequence \/ i = n
        BY <2>3
      <4>3. now.sequence > 0 => \A i \in 1..now.sequence : run.receipts[i].by = a
        BY <2>4 DEF Mine
      <4>4. \A i \in 1..now.sequence : now.sequence > 0
        BY <2>3
      <4>5. \A i \in 1..n : run.receipts[i].by = a
        BY <2>2, <2>8, <4>2, <4>3, <4>4
      <4> QED
        BY <2>2, <4>1, <4>5 DEF Mine
    <3>3. Owns(a, next)
      <4>1. n > 0
        BY <2>3
      <4>2. next.status # "completed"
        BY <1>3, <1>4, <2>6, <3>1 DEF Owns
      <4> QED
        BY <2>3, <2>6, <3>1, <3>2, <4>1, <4>2 DEF Owns
    <3>4. Pays(next, paid)
      BY <1>3, <1>4, <2>6, <3>1 DEF Pays, LoopSteps
    <3>5. Shows(next, record, paid)
      BY <1>4 DEF Shows
    <3>6. AttemptIs(a, next, record, paid) /\ next.step = "tools"
      BY <2>6, <3>1, <3>3, <3>4, <3>5 DEF AttemptIs
    <3> QED
      BY <1>3, <1>6, <2>8, <3>6, AnswerKeeps
  <2>9. CASE op.kind = "submit"
    <3>1. op.report \in InvReports /\ op.report # NoReport
      BY <2>1, <2>9, OpKinds
    <3>2. /\ done \in AttemptRows /\ done.step = "save" /\ done.run = ack.run
          /\ done.limit = ack.limit /\ done.spent = ack.spent /\ done.calls = ack.calls
          /\ done.known = ack.known /\ done.awaiting = ack.awaiting
          /\ done.sequence = ack.sequence
          /\ done.report = op.report /\ done.status = "completed"
      BY <1>2, <2>6, <3>1, ReportRow
    <3>3. n > 1 /\ n - 1 = now.sequence
      BY <2>1, <2>3, <2>4, <2>9
    <3>4. n <= Len(run.receipts) /\ run.receipts[n].report = op.report /\ op.report \in run.reports
      BY <2>1, <2>2, <2>7, <2>9, <3>1
    <3>5. Owns(a, done)
      BY <2>4, <2>6, <3>1, <3>2, <3>3, <3>4 DEF Owns
    <3>6. Pays(done, paid)
      BY <1>3, <1>4, <2>6, <3>2 DEF Pays, LoopSteps
    <3>7. Shows(done, record, paid)
      BY <1>4 DEF Shows
    <3>8. AttemptIs(a, done, record, paid)
      BY <3>2, <3>5, <3>6, <3>7 DEF AttemptIs
    <3>9. Set(a, done) /\ done.step # "calling"
      BY <1>3, <1>6, <2>9, <3>2
    <3> QED
      BY <1>3, <3>8, <3>9, AnswerKeeps
  <2> QED
    BY <2>1, <2>8, <2>9
<1> QED
  BY <1>5, <1>6

(* The end of a round: a completed attempt's record is the final one.      *)
LEMMA EndRoundKeeps ==
  ASSUME RunnerInvariant, NEW a \in Attempts, EndRound(a)
  PROVE  RunnerInvariant'
<1> PICK now, record, paid : now = attempts[a] /\ record = disk[a] /\ paid = billed[a]
  OBVIOUS
<1>1. PICK next : next = IF now.step = "save" THEN [now EXCEPT !.step = "final"]
                         ELSE [now EXCEPT !.step = "model", !.rounds = @ + 1]
  OBVIOUS
<1>2. /\ now.step \in {"tools", "save"} /\ UNCHANGED <<billed, intakeVars>>
      /\ Saving(a, next, Failed(now))
  BY <1>1 DEF EndRound, At
<1>3. /\ AttemptIs(a, now, record, paid) /\ now \in AttemptRows /\ Owns(a, now)
      /\ Pays(now, paid) /\ AttemptIs(a, Failed(now), record, paid)
      /\ now.known /\ paid \in Nat
      /\ record.status \notin {"completed", "failed"}
  BY <1>2, AttemptNow, BegunIs, LoopFails DEF LoopSteps
<1>4. ~now.awaiting /\ now.spent = paid /\ now.spent <= TokenLimit /\ now.calls <= now.limit
  BY <1>2, <1>3 DEF Pays, LoopSteps
<1>5. /\ next \in AttemptRows /\ next.step = (IF now.step = "save" THEN "final" ELSE "model")
      /\ next.run = now.run
      /\ next.limit = now.limit /\ next.spent = now.spent /\ next.calls = now.calls
      /\ next.known = now.known /\ next.awaiting = now.awaiting
      /\ next.sequence = now.sequence /\ next.read = now.read
      /\ next.report = now.report /\ next.status = now.status
  <2>1. CASE now.step = "save"
    <3>1. next = [now EXCEPT !.step = "final"]
      BY <1>1, <2>1
    <3> QED
      BY <1>3, <2>1, <3>1 DEF AttemptRows
  <2>2. CASE now.step = "tools"
    <3> PICK mid, n : mid = [now EXCEPT !.step = "model"] /\ n = now.rounds + 1
      OBVIOUS
    <3>1. /\ mid \in AttemptRows /\ mid.step = "model" /\ mid.run = now.run
          /\ mid.limit = now.limit /\ mid.spent = now.spent /\ mid.calls = now.calls
          /\ mid.known = now.known /\ mid.awaiting = now.awaiting
          /\ mid.sequence = now.sequence /\ mid.read = now.read
          /\ mid.report = now.report /\ mid.status = now.status
      BY <1>3 DEF AttemptRows, LoopSteps
    <3>2. n \in Nat
      BY <1>3, AttemptFields
    <3>3. next = [mid EXCEPT !.rounds = n]
      BY <1>1, <2>2
    <3> QED
      BY <2>2, <3>1, <3>2, <3>3, ZenonT(40) DEF AttemptRows
  <2> QED
    BY <1>2, <2>1, <2>2
<1>6. Owns(a, next)
  BY <1>2, <1>3, <1>5 DEF Owns
<1>7. Pays(next, paid)
  BY <1>2, <1>3, <1>4, <1>5 DEF Pays, LoopSteps
<1> PICK final : final = Record(next)
  OBVIOUS
<1>8. final.status = now.status /\ final.known /\ final.spent = paid /\ final.calls = now.calls
  BY <1>3, <1>4, <1>5 DEF Record
<1>9. ASSUME NEW r, r.step = "final" \/ now.step = "tools", r.report = now.report,
             r.limit = now.limit
      PROVE  Shows(r, final, paid)
  <2>1. CASE now.step = "tools"
    <3>1. now.status = "running"
      BY <1>3, <2>1 DEF Pays, LoopSteps
    <3> QED
      BY <1>8, <3>1 DEF Shows
  <2>2. CASE now.step = "save"
    <3>1. now.report # NoReport
      BY <1>3, <2>2 DEF Owns
    <3>2. r.step = "final"
      BY <1>9, <2>2
    <3> QED
      BY <1>4, <1>8, <1>9, <3>1, <3>2 DEF Shows
  <2> QED
    BY <1>2, <2>1, <2>2
<1>10. /\ Failed(now).step = "final" /\ Failed(now).report = now.report
       /\ Failed(now).limit = now.limit
  BY <1>3, FailedRow
<1>11. Shows(next, final, paid) /\ Shows(Failed(now), final, paid)
  BY <1>2, <1>5, <1>9, <1>10
<1>12. AttemptIs(a, next, final, paid)
  BY <1>2, <1>5, <1>6, <1>7, <1>11 DEF AttemptIs
<1>13. AttemptIs(a, Failed(now), final, paid)
  BY <1>3, <1>4, <1>11, AttemptFails
<1>14. next.step # "calling" /\ Failed(now).step # "calling"
  BY <1>2, <1>5, <1>10
<1> QED
  BY <1>2, <1>3, <1>12, <1>13, <1>14, SavingKeeps

(* The last save tells whether the usage is known.                         *)
LEMMA SaveLastKeeps ==
  ASSUME RunnerInvariant, NEW a \in Attempts, SaveLast(a)
  PROVE  RunnerInvariant'
<1> PICK now, record, paid, known : /\ now = attempts[a] /\ record = disk[a]
                                    /\ paid = billed[a] /\ known = ~now.awaiting
  OBVIOUS
<1>1. PICK next : next = [now EXCEPT !.step = "done", !.known = known]
  OBVIOUS
<1>2. PICK lost : lost = [next EXCEPT !.status = "failed"]
  OBVIOUS
<1>3. /\ now.step = "final" /\ UNCHANGED <<billed, intakeVars>> /\ Saving(a, next, lost)
  BY <1>1, <1>2 DEF SaveLast, At
<1>4. /\ now \in AttemptRows /\ Owns(a, now) /\ Pays(now, paid) /\ Shows(now, record, paid)
  BY <1>3, AttemptNow, BegunIs
<1>5. now.awaiting \in BOOLEAN /\ known \in BOOLEAN
  BY <1>4, AttemptFields
<1>6. /\ next \in AttemptRows /\ next.step = "done" /\ next.known = known /\ next.run = now.run
      /\ next.limit = now.limit /\ next.spent = now.spent /\ next.calls = now.calls
      /\ next.awaiting = now.awaiting
      /\ next.sequence = now.sequence /\ next.read = now.read
      /\ next.report = now.report /\ next.status = now.status
  <2> PICK mid : mid = [now EXCEPT !.step = "done"]
    OBVIOUS
  <2>1. /\ mid \in AttemptRows /\ mid.step = "done" /\ mid.run = now.run
        /\ mid.limit = now.limit /\ mid.spent = now.spent /\ mid.calls = now.calls
        /\ mid.awaiting = now.awaiting
        /\ mid.sequence = now.sequence /\ mid.read = now.read
        /\ mid.report = now.report /\ mid.status = now.status
    BY <1>4 DEF AttemptRows
  <2>2. next = [mid EXCEPT !.known = known]
    BY <1>1
  <2> QED
    BY <1>5, <2>1, <2>2, ZenonT(40) DEF AttemptRows
<1>7. /\ lost \in AttemptRows /\ lost.step = "done" /\ lost.known = known /\ lost.run = now.run
      /\ lost.limit = now.limit /\ lost.spent = now.spent /\ lost.calls = now.calls
      /\ lost.awaiting = now.awaiting
      /\ lost.sequence = now.sequence /\ lost.read = now.read
      /\ lost.report = now.report /\ lost.status = "failed"
  BY <1>2, <1>6 DEF AttemptRows
<1>8. Owns(a, next) /\ Owns(a, lost)
  BY <1>3, <1>4, <1>6, <1>7 DEF Owns
<1>9. Pays(next, paid) /\ Pays(lost, paid)
  <2>1. /\ paid \in Nat /\ (~now.awaiting => now.spent = paid)
        /\ now.awaiting => now.status # "completed"
        /\ now.status = "completed" => now.spent <= TokenLimit /\ now.calls <= now.limit
    BY <1>4 DEF Pays
  <2> QED
    BY <1>6, <1>7, <2>1 DEF Pays, LoopSteps
<1> PICK final : final = Record(next)
  OBVIOUS
<1>10. /\ final.status = now.status /\ final.known = known /\ final.spent = now.spent
       /\ final.calls = now.calls
  BY <1>6 DEF Record
<1>11. ASSUME NEW r, r.step = "done", r.report = now.report, r.limit = now.limit
       PROVE  Shows(r, final, paid) /\ Shows(r, record, paid)
  <2>1. known => now.spent = paid
    BY <1>4 DEF Pays
  <2>2. now.status = "completed" =>
          /\ now.report # NoReport /\ known
          /\ now.spent <= TokenLimit /\ now.calls <= now.limit
    BY <1>4 DEF Owns, Pays
  <2>3. Shows(r, final, paid)
    BY <1>10, <1>11, <2>1, <2>2 DEF Shows
  <2>4. Shows(r, record, paid)
    BY <1>4, <1>11 DEF Shows
  <2> QED
    BY <2>3, <2>4
<1>12. /\ AttemptIs(a, next, final, paid) /\ AttemptIs(a, lost, final, paid)
       /\ AttemptIs(a, lost, record, paid)
  BY <1>6, <1>7, <1>8, <1>9, <1>11 DEF AttemptIs
<1>13. next.step # "calling" /\ lost.step # "calling"
  BY <1>6, <1>7
<1> QED
  BY <1>3, <1>12, <1>13, SavingKeeps

-----------------------------------------------------------------------------
(* A step of an attempt keeps the invariant.                               *)
LEMMA RunnerKeeps ==
  ASSUME RunnerInvariant, NEW a \in Attempts, RunnerStep(a)
  PROVE  RunnerInvariant'
<1>1. \A t \in Bills \cup {0} : t \in Nat
  BY RunnerAssumption
<1>2. \A todo \in Replies : todo \in Seq(ToolCalls)
  BY RunnerAssumption
<1>3. ASSUME NEW t \in Bills \cup {0}, ModelFails(a, t)
      PROVE  RunnerInvariant'
  BY <1>1, <1>3, ModelFailsKeeps
<1>4. ASSUME NEW t \in Bills, NEW todo \in Replies, ModelAnswers(a, t, todo)
      PROVE  RunnerInvariant'
  BY <1>1, <1>2, <1>4, ModelAnswersKeeps
<1>5. ASSUME NEW l \in Ledgers, NEW r \in InvRuns, NEW limit \in Limits, Claim(a, l, r, limit)
      PROVE  RunnerInvariant'
  BY <1>5, ClaimKeeps
<1>6. ASSUME \/ Preflight(a) \/ PreflightAnswered(a) \/ Unheard(a) \/ RequestModel(a)
             \/ CallTool(a) \/ ToolAnswers(a) \/ EndRound(a) \/ SaveLast(a)
      PROVE  RunnerInvariant'
  BY <1>6, PreflightKeeps, PreflightAnsweredKeeps, UnheardKeeps, RequestModelKeeps,
     CallToolKeeps, ToolAnswersKeeps, EndRoundKeeps, SaveLastKeeps
<1> QED
  BY <1>3, <1>4, <1>5, <1>6 DEF RunnerStep

(* So does what the gateway does, and its other callers.                   *)
LEMMA AttemptsRest ==
  ASSUME RunnerInvariant, IntakeInvariant', UNCHANGED runnerVars,
         \A r \in InvRuns : Grows(records.runs[r], records'.runs[r]),
         \A a \in Attempts : attempts[a].step = "calling" /\ asked[a].step # "off" =>
           asked'[a].step # "off" /\ asked'[a].op = asked[a].op
  PROVE  RunnerInvariant'
<1>1. /\ attempts' = attempts /\ disk' = disk /\ billed' = billed
      /\ records \in Databases /\ records' \in Databases
  BY DEF runnerVars, RunnerInvariant, IntakeInvariant, IntakeTyped
<1>2. ASSUME NEW a \in Attempts
      PROVE  AttemptTrue(a)'
  <2> PICK now, record, paid : now = attempts[a] /\ record = disk[a] /\ paid = billed[a]
    OBVIOUS
  <2>1. AttemptIs(a, now, record, paid) /\ Awaits(a)
    BY AttemptNow
  <2>2. AttemptIs(a, now, record, paid)'
    BY <1>1, <2>1, AttemptStays
  <2>3. Awaits(a)'
    BY <1>1, <2>1 DEF Awaits
  <2> QED
    BY <1>1, <2>2, <2>3 DEF AttemptTrue
<1> QED
  BY <1>1, <1>2 DEF RunnerInvariant

(* Whatever comes next.                                                    *)
LEMMA RunnerNextKeeps ==
  ASSUME RunnerInvariant, RunnerNext
  PROVE  RunnerInvariant'
<1>1. /\ IntakeInvariant /\ DOMAIN asked = Callers
      /\ \A r \in InvRuns : Grows(records.runs[r], records.runs[r])
  BY GrowsStays DEF RunnerInvariant, IntakeInvariant, IntakeTyped
<1>2. ASSUME Gateway, UNCHANGED runnerVars
      PROVE  RunnerInvariant'
  <2>1. IntakeInvariant'
    BY <1>1, <1>2, GatewayKeeps
  <2>2. \A a \in Attempts : asked[a].step # "off" =>
          asked'[a].step # "off" /\ asked'[a].op = asked[a].op
    BY <1>1, <1>2, GatewayTells, RunnerAssumption
  <2> QED
    BY <1>1, <1>2, <2>1, <2>2, GatewayTells, AttemptsRest
<1>3. ASSUME NEW c \in Callers, Others(c), UNCHANGED runnerVars,
             c \in Attempts => attempts[c].step # "calling"
      PROVE  RunnerInvariant'
  <2>1. IntakeInvariant'
    BY <1>1, <1>3, ArriveKeeps, HearKeeps DEF Others
  <2>2. records' = records /\ \A d \in Callers : d # c => asked'[d] = asked[d]
    BY <1>1, <1>3 DEF Others, Arrive, Hear
  <2>3. \A a \in Attempts : attempts[a].step = "calling" => asked'[a] = asked[a]
    BY <1>3, <2>2, RunnerAssumption
  <2> QED
    BY <1>1, <1>3, <2>1, <2>2, <2>3, AttemptsRest
<1>4. ASSUME NEW a \in Attempts, EndsUnheard(a), UNCHANGED runnerVars
      PROVE  RunnerInvariant'
  <2>1. a \in Callers /\ Others(a) /\ attempts[a].step # "calling"
    BY <1>4, RunnerAssumption DEF EndsUnheard, Others
  <2> QED
    BY <1>3, <1>4, <2>1
<1> QED
  BY <1>2, <1>3, <1>4, RunnerKeeps DEF RunnerNext

(* The first receipts of a run are those of the attempt that counts them,  *)
(* and what it spent is what it was billed but for what it still awaits.   *)
THEOREM RunnerInvariantHolds == RunnerSpec => []RunnerInvariant
<1>1. IntakeInit /\ RunnerInit => RunnerInvariant
  <2> SUFFICES ASSUME IntakeInit, RunnerInit
               PROVE  RunnerInvariant
    OBVIOUS
  <2>1. /\ DOMAIN attempts = Attempts /\ DOMAIN disk = Attempts /\ DOMAIN billed = Attempts
        /\ \A a \in Attempts : /\ attempts[a] = NoAttempt /\ disk[a] = NoRecord
                               /\ billed[a] = 0 /\ attempts[a].step = "off"
    BY DEF RunnerInit, NoAttempt
  <2>2. \A a \in Attempts : AttemptTrue(a)
    BY <2>1 DEF AttemptTrue, AttemptIs, Awaits
  <2> QED
    BY <2>1, <2>2, IntakeStarts DEF RunnerInvariant
<1>2. RunnerInvariant /\ [RunnerNext]_<<intakeVars, runnerVars>> => RunnerInvariant'
  <2> SUFFICES ASSUME RunnerInvariant, [RunnerNext]_<<intakeVars, runnerVars>>
               PROVE  RunnerInvariant'
    OBVIOUS
  <2>1. CASE RunnerNext
    BY <2>1, RunnerNextKeeps
  <2>2. CASE UNCHANGED <<intakeVars, runnerVars>>
    <3>1. UNCHANGED intakeVars /\ UNCHANGED runnerVars
      BY <2>2
    <3>2. records' = records /\ asked' = asked
      BY <3>1 DEF intakeVars
    <3>3. IntakeInvariant /\ IntakeInvariant'
      BY <3>1, IntakeRests DEF RunnerInvariant
    <3>4. \A r \in InvRuns : Grows(records.runs[r], records'.runs[r])
      BY <3>2, <3>3, GrowsStays DEF IntakeInvariant, IntakeTyped
    <3> QED
      BY <3>1, <3>2, <3>3, <3>4, AttemptsRest
  <2> QED
    BY <2>1, <2>2
<1> QED
  BY <1>1, <1>2, PTL DEF RunnerSpec

(* What a completed attempt has.                                           *)
LEMMA CompletedHas ==
  ASSUME RunnerInvariant, NEW a \in Attempts, Completed(a)
  PROVE  /\ attempts[a] \in AttemptRows /\ attempts[a].report # NoReport
         /\ Owns(a, attempts[a])
<1> PICK now, record, paid : now = attempts[a] /\ record = disk[a] /\ paid = billed[a]
  OBVIOUS
<1>1. AttemptIs(a, now, record, paid)
  BY AttemptNow
<1>2. now.step # "off"
  BY <1>1 DEF Completed, AttemptIs, NoRecord, Returned, At
<1>3. now \in AttemptRows /\ Owns(a, now) /\ Shows(now, record, paid)
  BY <1>1, <1>2, BegunIs
<1>4. now.report # NoReport
  BY <1>3 DEF Completed, Returned, At, Owns, Shows
<1> QED
  BY <1>3, <1>4

(* CompletedOwnsRun: a completed attempt's report is stored, and the calls *)
(* of the run up to it are all its own.                                    *)
LEMMA CompletedFollows ==
  ASSUME RunnerInvariant
  PROVE  CompletedOwnsRun
<1> SUFFICES ASSUME NEW a \in Attempts, Completed(a)
             PROVE  LET now == attempts[a]
                        run == records.runs[now.run]
                    IN
                    /\ now.report \in run.reports
                    /\ run.receipts[now.sequence].report = now.report
                    /\ \A i \in 1..(now.sequence - 1) : run.receipts[i].by = a
                    /\ \A b \in Attempts \ {a} : Completed(b) => attempts[b].run # now.run
  BY DEF CompletedOwnsRun
<1> PICK now, run : now = attempts[a] /\ run = records.runs[now.run]
  OBVIOUS
<1>1. ASSUME NEW b \in Attempts, Completed(b)
      PROVE  /\ attempts[b].sequence \in Nat /\ attempts[b].sequence > 1
             /\ Mine(b, attempts[b].run, attempts[b].sequence - 1)
  <2> PICK n : n = attempts[b].sequence
    OBVIOUS
  <2>1. n \in Nat
    BY <1>1, CompletedHas, AttemptFields
  <2>2. n > 1 /\ Mine(b, attempts[b].run, n - 1)
    BY <1>1, CompletedHas DEF Owns
  <2> QED
    BY <2>1, <2>2
<1>2. /\ now.report \in run.reports /\ run.receipts[now.sequence].report = now.report
  BY CompletedHas DEF Owns
<1>3. \A i \in 1..(now.sequence - 1) : run.receipts[i].by = a
  BY <1>1 DEF Mine
<1>4. ASSUME NEW b \in Attempts, b # a, Completed(b), attempts[b].run = now.run
      PROVE  FALSE
  <2> PICK m, n : m = now.sequence /\ n = attempts[b].sequence
    OBVIOUS
  <2>1. m \in Nat /\ m > 1 /\ n \in Nat /\ n > 1
    BY <1>1, <1>4
  <2>2. 1 \in 1..(m - 1) /\ 1 \in 1..(n - 1) /\ n - 1 > 0
    BY <2>1
  <2>3. run.receipts[1].by = a
    BY <1>3, <2>2
  <2>4. Mine(b, now.run, n - 1)
    BY <1>1, <1>4
  <2>5. run.receipts[1].by = b
    BY <2>2, <2>4 DEF Mine
  <2> QED
    BY <1>4, <2>3, <2>5
<1> QED
  BY <1>2, <1>3, <1>4, Zenon

(* UsageIsTrue: a final record that gives its usage gives all of it, and a *)
(* completed one gives it and is within the budgets.                       *)
LEMMA UsageFollows ==
  ASSUME RunnerInvariant
  PROVE  UsageIsTrue
<1> SUFFICES ASSUME NEW a \in Attempts, NEW r \in Final(a)
             PROVE  /\ r.known => r.spent = billed[a]
                    /\ r.status = "completed" =>
                         r.known /\ r.spent <= TokenLimit /\ r.calls <= attempts[a].limit
  BY DEF UsageIsTrue
<1> PICK now, record, paid : now = attempts[a] /\ record = disk[a] /\ paid = billed[a]
  OBVIOUS
<1>1. AttemptIs(a, now, record, paid)
  BY AttemptNow
<1>2. /\ r.status \in {"completed", "failed"}
      /\ r = record \/ (now.step = "done" /\ r = Record(now))
  BY DEF Final, Returned, At
<1>3. now.step # "off"
  BY <1>1, <1>2 DEF AttemptIs, NoRecord
<1>4. now \in AttemptRows /\ Pays(now, paid) /\ Shows(now, record, paid)
  BY <1>1, <1>3, BegunIs
<1>5. CASE r = record
  BY <1>2, <1>4, <1>5 DEF Shows
<1>6. CASE now.step = "done" /\ r = Record(now)
  <2>1. /\ r.known = now.known /\ r.spent = now.spent /\ r.calls = now.calls
        /\ r.status = now.status
    BY <1>6 DEF Record
  <2>2. now.known = ~now.awaiting /\ (~now.awaiting => now.spent = paid)
    BY <1>4, <1>6 DEF Pays
  <2>3. now.status = "completed" =>
          ~now.awaiting /\ now.spent <= TokenLimit /\ now.calls <= now.limit
    BY <1>4 DEF Pays
  <2> QED
    BY <2>1, <2>2, <2>3
<1> QED
  BY <1>2, <1>5, <1>6

(* A completed attempt owns its run, whoever else asks for it and however  *)
(* the gateway fails.                                                      *)
THEOREM CompletedOwnsItsRun == RunnerSpec => []CompletedOwnsRun
BY RunnerInvariantHolds, CompletedFollows, PTL

(* And its usage is told truly, whatever could not be saved.               *)
THEOREM UsageIsToldTruly == RunnerSpec => []UsageIsTrue
BY RunnerInvariantHolds, UsageFollows, PTL

=============================================================================
