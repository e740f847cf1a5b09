---------------------------- MODULE GuardedSerial ----------------------------
(***************************************************************************)
(* run-guarded-serial.py: a harness outside the team that hands the three  *)
(* roles one task each, in order, through the one budget of an armed       *)
(* guard, and always closes the guard and puts the Workers to sleep.       *)
(*                                                                         *)
(* Every call it makes is a step of its own, any of them may fail or run   *)
(* out of its time, and the process may be killed and started again.       *)
(* External are the Workers, which spend the budget and post reports once  *)
(* they were asked for as long as they are awake, also twice for one task; *)
(* the gateway, where a report may be filed late; and of the guard what    *)
(* its status tells: it serves one request at a time, also to its end when *)
(* the Worker has been put to sleep, and counts those it refuses.          *)
(***************************************************************************)
EXTENDS Integers, FiniteSets

CONSTANTS
  LastStage,    \* 3: investigator, planner, verifier
  MaxRequests,  \* requests the guard serves to a role
  MaxTasks,     \* reports a Worker may post: bound
  MaxDenials,   \* requests refused: bound
  MaxStarts     \* times the harness is started: bound

ASSUME SerialAssumption ==
  /\ LastStage \in Nat \ {0}
  /\ {MaxRequests, MaxTasks, MaxDenials, MaxStarts} \subseteq Nat

Staff == 1..LastStage
Nobody == 0

VARIABLES
  admission,\* [open, denials, serving: who is served, served: role -> requests]
  crew,     \* [asked, awake: the Workers that are]
  filing,   \* [posted, filed: reports, as <<who, number>>]
  harness,  \* the process
  result,   \* serial-result.json of the last start
  starts

serialVars == <<admission, crew, filing, harness, result, starts>>

Success == "three_reports_observed_requires_native_evidence_review"

NotRunning ==
  [step |-> "off", stage |-> 1, seen |-> {}, initial |-> 0,
   status |-> "running", owns |-> FALSE, clean |-> TRUE, left |-> Staff]

SerialInit ==
  /\ admission = [open |-> TRUE, denials |-> 0, serving |-> Nobody,
              served |-> [w \in Staff |-> 0]]
  /\ crew = [asked |-> {}, awake |-> Staff]
  /\ filing = [posted |-> {}, filed |-> {}]
  /\ harness = NotRunning
  /\ result = "none"
  /\ starts = 0

-----------------------------------------------------------------------------
(* The world around the harness.                                           *)

(* A Worker that was asked sends a model request.                          *)
Turn(w) ==
  /\ w \in crew.asked \cap crew.awake
  /\ IF admission.open /\ admission.serving = Nobody /\ admission.served[w] < MaxRequests
     THEN admission' = [admission EXCEPT !.serving = w, !.served[w] = @ + 1]
     ELSE /\ admission.denials < MaxDenials
          /\ admission' = [admission EXCEPT !.denials = @ + 1]
  /\ UNCHANGED <<crew, filing, harness, result, starts>>

SettleTurn ==
  /\ admission.serving # Nobody
  /\ admission' = [admission EXCEPT !.serving = Nobody]
  /\ UNCHANGED <<crew, filing, harness, result, starts>>

(* An operator, an overrun or a failure closes the run.                    *)
CloseElsewhere ==
  /\ admission.open
  /\ admission' = [admission EXCEPT !.open = FALSE]
  /\ UNCHANGED <<crew, filing, harness, result, starts>>

Post(w) ==
  LET mine == {r \in filing.posted : r[1] = w} IN
  /\ w \in crew.asked \cap crew.awake /\ admission.served[w] > 0
  /\ Cardinality(mine) < MaxTasks
  /\ filing' = [filing EXCEPT !.posted = @ \cup {<<w, Cardinality(mine) + 1>>}]
  /\ UNCHANGED <<admission, crew, harness, result, starts>>

File(r) ==
  /\ r \in filing.posted \ filing.filed
  /\ filing' = [filing EXCEPT !.filed = @ \cup {r}]
  /\ UNCHANGED <<admission, crew, harness, result, starts>>

World ==
  \/ \E w \in Staff : Turn(w) \/ Post(w)
  \/ SettleTurn \/ CloseElsewhere
  \/ \E r \in filing.posted : File(r)

-----------------------------------------------------------------------------
(* The harness.                                                            *)
During(step) == harness.step = step

Stopped(h, status) == [h EXCEPT !.step = "closing", !.status = status]

(* An exception of the try block.                                          *)
Fails == harness' = Stopped(harness, "incomplete")

(* save(), which may fail with nothing, half or all of it written.         *)
SaveAnd(next) ==
  \/ harness' = next /\ result' = "running"
  \/ /\ harness' = Stopped(next, "incomplete")
     /\ result' \in {result, "torn", "running"}

(* --execute, and a guard that is configured for the run of the plan.      *)
Launch ==
  /\ harness.step \in {"off", "dead", "done"} /\ starts < MaxStarts
  /\ starts' = starts + 1
  /\ harness' = [NotRunning EXCEPT !.step = "status"]
  /\ result' = "none"
  /\ UNCHANGED <<admission, crew, filing>>

RequireOpen(initial) == admission.open /\ admission.denials = initial

Unused ==
  admission.serving = Nobody /\ \A w \in Staff : admission.served[w] = 0

(* The first look at the guard fixes the denials there were.               *)
ReadStatus ==
  /\ During("status")
  /\ IF RequireOpen(admission.denials) /\ Unused
     THEN harness' = [harness EXCEPT !.step = "before", !.initial = admission.denials]
     ELSE Fails
  /\ UNCHANGED <<admission, crew, filing, result, starts>>

(* Nothing of the run is at the gateway; the output directory is made.     *)
ReadBefore ==
  /\ During("before")
  /\ IF filing.filed = {}
     THEN SaveAnd([harness EXCEPT !.step = "workers", !.owns = TRUE])
     ELSE Fails /\ UNCHANGED result
  /\ UNCHANGED <<admission, crew, filing, starts>>

ReadWorkers ==
  /\ During("workers")
  /\ IF crew.awake = Staff THEN harness' = [harness EXCEPT !.step = "open"]
                           ELSE Fails
  /\ UNCHANGED <<admission, crew, filing, result, starts>>

(* The guard is looked at, and at each poll again; its status is of the    *)
(* time before the next call.                                              *)
LookThen(step, next) ==
  /\ During(step)
  /\ IF RequireOpen(harness.initial)
     THEN harness' = [harness EXCEPT !.step = next]
     ELSE Fails
  /\ UNCHANGED <<admission, crew, filing, result, starts>>

(* The task goes to the Worker's room under a new transaction id, once;    *)
(* its answer may be lost.                                                 *)
SendTask ==
  /\ During("send")
  /\ crew' = [crew EXCEPT !.asked = @ \cup {harness.stage}]
  /\ SaveAnd([harness EXCEPT !.step = "poll"])
  /\ UNCHANGED <<admission, filing, starts>>

NewReports == filing.filed \ harness.seen

SeeReports ==
  /\ During("list")
  /\ IF NewReports = {} THEN harness' = [harness EXCEPT !.step = "poll"]
     ELSE IF Cardinality(NewReports) # 1 THEN Fails
     ELSE harness' = [harness EXCEPT !.step = "attest", !.seen = @ \cup NewReports]
  /\ UNCHANGED <<admission, crew, filing, result, starts>>

(* The report is taken for the role's if the role has spent a request.     *)
Attest ==
  /\ During("attest")
  /\ IF RequireOpen(harness.initial) /\ admission.served[harness.stage] > 0
     THEN harness' = [harness EXCEPT !.step = "sleep"]
     ELSE Fails
  /\ UNCHANGED <<admission, crew, filing, result, starts>>

SleepWorker ==
  /\ During("sleep")
  /\ crew' = [crew EXCEPT !.awake = @ \ {harness.stage}]
  /\ harness' = [harness EXCEPT !.step = "drain"] \/ Fails
  /\ UNCHANGED <<admission, filing, result, starts>>

Onward ==
  IF harness.stage = LastStage THEN Stopped(harness, Success)
  ELSE [harness EXCEPT !.step = "open", !.stage = @ + 1]

(* Mutant: the Worker sleeps, so nothing can be in flight.                 *)
DrainUnseen ==
  /\ During("drain")
  /\ IF RequireOpen(harness.initial) THEN SaveAnd(Onward)
     ELSE Fails /\ UNCHANGED result
  /\ UNCHANGED <<admission, crew, filing, starts>>

(* The next role waits until the request of this one has been settled.     *)
Drain ==
  /\ During("drain")
  /\ \/ /\ ~RequireOpen(harness.initial)
        /\ Fails /\ UNCHANGED result
     \/ /\ RequireOpen(harness.initial) /\ admission.serving = Nobody
        /\ SaveAnd(Onward)
  /\ UNCHANGED <<admission, crew, filing, starts>>

Trying == {"status", "before", "workers", "open", "send", "poll", "list",
           "attest", "sleep", "drain"}

(* A call that fails, a stage whose time is over, an interrupt.            *)
GiveUp ==
  /\ harness.step \in Trying
  /\ \E status \in {"incomplete", "interrupted"} :
       harness' = Stopped(harness, status)
  /\ UNCHANGED <<admission, crew, filing, result, starts>>

-----------------------------------------------------------------------------
(* finally                                                                 *)

CloseGuard ==
  /\ During("closing")
  /\ \E reached, answered \in BOOLEAN :
       /\ admission' = [admission EXCEPT !.open = @ /\ ~reached]
       /\ harness' = [harness EXCEPT !.step = "sleeping",
                                     !.clean = reached /\ answered]
  /\ UNCHANGED <<crew, filing, result, starts>>

(* One Worker after the other, whatever became of the one before.          *)
SleepEach ==
  /\ During("sleeping") /\ harness.left # {}
  /\ LET w == CHOOSE v \in harness.left : \A u \in harness.left : v <= u IN
     \E asleep, answered \in BOOLEAN :
       /\ crew' = IF asleep THEN [crew EXCEPT !.awake = @ \ {w}] ELSE crew
       /\ harness' = [harness EXCEPT !.left = @ \ {w},
                                     !.clean = @ /\ asleep /\ answered]
  /\ UNCHANGED <<admission, filing, result, starts>>

FinalStatus(h) == IF h.clean THEN h.status ELSE "incomplete_cleanup_failed"

(* Without an output directory of its own it leaves no record.             *)
Conclude ==
  LET ended == [harness EXCEPT !.step = "done", !.status = FinalStatus(harness)]
  IN
  /\ During("sleeping") /\ harness.left = {}
  /\ \/ /\ harness' = ended
        /\ result' = IF harness.owns THEN ended.status ELSE result
     \/ /\ harness.owns
        /\ harness' = [ended EXCEPT !.status = "incomplete_persistence_failed"]
        /\ result' \in {result, "torn", ended.status}
  /\ UNCHANGED <<admission, crew, filing, starts>>

(* Killed: nothing is closed and nobody sent to sleep.                     *)
Killed ==
  /\ harness.step \in Trying \cup {"closing", "sleeping"}
  /\ harness' = [harness EXCEPT !.step = "dead"]
  /\ UNCHANGED <<admission, crew, filing, result, starts>>

SerialStep ==
  \/ World
  \/ Launch \/ ReadStatus \/ ReadBefore \/ ReadWorkers
  \/ LookThen("open", "send") \/ SendTask
  \/ LookThen("poll", "list") \/ SeeReports \/ Attest
  \/ SleepWorker \/ Drain \/ GiveUp
  \/ CloseGuard \/ SleepEach \/ Conclude \/ Killed

-----------------------------------------------------------------------------
(* A Worker that may still act on its task never meets a request of        *)
(* another role in flight: the guard refuses no role for another's sake,   *)
(* however late requests are settled and whatever became of the harness    *)
(* that asked before (lines 96 and 174-185).                               *)
OneRoleAtATime ==
  \A w \in crew.asked \cap crew.awake : admission.serving \in {w, Nobody}

(* A harness that has ended and does not report a failed cleanup or record *)
(* leaves the guard closed and every Worker asleep.  One that reports its  *)
(* success, on its disk too, leaves no request in flight, refused none,    *)
(* and has seen as many reports as there are roles, each role having spent *)
(* of the budget.                                                          *)
EndsClosed ==
  LET closed == ~admission.open /\ crew.awake = {}
      ended == During("done")
  IN
  /\ ended => \/ harness.status \in {"incomplete_cleanup_failed",
                                     "incomplete_persistence_failed"}
              \/ closed
  /\ result = Success \/ (ended /\ harness.status = Success) =>
       /\ closed /\ admission.serving = Nobody
       /\ admission.denials = harness.initial
       /\ Cardinality(harness.seen) = LastStage
       /\ \A w \in Staff : admission.served[w] > 0

(* The roles spend the budget one at a time, and the harness never leaves  *)
(* it open, or a Worker awake, without saying so.                          *)
HarnessEndsSafely == OneRoleAtATime /\ EndsClosed
=============================================================================
