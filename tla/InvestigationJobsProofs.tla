----------------------- MODULE InvestigationJobsProofs ----------------------
(***************************************************************************)
(* Theorems about the investigation queue and its two backends, for every  *)
(* set of jobs and dispatchers, every number of workers and every bound on *)
(* rooms, rebuilds and faults.                                             *)
(*                                                                         *)
(* The argument in short: the dispatcher that holds the lease works on the *)
(* checkpoint that is stored, every other one on a checkpoint the stored   *)
(* one has gone on from.  So only the holder's step is written, and what   *)
(* the others do outside was done, or would be done, by the stored job.    *)
(***************************************************************************)
EXTENDS InvestigationJobs, FiniteSetTheorems, TLAPS

-----------------------------------------------------------------------------
(* Types.                                                                  *)
Workers == 1..Len(Roles)

NativeCheckpoints ==
  [backend : {"native"}, room : 0..MaxRooms, project : BOOLEAN,
   sent : BOOLEAN, restarts : 0..MaxRestarts]

(* After the last worker the stage is one more than there are workers.     *)
RelayCheckpoints ==
  [backend : {"matrix"}, stage : 1..(Len(Roles) + 1), cursor : Nat,
   sent : BOOLEAN, credential : Nat]

Checkpoints == {Nothing} \cup NativeCheckpoints \cup RelayCheckpoints

JobRecords ==
  [status : Stored \cup {"absent"}, cp : Checkpoints, report : BOOLEAN]

TickRecords ==
  [at : {"down", "idle", "reading", "advancing", "writing"},
   job : Jobs \cup {NoJob}, cp : Checkpoints, status : Stored, report : BOOLEAN]

TeamRecords ==
  [rooms : 0..MaxRooms, lost : Nat, assigned : SUBSET [room : Nat, bearer : Bearers],
   project : {"none", "active", "paused", "completed"},
   nodes : {"open", "accepted"}, report : {"none", "listed", "valid"},
   proved : BOOLEAN]

Events == [kind : {"request", "report", "invalid"}, credential : Nat]

Records ==
  /\ job \in [Jobs -> JobRecords]
  /\ tick \in [Dispatchers -> TickRecords]
  /\ lease \in [owner : Dispatchers \cup {Nobody}, runs : BOOLEAN]
  /\ team \in [Jobs -> TeamRecords]
  /\ log \in [Jobs -> [Workers -> Seq(Events)]]
  /\ setting \in [Dispatchers -> Settings]

-----------------------------------------------------------------------------
(* The inductive invariant.  First, what a tick has is of a job.           *)
Busy(d) == tick[d].at \in {"advancing", "writing"}

TicksHaveJobs ==
  \A d \in Dispatchers : Busy(d) =>
    /\ tick[d].job \in Jobs
    /\ job[tick[d].job].status # "absent"
    /\ tick[d].at = "advancing" => tick[d].status \notin Terminal
    /\ tick[d].at = "writing" => tick[d].report = (tick[d].status = "completed")

(* A dispatcher that holds the lease has what is stored, or what goes on   *)
(* from it.                                                                *)
HolderUpToDate ==
  \A d \in Dispatchers : Holds(d) =>
    /\ tick[d].at = "advancing" => tick[d].cp = job[tick[d].job].cp
    /\ tick[d].at = "writing" => GoesOnFrom(job[tick[d].job].cp, tick[d].cp)

(* No dispatcher works on a checkpoint the stored one did not go on from.  *)
CopyNotAhead ==
  \A d \in Dispatchers :
    tick[d].at = "advancing" => GoesOnFrom(tick[d].cp, job[tick[d].job].cp)

-----------------------------------------------------------------------------
(* What any checkpoint of a job, stored or in a tick, says of the outside. *)
Reported(j, r) == \E i \in 1..Len(log[j][r]) : log[j][r][i].kind = "report"

OfNativeJob(j, cp) ==
  cp.backend = "native" =>
    /\ cp.room <= team[j].rooms
    /\ cp.project /\ ~cp.sent => cp.room # 0

OfRelayJob(j, cp) ==
  cp.backend = "matrix" =>
    /\ \A r \in Workers : r < cp.stage => Reported(j, r)
    /\ cp.stage \in Workers => cp.cursor <= Len(log[j][cp.stage]) + 1
    /\ cp.cursor # 0 => cp.credential # 0
    /\ cp.sent => cp.cursor # 0

(* A job that goes on has a worker it is at.                               *)
AtWorker(status, cp) ==
  (cp.backend = "matrix" /\ status # "completed") => cp.stage \in Workers

Grounded(j, cp, status) ==
  OfNativeJob(j, cp) /\ OfRelayJob(j, cp) /\ AtWorker(status, cp)

CheckpointsGrounded ==
  /\ \A j \in Jobs : Grounded(j, job[j].cp, job[j].status)
  /\ \A d \in Dispatchers :
       Busy(d) => Grounded(tick[d].job, tick[d].cp, tick[d].status)

(* What completes a job.                                                   *)
Backed(j, cp) ==
  /\ j \notin Tampered
  /\ cp.backend = "native" => team[j].proved
  /\ cp.backend = "matrix" => \A r \in Workers : Reported(j, r)

CompletionsBacked ==
  /\ \A j \in Jobs : team[j].report = "valid" => team[j].proved
  /\ \A j \in Jobs : job[j].status = "completed" => job[j].report /\ Backed(j, job[j].cp)
  /\ \A d \in Dispatchers :
       (tick[d].at = "writing" /\ tick[d].status = "completed") =>
          Backed(tick[d].job, tick[d].cp)

-----------------------------------------------------------------------------
(* The workers.  The copies of a job that are bound to a credential are    *)
(* bound to the same, and a request was made under that one, for a worker  *)
(* whose cursor was set before.  The stored checkpoint says so as long as  *)
(* it is one of this backend.                                              *)
BoundCopy(d, j) ==
  /\ tick[d].at = "advancing"
  /\ tick[d].job = j
  /\ tick[d].cp.backend = "matrix"
  /\ tick[d].cp.credential # 0

CopiesBound ==
  \A j \in Jobs : \A d, e \in Dispatchers :
    BoundCopy(d, j) /\ BoundCopy(e, j) => tick[d].cp.credential = tick[e].cp.credential

(* What the checkpoint cp says of a request to worker r.                   *)
AskedUnder(cp, r, request) ==
  /\ cp # Nothing
  /\ cp.backend = "matrix" =>
       /\ request.credential = cp.credential
       /\ cp.credential # 0
       /\ cp.stage >= r
       /\ cp.stage = r => cp.cursor # 0

RequestsBound ==
  \A j \in Jobs : \A r \in Workers : \A i \in Asked(j, r) :
    /\ AskedUnder(job[j].cp, r, log[j][r][i])
    /\ \A d \in Dispatchers :
         BoundCopy(d, j) => log[j][r][i].credential = tick[d].cp.credential

RequestsOnce ==
  \A j \in Jobs : \A r \in Workers : \A i, k \in Asked(j, r) : i = k

AnswersAsked ==
  \A j \in Jobs : \A r \in Workers : Answered(j, r) # {} => Asked(j, r) # {}

NotSkipped(j, cp) ==
  (cp.backend = "matrix" /\ cp.cursor # 0 /\ cp.stage \in Workers) =>
    \A i \in Answered(j, cp.stage) : i >= cp.cursor

NothingSkipped ==
  /\ \A j \in Jobs : NotSkipped(j, job[j].cp)
  /\ \A d \in Dispatchers :
       (Holds(d) /\ tick[d].at = "writing") => NotSkipped(tick[d].job, tick[d].cp)

-----------------------------------------------------------------------------
(* The team.  The rooms of a job's attempts: one for each attempt that     *)
(* has come to have a room, and the team is asked in these only.           *)
HasRoom(cp) == cp.backend = "native" /\ cp.room # 0

RoomsOfAttempts(j, rooms) ==
  /\ HasRoom(job[j].cp) => rooms[job[j].cp.restarts] = job[j].cp.room
  /\ \A d \in Dispatchers :
       (tick[d].at = "advancing" /\ tick[d].job = j /\ HasRoom(tick[d].cp)) =>
          rooms[tick[d].cp.restarts] = tick[d].cp.room
  /\ \A a \in team[j].assigned :
       /\ job[j].cp.backend = "native"
       /\ \E k \in 0..job[j].cp.restarts :
            /\ rooms[k] = a.room
            /\ k = job[j].cp.restarts => HasRoom(job[j].cp)

OneRoomPerAttempt ==
  \A j \in Jobs : \E rooms \in [0..MaxRestarts -> Nat] : RoomsOfAttempts(j, rooms)

(* The rest of the types: the queue holds the jobs there are, a team works *)
(* in rooms that were made, and only a job there is can be canceled.       *)
QueueTyped ==
  /\ queue \in Seq(Jobs)
  /\ ToSet(queue) = {j \in Jobs : job[j].status # "absent"}
  /\ cancelling \in [Jobs -> {"no", "pausing", "writing"}]
  /\ \A j \in Jobs : cancelling[j] # "no" => job[j].status # "absent"
  /\ budget \in BOOLEAN
  /\ faults \in 0..MaxFaults

TeamsTyped ==
  \A j \in Jobs :
    /\ team[j].lost \in 0..team[j].rooms
    /\ \A a \in team[j].assigned : a.room \in 1..team[j].rooms

IInv ==
  /\ Records
  /\ QueueTyped
  /\ TeamsTyped
  /\ TicksHaveJobs
  /\ HolderUpToDate
  /\ CopyNotAhead
  /\ CheckpointsGrounded
  /\ CompletionsBacked
  /\ CopiesBound
  /\ RequestsBound
  /\ RequestsOnce
  /\ AnswersAsked
  /\ NothingSkipped
  /\ OneRoomPerAttempt

-----------------------------------------------------------------------------
(* Checkpoints.                                                            *)

(* The three kinds of checkpoint are told apart by their backend.          *)
LEMMA CheckpointKinds ==
  ASSUME NEW cp \in Checkpoints
  PROVE  /\ cp.backend \in {"none", "native", "matrix"}
         /\ cp.backend = "none"   => cp = Nothing
         /\ cp.backend = "native" => cp \in NativeCheckpoints
         /\ cp.backend = "matrix" => cp \in RelayCheckpoints
         /\ cp = Nothing          => cp.backend = "none"
<1> QED
  BY DEF Checkpoints, NativeCheckpoints, RelayCheckpoints, Nothing

(* A checkpoint goes on from itself.                                       *)
LEMMA GoesOnReflexive ==
  ASSUME NEW cp \in Checkpoints
  PROVE  GoesOnFrom(cp, cp)
<1>1. CASE cp = Nothing
  BY <1>1 DEF GoesOnFrom
<1>2. CASE cp \in NativeCheckpoints
  BY <1>2 DEF GoesOnFrom, NativeCheckpoints
<1>3. CASE cp \in RelayCheckpoints
  BY <1>3 DEF GoesOnFrom, RelayCheckpoints
<1> QED
  BY <1>1, <1>2, <1>3 DEF Checkpoints

(* What goes on from what goes on from a checkpoint goes on from it.       *)
LEMMA GoesOnTransitive ==
  ASSUME NEW a \in Checkpoints, NEW b \in Checkpoints, NEW c \in Checkpoints,
         GoesOnFrom(a, b), GoesOnFrom(b, c)
  PROVE  GoesOnFrom(a, c)
<1>1. CASE a = Nothing
  BY <1>1 DEF GoesOnFrom
<1>2. CASE a # Nothing /\ a.backend = "native"
  <2>1. /\ a \in NativeCheckpoints
        /\ b.backend = "native"
    BY <1>2, CheckpointKinds DEF GoesOnFrom
  <2>2. /\ b \in NativeCheckpoints /\ b # Nothing
        /\ c.backend = "native"
    BY <2>1, CheckpointKinds DEF GoesOnFrom, Nothing
  <2>3. c \in NativeCheckpoints
    BY <2>2, CheckpointKinds
  <2> QED
    BY <1>2, <2>1, <2>2, <2>3 DEF GoesOnFrom, NativeCheckpoints
<1>3. CASE a # Nothing /\ a.backend = "matrix"
  <2>1. a \in RelayCheckpoints /\ b.backend \in {"native", "matrix"}
    BY <1>3, CheckpointKinds DEF GoesOnFrom
  <2>2. CASE b.backend = "native"
    <3>1. b \in NativeCheckpoints /\ b # Nothing /\ c.backend = "native"
      BY <2>2, CheckpointKinds DEF GoesOnFrom, Nothing
    <3>2. c \in NativeCheckpoints
      BY <3>1, CheckpointKinds
    <3>3. a.stage = 1 /\ (b.restarts > 0 \/ (a.sent => b.sent))
      BY <1>3, <2>2 DEF GoesOnFrom
    <3>4. c.restarts > b.restarts \/ (c.restarts = b.restarts /\ (b.sent => c.sent))
      BY <3>1, <2>2 DEF GoesOnFrom
    <3>5. b.restarts \in Nat /\ c.restarts \in Nat
      BY <3>1, <3>2, NativeAssumption DEF NativeCheckpoints
    <3>6. c.restarts > 0 \/ (a.sent => c.sent)
      BY <3>3, <3>4, <3>5
    <3> QED
      BY <1>3, <3>1, <3>3, <3>6 DEF GoesOnFrom
  <2>3. CASE b.backend = "matrix"
    <3>1. /\ b \in RelayCheckpoints /\ b # Nothing
          /\ c.backend \in {"native", "matrix"}
      BY <2>3, CheckpointKinds DEF GoesOnFrom, Nothing
    <3>2. CASE c.backend = "native"
      <4>1. b.stage = 1 /\ (c.restarts > 0 \/ (b.sent => c.sent))
        BY <2>3, <3>1, <3>2 DEF GoesOnFrom
      <4>2. a.stage = 1 /\ (a.sent => b.sent)
        BY <4>1, <1>3, <2>1, <2>3, <3>1, RelayAssumption DEF GoesOnFrom, RelayCheckpoints
      <4> QED
        BY <4>1, <4>2, <1>3, <3>2 DEF GoesOnFrom
    <3>3. CASE c.backend = "matrix"
      <4>1. c \in RelayCheckpoints
        BY <3>3, CheckpointKinds
      <4> QED
        BY <1>3, <2>1, <2>3, <3>1, <3>3, <4>1 DEF GoesOnFrom, RelayCheckpoints
    <3> QED
      BY <3>1, <3>2, <3>3
  <2> QED
    BY <2>1, <2>2, <2>3
<1> QED
  BY <1>1, <1>2, <1>3, CheckpointKinds

-----------------------------------------------------------------------------
(* What a backend's step makes of the copy it is given: it goes on from    *)
(* it, and nothing but the tick changes of the queue.                      *)
Results == {"running", "waiting_backend", "failed", "completed"}

Advances(d, status, cp) ==
  /\ tick[d].at = "advancing"
  /\ Return(d, status, cp)
  /\ status \in Results
  /\ cp \in Checkpoints
  /\ GoesOnFrom(tick[d].cp, cp)
  /\ UNCHANGED <<job, queue, lease, cancelling, budget>>

(* Such a result is grounded, and a completed one backed, in what is       *)
(* outside after the step.                                                 *)
StepReturns(d, j) ==
  \E status \in Results, cp \in Checkpoints :
    /\ Advances(d, status, cp)
    /\ Grounded(j, cp, status)'
    /\ status = "completed" => Backed(j, cp)'

(* What a tick works on when it is about to call a backend.                *)
LEMMA AdvancingCopy ==
  ASSUME Records, TicksHaveJobs, CheckpointsGrounded,
         NEW d \in Dispatchers, tick[d].at = "advancing"
  PROVE  /\ tick[d].job \in Jobs
         /\ tick[d].cp \in Checkpoints
         /\ Grounded(tick[d].job, tick[d].cp, "running")
         /\ team[tick[d].job] \in TeamRecords
         /\ log[tick[d].job] \in [Workers -> Seq(Events)]
<1>1. tick[d].job \in Jobs /\ tick[d].status \notin Terminal /\ Busy(d)
  BY DEF TicksHaveJobs, Busy
<1>2. tick[d].cp \in Checkpoints
  BY DEF Records, TickRecords
<1>3. Grounded(tick[d].job, tick[d].cp, "running")
  BY <1>1 DEF CheckpointsGrounded, Grounded, AtWorker, Terminal
<1> QED
  BY <1>1, <1>2, <1>3 DEF Records

(* The queue's own steps return the copy as it was.                        *)
LEMMA RefusalReturns ==
  ASSUME Records, TicksHaveJobs, CheckpointsGrounded,
         NEW d \in Dispatchers, NEW j, j = tick[d].job,
         RefuseTampered(d) \/ AwaitBudget(d), OfQueue
  PROVE  StepReturns(d, j)
<1>1. tick[d].at = "advancing"
  BY DEF RefuseTampered, AwaitBudget
<1>2. /\ tick[d].cp \in Checkpoints
      /\ Grounded(j, tick[d].cp, "running")
      /\ GoesOnFrom(tick[d].cp, tick[d].cp)
  BY <1>1, AdvancingCopy, GoesOnReflexive
<1> DEFINE status == IF j \in Tampered THEN "failed" ELSE "waiting_backend"
<1>3. Advances(d, status, tick[d].cp) /\ status \in Results
  BY <1>1, <1>2 DEF Advances, Results, RefuseTampered, AwaitBudget
<1>4. \A cp \in Checkpoints : Grounded(j, cp, "running") => Grounded(j, cp, status)'
  BY DEF Grounded, OfNativeJob, OfRelayJob, AtWorker, Reported, OfQueue
<1> QED
  BY <1>2, <1>3, <1>4 DEF StepReturns

(* The native backend starts from the copy, or anew; of a job of the older *)
(* backend it keeps the receipt.                                           *)
LEMMA BegunCopy ==
  ASSUME NEW cp \in Checkpoints, cp.backend = "matrix" => cp.stage = 1
  PROVE  /\ Begun(cp) \in NativeCheckpoints
         /\ GoesOnFrom(cp, Begun(cp))
         /\ cp.backend = "native" => Begun(cp) = cp
         /\ cp.backend # "native" => Begun(cp).room = 0 /\ ~Begun(cp).project
<1>1. CASE cp.backend = "none"
  <2>1. cp = Nothing
    BY <1>1, CheckpointKinds
  <2>2. Begun(cp) = NativeStart
    BY <1>1 DEF Begun
  <2>3. NativeStart \in NativeCheckpoints /\ NativeStart.room = 0 /\ ~NativeStart.project
    BY NativeAssumption DEF NativeStart, NativeCheckpoints
  <2>4. GoesOnFrom(cp, Begun(cp))
    BY <2>1 DEF GoesOnFrom
  <2> QED
    BY <1>1, <2>2, <2>3, <2>4
<1>2. CASE cp.backend = "native"
  <2>1. cp \in NativeCheckpoints /\ Begun(cp) = cp
    BY <1>2, CheckpointKinds DEF Begun
  <2> QED
    BY <1>2, <2>1, GoesOnReflexive
<1>3. CASE cp.backend = "matrix"
  <2> PICK receipt : receipt = cp.sent
    OBVIOUS
  <2>1. receipt \in BOOLEAN /\ cp.stage = 1
    BY <1>3, CheckpointKinds DEF RelayCheckpoints
  <2>2. Begun(cp) = [backend |-> "native", room |-> 0, project |-> FALSE,
                     sent |-> receipt, restarts |-> 0]
    BY <1>3 DEF Begun, NativeStart
  <2>3. Begun(cp) \in NativeCheckpoints
    BY <2>1, <2>2, NativeAssumption DEF NativeCheckpoints
  <2>4. /\ Begun(cp).backend = "native"
        /\ Begun(cp).room = 0
        /\ ~Begun(cp).project
        /\ Begun(cp).sent = cp.sent
    BY <2>2
  <2> QED
    BY <1>3, <2>1, <2>3, <2>4 DEF GoesOnFrom
<1> QED
  BY <1>1, <1>2, <1>3, CheckpointKinds

(* A rebuilt checkpoint goes on from the one it replaces.                  *)
LEMMA NativeRestarts ==
  ASSUME NEW cp \in NativeCheckpoints, cp.restarts < MaxRestarts,
         NEW next, next = [NativeStart EXCEPT !.restarts = cp.restarts + 1]
  PROVE  /\ next \in NativeCheckpoints
         /\ next.backend = "native"
         /\ next.room = 0
         /\ ~next.project
         /\ GoesOnFrom(cp, next)
<1>1. next = [backend |-> "native", room |-> 0, project |-> FALSE,
              sent |-> FALSE, restarts |-> cp.restarts + 1]
  BY DEF NativeStart
<1>2. /\ cp.restarts + 1 \in 0..MaxRestarts
      /\ cp.restarts \in Nat
      /\ 0 \in 0..MaxRooms
      /\ cp.backend = "native"
  BY NativeAssumption DEF NativeCheckpoints
<1>3. next \in NativeCheckpoints
  <2>1. [backend |-> "native", room |-> 0, project |-> FALSE, sent |-> FALSE,
         restarts |-> cp.restarts + 1] \in NativeCheckpoints
    BY <1>2 DEF NativeCheckpoints
  <2> QED
    BY <1>1, <2>1
<1>4. next.restarts = cp.restarts + 1 /\ next.backend = "native"
  BY <1>1
<1>5. GoesOnFrom(cp, next)
  BY <1>2, <1>4 DEF GoesOnFrom
<1>6. next.room = 0 /\ ~next.project
  BY <1>1
<1> QED
  BY <1>3, <1>4, <1>5, <1>6

(* The record of a team after its project, and its room, were made.        *)
LEMMA MadeRecords ==
  ASSUME NEW t \in TeamRecords, NEW room \in 0..MaxRooms
  PROVE  /\ Created(t) \in TeamRecords
         /\ Created(t).rooms = t.rooms
         /\ WithRoom(t, room) \in TeamRecords
         /\ WithRoom(t, room).rooms = IF room > t.rooms THEN room ELSE t.rooms
         /\ WithRoom(Created(t), room) \in TeamRecords
         /\ WithRoom(Created(t), room).rooms = IF room > t.rooms THEN room ELSE t.rooms
         /\ Created(WithRoom(t, room)) \in TeamRecords
         /\ Created(WithRoom(t, room)).rooms = IF room > t.rooms THEN room ELSE t.rooms
<1>1. ASSUME NEW u \in TeamRecords
      PROVE  Created(u) \in TeamRecords /\ Created(u).rooms = u.rooms
  BY <1>1 DEF Created, TeamRecords
<1>2. ASSUME NEW u \in TeamRecords
      PROVE  /\ WithRoom(u, room) \in TeamRecords
             /\ WithRoom(u, room).rooms = IF room > u.rooms THEN room ELSE u.rooms
  BY <1>2, NativeAssumption DEF WithRoom, TeamRecords
<1> QED
  BY <1>1, <1>2

(* The checkpoint that was returned is the one of the tick.                *)
LEMMA ReturnedCheckpoint ==
  ASSUME tick \in [Dispatchers -> TickRecords], NEW d \in Dispatchers,
         NEW status, NEW cp, Return(d, status, cp)
  PROVE  tick'[d].cp = cp
<1> QED
  BY DEF Return, TickRecords

(* A job of the older backend comes to this one before its first worker    *)
(* has answered.                                                           *)
LEMMA ChosenNative ==
  ASSUME NEW d \in Dispatchers, tick[d].cp \in Checkpoints, Chosen(d, "native")
  PROVE  tick[d].cp.backend = "matrix" => tick[d].cp.stage = 1
<1>1. SUFFICES ASSUME tick[d].cp.backend = "matrix"
               PROVE  tick[d].cp.stage = 1
  OBVIOUS
<1>2. tick[d].cp \in RelayCheckpoints /\ ~(tick[d].cp.stage > 1)
  BY <1>1, CheckpointKinds DEF Chosen, Settled
<1> QED
  BY <1>2, RelayAssumption DEF RelayCheckpoints

(* The steps of the native backend.                                        *)
LEMMA NativeReturns ==
  ASSUME Records, TicksHaveJobs, CheckpointsGrounded, CompletionsBacked,
         NEW d \in Dispatchers, NEW j, j = tick[d].job,
         Chosen(d, "native"), NativeStep(d), OfNative
  PROVE  /\ StepReturns(d, j)
         /\ tick'[d].cp.backend # "matrix" \/ tick'[d].cp = tick[d].cp
<1> PICK old : old = tick[d].cp
  OBVIOUS
<1> PICK new : new = Begun(old)
  OBVIOUS
<1>1. /\ tick[d].at = "advancing"
      /\ j \notin Tampered
      /\ StepUnchanged
  BY DEF NativeStep, CreateProject, CreateFails, NeedsProject, Assign, AssignFails,
         AssignNowhere, NeedsAssignment, Observe, Observing, NativeUnavailable,
         Native, Dispatchable
<1>2. /\ j \in Jobs
      /\ old \in Checkpoints
      /\ OfNativeJob(j, old)
      /\ OfRelayJob(j, old)
      /\ AtWorker("running", old)
      /\ team[j] \in TeamRecords
      /\ team \in [Jobs -> TeamRecords]
  BY <1>1, AdvancingCopy DEF Grounded, Records
<1>3. /\ new \in NativeCheckpoints
      /\ new \in Checkpoints
      /\ GoesOnFrom(old, new)
      /\ OfNativeJob(j, new)
  BY <1>2, ChosenNative, BegunCopy, NativeAssumption DEF Checkpoints, OfNativeJob, TeamRecords
(* A result of this backend is grounded in the team alone.                 *)
<1>4. ASSUME NEW status \in Results, NEW cp \in Checkpoints,
             Return(d, status, cp), GoesOnFrom(old, cp),
             cp.backend \in {"none", "native"}, OfNativeJob(j, cp)',
             status = "completed" => Backed(j, cp)'
      PROVE  StepReturns(d, j) /\ tick'[d].cp.backend # "matrix"
  BY <1>1, <1>4, ReturnedCheckpoint DEF Records, StepReturns, Advances, StepUnchanged, Grounded, OfRelayJob, AtWorker
<1>5. team[j].rooms \in 0..MaxRooms /\ MaxRooms \in Nat \ {0} /\ MaxRestarts \in Nat
  BY <1>2, NativeAssumption DEF TeamRecords
<1>6. CASE CreateProject(d)
  <2> PICK room : room = RoomFor(j, new)
    OBVIOUS
  <2> PICK cp : cp = [new EXCEPT !.room = room, !.project = TRUE]
    OBVIOUS
  <2>1. /\ Return(d, "running", cp)
        /\ room <= MaxRooms
        /\ team' = [team EXCEPT ![j] = WithRoom(Created(@), room)]
    BY <1>6 DEF CreateProject
  <2>2. room \in 0..MaxRooms /\ (room = 0 => new.sent)
    BY <2>1, <1>3, <1>5 DEF RoomFor, NativeCheckpoints
  <2>3. cp \in NativeCheckpoints /\ GoesOnFrom(new, cp) /\ cp.room = room /\ cp.sent = new.sent
    <3>1. new.room \in {0, room}
      BY DEF RoomFor
    <3>2. cp \in NativeCheckpoints
      BY <2>2, <1>3 DEF NativeCheckpoints
    <3> QED
      BY <2>2, <3>1, <3>2, <1>3 DEF NativeCheckpoints, GoesOnFrom
  <2>4. team'[j].rooms = IF room > team[j].rooms THEN room ELSE team[j].rooms
    <3>1. team'[j] = WithRoom(Created(team[j]), room)
      BY <2>1, <1>2
    <3> QED
      BY <3>1, <2>2, <1>2, MadeRecords
  <2>5. OfNativeJob(j, cp)'
    BY <2>2, <2>3, <2>4, <1>5 DEF OfNativeJob
  <2>6. cp \in Checkpoints /\ cp.backend = "native"
    BY <2>3 DEF Checkpoints, NativeCheckpoints
  <2>7. GoesOnFrom(old, cp)
    BY <2>3, <2>6, <1>2, <1>3, GoesOnTransitive
  <2> QED
    BY <2>1, <2>5, <2>6, <2>7, <1>4 DEF Results
<1>7. CASE CreateFails(d)
  <2> PICK room : room = RoomFor(j, new)
    OBVIOUS
  <2>1. PICK cp \in {new, [new EXCEPT !.room = room]} :
          /\ Return(d, "waiting_backend", cp)
          /\ room <= MaxRooms
          /\ ~new.project
          /\ team' \in {[team EXCEPT ![j] = t] : t \in
               {WithRoom(team[j], room), Created(WithRoom(team[j], room))}}
    BY <1>7 DEF CreateFails, NeedsProject
  <2>2. room \in 0..MaxRooms
    BY <2>1, <1>3, <1>5 DEF RoomFor, NativeCheckpoints
  <2>3. /\ cp \in NativeCheckpoints
        /\ GoesOnFrom(new, cp)
        /\ cp.room \in {0, room}
        /\ ~cp.project
    <3>1. new.room \in {0, room}
      BY DEF RoomFor
    <3>2. CASE cp = new
      BY <2>1, <3>1, <3>2, <1>3, GoesOnReflexive
    <3>3. CASE cp = [new EXCEPT !.room = room]
      <4>1. cp \in NativeCheckpoints
        BY <2>2, <3>3, <1>3 DEF NativeCheckpoints
      <4> QED
        BY <2>1, <4>1, <3>1, <3>3, <1>3 DEF NativeCheckpoints, GoesOnFrom
    <3> QED
      BY <2>1, <3>2, <3>3
  <2>4. team'[j].rooms = IF room > team[j].rooms THEN room ELSE team[j].rooms
    <3>1. PICK t \in {WithRoom(team[j], room), Created(WithRoom(team[j], room))} :
            team' = [team EXCEPT ![j] = t]
      BY <2>1
    <3>2. team'[j] = t
      BY <3>1, <1>2
    <3> QED
      BY <3>1, <3>2, <2>2, <1>2, MadeRecords
  <2>6. OfNativeJob(j, cp)'
    BY <2>2, <2>3, <2>4, <1>5 DEF OfNativeJob
  <2>7. cp \in Checkpoints /\ cp.backend = "native"
    BY <2>3 DEF Checkpoints, NativeCheckpoints
  <2>8. GoesOnFrom(old, cp)
    BY <2>3, <2>7, <1>2, <1>3, GoesOnTransitive
  <2> QED
    BY <2>1, <2>6, <2>7, <2>8, <1>4 DEF Results
(* The rooms of a job are not fewer afterwards.                            *)
<1>8. ASSUME NEW cp \in Checkpoints, OfNativeJob(j, cp), team'[j].rooms = team[j].rooms
      PROVE  OfNativeJob(j, cp)'
  BY <1>8 DEF OfNativeJob
<1>9. CASE Assign(d) \/ AssignFails(d)
  <2>1. old \in NativeCheckpoints /\ ~old.sent
    BY <1>9, <1>2, CheckpointKinds DEF Assign, AssignFails, NeedsAssignment
  <2>2. team'[j].rooms = team[j].rooms
    <3>1. \E assigned : team' = [team EXCEPT ![j].assigned = assigned]
      BY <1>9 DEF Assign, AssignFails
    <3> QED
      BY <3>1, <1>2 DEF TeamRecords
  <2>3. CASE Assign(d)
    <3> PICK cp : cp = [old EXCEPT !.sent = TRUE]
      OBVIOUS
    <3>1. cp \in NativeCheckpoints /\ GoesOnFrom(old, cp)
      BY <2>1 DEF NativeCheckpoints, GoesOnFrom
    <3>2. OfNativeJob(j, cp)'
      BY <2>1, <2>2, <1>2 DEF OfNativeJob, NativeCheckpoints
    <3>3. Return(d, "running", cp)
      BY <2>3 DEF Assign
    <3>4. cp \in Checkpoints /\ cp.backend = "native"
      BY <3>1 DEF Checkpoints, NativeCheckpoints
    <3> QED
      BY <3>1, <3>2, <3>3, <3>4, <1>4 DEF Results
  <2>4. CASE AssignFails(d)
    <3>1. old.backend = "native" /\ GoesOnFrom(old, old) /\ OfNativeJob(j, old)'
      BY <2>1, <2>2, <1>2, <1>8, GoesOnReflexive DEF NativeCheckpoints
    <3>2. Return(d, "waiting_backend", old)
      BY <2>4 DEF AssignFails
    <3> QED
      BY <3>1, <3>2, <1>2, <1>4 DEF Results
  <2> QED
    BY <1>9, <2>3, <2>4
<1>10. ASSUME old.backend = "native", Rebuild(d), UNCHANGED team
       PROVE  StepReturns(d, j) /\ tick'[d].cp.backend # "matrix"
  <2>1. old \in NativeCheckpoints
    BY <1>10, <1>2, CheckpointKinds
  <2>2. CASE old.restarts < MaxRestarts
    <3> PICK cp : cp = [NativeStart EXCEPT !.restarts = old.restarts + 1]
      OBVIOUS
    <3>1. cp \in NativeCheckpoints /\ GoesOnFrom(old, cp) /\ cp.room = 0 /\ ~cp.project
      BY <2>1, <2>2, NativeRestarts
    <3>2. Return(d, "running", cp)
      BY <2>2, <1>10 DEF Rebuild
    <3>3. OfNativeJob(j, cp)'
      BY <3>1, <1>5, <1>10 DEF OfNativeJob
    <3>4. cp \in Checkpoints /\ cp.backend = "native"
      BY <3>1 DEF Checkpoints, NativeCheckpoints
    <3> QED
      BY <3>1, <3>2, <3>3, <3>4, <1>4 DEF Results
  <2>3. CASE ~(old.restarts < MaxRestarts)
    BY <2>3, <1>1, <1>2, <1>4, <1>8, <1>10, GoesOnReflexive DEF Rebuild, Results
  <2> QED
    BY <2>2, <2>3
<1>11. CASE AssignNowhere(d)
  BY <1>10, <1>11 DEF AssignNowhere, NeedsAssignment
<1>12. CASE Observe(d)
  <2>1. old.backend = "native" /\ team'[j].rooms = team[j].rooms
    <3>1. team' = team \/ team' = [team EXCEPT ![j].project = "completed"]
      BY <1>12 DEF Observe
    <3>2. team'[j].rooms = team[j].rooms
      BY <3>1, <1>2 DEF TeamRecords
    <3>3. old.backend = "native"
      BY <1>12 DEF Observe, Observing
    <3> QED
      BY <3>2, <3>3
  <2>2. CASE Rebuild(d) /\ UNCHANGED team
    BY <2>1, <2>2, <1>10
  <2>3. CASE \E status \in {"running", "failed"} : Return(d, status, old)
    BY <2>1, <2>3, <1>1, <1>2, <1>4, <1>8, GoesOnReflexive DEF Results
  <2>4. CASE /\ team[j].report = "valid"
             /\ Return(d, "completed", old)
             /\ UNCHANGED team
    <3>1. Backed(j, old)'
      BY <2>1, <2>4, <1>1, <1>2 DEF Backed, CompletionsBacked
    <3> QED
      BY <2>1, <2>4, <3>1, <1>1, <1>2, <1>4, <1>8, GoesOnReflexive DEF Results
  <2> QED
    BY <1>12, <1>2, <2>2, <2>3, <2>4 DEF Observe, TeamRecords
<1>13. CASE NativeUnavailable(d)
  <2>1. PICK status \in {"waiting_backend", "failed"}, cp \in {old, new} : Return(d, status, cp)
    BY <1>13 DEF NativeUnavailable
  <2>2. UNCHANGED team
    BY <1>13 DEF NativeUnavailable
  <2>3. CASE cp = new
    BY <2>1, <2>2, <2>3, <1>3, <1>4, <1>8 DEF NativeCheckpoints, Results
(* A copy of the older backend may be returned as it was.                  *)
  <2>4. CASE cp = old
    <3>1. GoesOnFrom(old, old) /\ OfNativeJob(j, old)'
      BY <2>2, <1>2, <1>8, GoesOnReflexive
    <3>2. OfRelayJob(j, old)' /\ AtWorker(status, old)
      BY <2>1, <1>2 DEF OfRelayJob, Reported, AtWorker, OfNative
    <3>3. Advances(d, status, old) /\ status \in Results /\ status # "completed"
      BY <2>1, <2>4, <3>1, <1>1, <1>2 DEF Advances, StepUnchanged, Results
    <3>4. Grounded(j, old, status)'
      BY <3>1, <3>2 DEF Grounded, AtWorker
    <3>5. tick'[d].cp = old
      BY <2>1, <2>4, ReturnedCheckpoint DEF Records
    <3> QED
      BY <3>3, <3>4, <3>5, <1>2 DEF StepReturns
  <2> QED
    BY <2>1, <2>3, <2>4
<1> QED
  BY <1>6, <1>7, <1>9, <1>11, <1>12, <1>13 DEF NativeStep

-----------------------------------------------------------------------------
(* What is outside only grows: rooms and events are added, none goes; a    *)
(* report becomes valid when all tasks are accepted only; and the team is  *)
(* asked by the step that assigns, in the room of its checkpoint.          *)
Assigns(d, j, assigned) ==
  /\ tick[d].at = "advancing"
  /\ tick[d].job = j
  /\ tick[d].cp.backend = "native"
  /\ tick[d].cp.project /\ ~tick[d].cp.sent
  /\ assigned = team[j].assigned \cup {Assignment(d)}

TeamGrows ==
  \A j \in Jobs : /\ team'[j].rooms >= team[j].rooms
                  /\ team[j].proved => team'[j].proved
                  /\ team'[j].report = "valid" =>
                       team'[j].proved \/ team[j].report = "valid"
                  /\ team'[j].lost \in {team[j].lost, team[j].rooms}
                  /\ \/ team'[j].assigned = team[j].assigned
                     \/ \E d \in Dispatchers : Assigns(d, j, team'[j].assigned)

(* An assignment that was not there before was made by a dispatcher, in    *)
(* the room of its copy.                                                   *)
LEMMA NewAssignment ==
  ASSUME TeamGrows, NEW j \in Jobs, NEW a \in team'[j].assigned, a \notin team[j].assigned
  PROVE  \E d \in Dispatchers :
           /\ tick[d].at = "advancing"
           /\ tick[d].job = j
           /\ tick[d].cp.backend = "native"
           /\ tick[d].cp.project /\ ~tick[d].cp.sent
           /\ a.room = tick[d].cp.room
<1>1. PICK d \in Dispatchers : Assigns(d, j, team'[j].assigned)
  BY DEF TeamGrows
<1>2. a = Assignment(d)
  BY <1>1 DEF Assigns
<1>3. Assignment(d).room = tick[d].cp.room
  BY DEF Assignment
<1> QED
  BY <1>1, <1>2, <1>3 DEF Assigns

LogGrows ==
  \A j \in Jobs : \A r \in Workers :
    /\ Len(log'[j][r]) >= Len(log[j][r])
    /\ \A i \in 1..Len(log[j][r]) : log'[j][r][i] = log[j][r][i]

(* One event is added to a worker's room.                                  *)
LEMMA OneMoreEvent ==
  ASSUME log \in [Jobs -> [Workers -> Seq(Events)]],
         NEW j \in Jobs, NEW r \in Workers, NEW e \in Events,
         log' = [log EXCEPT ![j][r] = Append(@, e)]
  PROVE  /\ log' \in [Jobs -> [Workers -> Seq(Events)]]
         /\ LogGrows
         /\ log'[j][r] = Append(log[j][r], e)
         /\ \A k \in Jobs : \A s \in Workers :
              (k # j \/ s # r) => log'[k][s] = log[k][s]
<1>1. log[j] \in [Workers -> Seq(Events)] /\ log[j][r] \in Seq(Events)
  OBVIOUS
<1>2. Append(log[j][r], e) \in Seq(Events)
  BY <1>1
<1>3. log'[j] = [log[j] EXCEPT ![r] = Append(log[j][r], e)]
  BY <1>1
<1>4. log'[j][r] = Append(log[j][r], e)
  BY <1>1, <1>3
<1>5. \A k \in Jobs : \A s \in Workers : (k # j \/ s # r) => log'[k][s] = log[k][s]
  BY <1>1, <1>3
<1>6. log' \in [Jobs -> [Workers -> Seq(Events)]]
  BY <1>1, <1>2, <1>3
<1>7. LogGrows
  <2>1. \A k \in Jobs : \A s \in Workers : Len(log[k][s]) \in Nat
    OBVIOUS
  <2>2. /\ Len(log'[j][r]) = Len(log[j][r]) + 1
        /\ \A i \in 1..Len(log[j][r]) : log'[j][r][i] = log[j][r][i]
    BY <1>1, <1>4
  <2> QED
    BY <2>1, <2>2, <1>5 DEF LogGrows
<1> QED
  BY <1>4, <1>5, <1>6, <1>7

(* Nothing is added.                                                       *)
LEMMA NoMoreEvents ==
  ASSUME log \in [Jobs -> [Workers -> Seq(Events)]], UNCHANGED log
  PROVE  log' \in [Jobs -> [Workers -> Seq(Events)]] /\ LogGrows
<1>1. \A k \in Jobs : \A s \in Workers : Len(log[k][s]) \in Nat
  OBVIOUS
<1> QED
  BY <1>1 DEF LogGrows

(* What holds of a checkpoint goes on to hold when the outside grows.      *)
LEMMA GroundedKept ==
  ASSUME Records, TeamGrows, LogGrows, Records',
         NEW j \in Jobs, NEW cp \in Checkpoints, NEW status
  PROVE  /\ Grounded(j, cp, status) => Grounded(j, cp, status)'
         /\ Backed(j, cp) => Backed(j, cp)'
<1>1. \A r \in Workers : Reported(j, r) => Reported(j, r)'
  <2>1. ASSUME NEW r \in Workers, Reported(j, r)
        PROVE  Reported(j, r)'
    <3>1. PICK i \in 1..Len(log[j][r]) : log[j][r][i].kind = "report"
      BY <2>1 DEF Reported
    <3>2. i \in 1..Len(log'[j][r]) /\ log'[j][r][i] = log[j][r][i]
      <4>1. /\ log[j] \in [Workers -> Seq(Events)]
            /\ log'[j] \in [Workers -> Seq(Events)]
        BY DEF Records
      <4>2. Len(log[j][r]) \in Nat /\ Len(log'[j][r]) \in Nat
        BY <4>1
      <4> QED
        BY <4>2, <3>1 DEF LogGrows
    <3> QED
      BY <3>1, <3>2 DEF Reported
  <2> QED
    BY <2>1
<1>2. team[j] \in TeamRecords /\ team'[j] \in TeamRecords
  BY DEF Records
<1>3. OfNativeJob(j, cp) => OfNativeJob(j, cp)'
  <2>1. SUFFICES ASSUME OfNativeJob(j, cp), cp.backend = "native"
                 PROVE  cp.room <= team'[j].rooms /\ (cp.project /\ ~cp.sent => cp.room # 0)
    BY DEF OfNativeJob
  <2>2. cp.room \in Nat
    BY <2>1, CheckpointKinds, NativeAssumption DEF NativeCheckpoints
  <2>3. team[j].rooms \in Nat /\ team'[j].rooms \in Nat
    BY <1>2, NativeAssumption DEF TeamRecords
  <2> QED
    BY <2>1, <2>2, <2>3 DEF OfNativeJob, TeamGrows
<1>4. OfRelayJob(j, cp) => OfRelayJob(j, cp)'
  <2>1. SUFFICES ASSUME OfRelayJob(j, cp), cp.backend = "matrix",
                        cp.stage \in Workers
                 PROVE  cp.cursor <= Len(log'[j][cp.stage]) + 1
    BY <1>1 DEF OfRelayJob
  <2>2. cp.cursor \in Nat
    BY <2>1, CheckpointKinds DEF RelayCheckpoints
  <2>3. log[j][cp.stage] \in Seq(Events) /\ log'[j][cp.stage] \in Seq(Events)
    BY <2>1 DEF Records
  <2> QED
    BY <2>1, <2>2, <2>3 DEF OfRelayJob, LogGrows
<1>5. Backed(j, cp) => Backed(j, cp)'
  BY <1>1 DEF Backed, TeamGrows
<1> QED
  BY <1>3, <1>4, <1>5 DEF Grounded, AtWorker

(* A dispatcher was started with a credential.                             *)
LEMMA SettingsHaveBearers ==
  ASSUME Records, NEW d \in Dispatchers
  PROVE  setting[d].bearer \in Bearers /\ setting[d].bearer \in Nat \ {0}
<1>1. setting[d] \in Settings
  BY DEF Records
<1> QED
  BY <1>1, QueueAssumption DEF Bearers

(* The room takes a request, or recognises it.                             *)
LEMMA RequestGrows ==
  ASSUME log \in [Jobs -> [Workers -> Seq(Events)]], NEW bearer \in Nat \ {0},
         NEW j \in Jobs, NEW stage \in Workers, Request(j, stage, bearer)
  PROVE  log' \in [Jobs -> [Workers -> Seq(Events)]] /\ LogGrows
<1> DEFINE event == [kind |-> "request", credential |-> bearer]
<1>1. event \in Events
  BY DEF Events
<1>2. CASE log' = log
  BY <1>2, NoMoreEvents
<1>3. CASE log' = [log EXCEPT ![j][stage] = Append(@, event)]
  BY <1>1, <1>3, OneMoreEvent
<1> QED
  BY <1>2, <1>3 DEF Request

(* This backend starts from the copy, or anew, and is at a worker.         *)
LEMMA StartedCopy ==
  ASSUME NEW cp \in Checkpoints, cp.backend \in {"none", "matrix"}, AtWorker("running", cp),
         Records, NEW j \in Jobs, OfRelayJob(j, cp)
  PROVE  /\ Started(cp) \in RelayCheckpoints
         /\ Started(cp) \in Checkpoints
         /\ Started(cp).stage \in Workers
         /\ GoesOnFrom(cp, Started(cp))
         /\ OfRelayJob(j, Started(cp))
         /\ Started(cp).backend = "matrix"
<1>1. CASE cp.backend = "none"
  <2>1. cp = Nothing /\ Started(cp) = RelayStart
    BY <1>1, CheckpointKinds DEF Started
  <2>2. RelayStart \in RelayCheckpoints /\ RelayStart.stage \in Workers
    BY RelayAssumption DEF RelayStart, RelayCheckpoints, Workers
  <2>3. OfRelayJob(j, RelayStart)
    <3>1. Len(log[j][1]) \in Nat /\ 1 \in Workers
      BY RelayAssumption DEF Records, Workers
    <3>2. \A r \in Workers : ~(r < 1)
      BY DEF Workers
    <3> QED
      BY <3>1, <3>2 DEF OfRelayJob, RelayStart
  <2> QED
    BY <2>1, <2>2, <2>3 DEF GoesOnFrom, Checkpoints, RelayStart
<1>2. CASE cp.backend = "matrix"
  <2>1. cp \in RelayCheckpoints /\ cp # Nothing /\ Started(cp) = cp
    BY <1>2, CheckpointKinds DEF Started
  <2> QED
    BY <1>2, <2>1, GoesOnReflexive DEF AtWorker
<1> QED
  BY <1>1, <1>2

(* The steps of the relay.                                                 *)
LEMMA RelayReturns ==
  ASSUME Records, TicksHaveJobs, CheckpointsGrounded,
         NEW d \in Dispatchers, NEW j, j = tick[d].job, RelayStep(d), OfRelay
  PROVE  StepReturns(d, j)
<1> PICK old : old = tick[d].cp
  OBVIOUS
<1> PICK new : new = Started(old)
  OBVIOUS
<1>1. /\ tick[d].at = "advancing"
      /\ j \notin Tampered
      /\ old.backend \in {"none", "matrix"}
      /\ RelayKeeps
  BY DEF RelayStep, CredentialChanged, Prepare, Send, SendFails, Poll, GiveUp,
         Relay, Dispatchable
<1>2. /\ j \in Jobs
      /\ old \in Checkpoints
      /\ OfRelayJob(j, old)
      /\ AtWorker("running", old)
      /\ log \in [Jobs -> [Workers -> Seq(Events)]]
  BY <1>1, AdvancingCopy DEF Grounded, Records
<1> PICK bound : bound = setting[d].bearer
  OBVIOUS
<1>2a. bound \in Nat \ {0}
  BY SettingsHaveBearers
<1>3. /\ new \in RelayCheckpoints
      /\ new \in Checkpoints
      /\ new.stage \in Workers
      /\ new.backend = "matrix"
      /\ GoesOnFrom(old, new)
      /\ OfRelayJob(j, new)
  BY <1>1, <1>2, StartedCopy
<1>4. log[j][new.stage] \in Seq(Events)
  BY <1>2, <1>3
(* A result of this backend is grounded in the workers' rooms alone.       *)
<1>5. ASSUME NEW status \in Results, NEW cp \in Checkpoints,
             Return(d, status, cp), GoesOnFrom(old, cp), cp.backend \in {"none", "matrix"},
             OfRelayJob(j, cp)', AtWorker(status, cp),
             status = "completed" => Backed(j, cp)'
      PROVE  StepReturns(d, j)
  BY <1>1, <1>5 DEF StepReturns, Advances, RelayKeeps, Grounded, OfNativeJob, AtWorker
<1>6. ASSUME NEW status \in Results \ {"completed"}, NEW cp \in {old, new},
             Return(d, status, cp), OfRelayJob(j, cp)'
      PROVE  StepReturns(d, j)
  <2>1. cp.backend \in {"none", "matrix"} /\ cp \in Checkpoints /\ GoesOnFrom(old, cp)
    BY <1>1, <1>2, <1>3, <1>6, GoesOnReflexive
  <2>2. AtWorker(status, cp)
    BY <1>2, <1>3, <1>6 DEF AtWorker
  <2> QED
    BY <1>5, <1>6, <2>1, <2>2
<1>7. ASSUME UNCHANGED log, NEW cp, OfRelayJob(j, cp)
      PROVE  OfRelayJob(j, cp)'
  BY <1>7 DEF OfRelayJob, Reported
<1>8. CASE CredentialChanged(d)
  BY <1>2, <1>3, <1>6, <1>7, <1>8 DEF CredentialChanged, Results
<1>9. CASE GiveUp(d)
  <2>1. UNCHANGED log
    BY <1>9 DEF GiveUp
  <2>2. PICK status \in {"failed", "waiting_backend"}, cp \in Noted(d) : Return(d, status, cp)
    BY <1>9 DEF GiveUp
  <2>3. CASE cp \in {old, new}
    BY <2>1, <2>2, <2>3, <1>2, <1>3, <1>6, <1>7 DEF Results
  <2>4. CASE cp = [new EXCEPT !.credential = bound] /\ Bound(d, new)
    <3>1. cp \in RelayCheckpoints
      BY <2>4, <1>3, <1>2a DEF RelayCheckpoints
    <3>2. /\ cp.stage = new.stage
          /\ cp.cursor = new.cursor
          /\ cp.sent = new.sent
          /\ cp.credential = bound
          /\ cp.backend = "matrix"
          /\ GoesOnFrom(new, cp)
      BY <2>4, <3>1, <1>3 DEF RelayCheckpoints, GoesOnFrom, Bound
    <3>3. OfRelayJob(j, cp)
      BY <3>2, <1>3, <1>2a DEF OfRelayJob
    <3>4. cp \in Checkpoints /\ GoesOnFrom(old, cp)
      BY <3>1, <3>2, <1>2, <1>3, GoesOnTransitive DEF Checkpoints
    <3>5. OfRelayJob(j, cp)' /\ AtWorker(status, cp)
      BY <2>1, <3>2, <3>3, <1>3, <1>7 DEF AtWorker
    <3> QED
      BY <2>2, <3>2, <3>4, <3>5, <1>5 DEF Results
  <2> QED
    BY <2>2, <2>3, <2>4 DEF Noted
<1>10. CASE Prepare(d)
  <2> PICK cursor : cursor = Len(log[j][new.stage]) + 1
    OBVIOUS
  <2> PICK cp : cp = [new EXCEPT !.cursor = cursor, !.credential = bound]
    OBVIOUS
  <2>1. /\ Return(d, "running", cp)
        /\ new.cursor = 0
        /\ new.credential \in {0, bound}
        /\ UNCHANGED log
    BY <1>10 DEF Prepare, Bound
  <2>2. Len(log[j][new.stage]) \in Nat /\ cursor \in Nat /\ bound \in Nat \ {0}
    <3>1. Len(log[j][new.stage]) \in Nat
      BY <1>4
    <3> QED
      BY <3>1, <1>2a
  <2>3. cp \in RelayCheckpoints
    BY <2>2, <1>3 DEF RelayCheckpoints
  <2>4. /\ cp.stage = new.stage
        /\ cp.cursor = Len(log[j][new.stage]) + 1
        /\ cp.credential = bound
        /\ cp.backend = "matrix"
        /\ GoesOnFrom(new, cp)
    BY <2>1, <2>2, <2>3, <1>3 DEF RelayCheckpoints, GoesOnFrom
  <2>5. OfRelayJob(j, cp)
    <3>1. \A r \in Workers : r < cp.stage => Reported(j, r)
      BY <2>4, <1>3 DEF OfRelayJob
    <3>2. cp.cursor <= Len(log[j][cp.stage]) + 1
      BY <2>2, <2>4
    <3>3. cp.cursor # 0 /\ cp.credential # 0
      BY <2>2, <2>4, <1>2
    <3> QED
      BY <3>1, <3>2, <3>3 DEF OfRelayJob
  <2>6. cp \in Checkpoints /\ GoesOnFrom(old, cp)
    BY <2>3, <2>4, <1>2, <1>3, GoesOnTransitive DEF Checkpoints
  <2>7. OfRelayJob(j, cp)' /\ AtWorker("running", cp)
    BY <2>1, <2>4, <2>5, <1>3, <1>7 DEF AtWorker
  <2> QED
    BY <2>1, <2>4, <2>6, <2>7, <1>5 DEF Results
<1>11. CASE Send(d) \/ SendFails(d)
  <2>1. /\ new.cursor # 0
        /\ Request(j, new.stage, bound)
    BY <1>11 DEF Send, SendFails
  <2>2. LogGrows /\ log' \in [Jobs -> [Workers -> Seq(Events)]]
    BY <2>1, <1>2, <1>3, <1>2a, RequestGrows
(* The request makes no report and takes none away.                        *)
  <2>3. ASSUME NEW cp \in RelayCheckpoints, cp.stage = new.stage, cp.cursor = new.cursor,
               cp.credential = new.credential
        PROVE  OfRelayJob(j, cp)'
    <3>1. /\ Len(log[j][new.stage]) \in Nat /\ Len(log'[j][new.stage]) \in Nat
          /\ Len(log'[j][new.stage]) >= Len(log[j][new.stage])
      BY <2>2, <1>2, <1>3 DEF LogGrows
    <3>2. \A r \in Workers : Reported(j, r) => Reported(j, r)'
      <4>1. ASSUME NEW r \in Workers, NEW i \in 1..Len(log[j][r])
            PROVE  i \in 1..Len(log'[j][r]) /\ log'[j][r][i] = log[j][r][i]
        <5>1. log[j][r] \in Seq(Events) /\ log'[j][r] \in Seq(Events)
          BY <2>2, <1>2
        <5> QED
          BY <5>1, <2>2, <1>2 DEF LogGrows
      <4> QED
        BY <4>1 DEF Reported
    <3> QED
      <4>1. \A r \in Workers : r < cp.stage => Reported(j, r)'
        BY <2>3, <3>2, <1>3 DEF OfRelayJob
      <4>2. new.cursor <= Len(log[j][new.stage]) + 1 /\ new.credential # 0
        BY <2>1, <1>3 DEF OfRelayJob
      <4>3. cp.cursor <= Len(log'[j][cp.stage]) + 1
        <5>1. new.cursor \in Nat
          BY <1>3 DEF RelayCheckpoints
        <5>2. new.cursor <= Len(log'[j][new.stage]) + 1
          <6>1. \A a, b, c \in Nat : (b >= a /\ c <= a + 1) => c <= b + 1
            OBVIOUS
          <6> QED
            BY <3>1, <4>2, <5>1, <6>1, Zenon
        <5> QED
          BY <2>3, <5>2, Zenon
      <4> QED
        BY <2>1, <2>3, <4>1, <4>2, <4>3 DEF OfRelayJob
  <2>4. CASE Send(d)
    <3> PICK cp : cp = [new EXCEPT !.sent = TRUE]
      OBVIOUS
    <3>1. Return(d, "running", cp)
      BY <2>4 DEF Send
    <3>2. cp \in RelayCheckpoints
      BY <1>3 DEF RelayCheckpoints
    <3>3. /\ cp.stage = new.stage
          /\ cp.cursor = new.cursor
          /\ cp.credential = new.credential
          /\ cp.backend = "matrix"
          /\ GoesOnFrom(new, cp)
      BY <3>2, <1>3 DEF RelayCheckpoints, GoesOnFrom
    <3>4. cp \in Checkpoints /\ GoesOnFrom(old, cp)
      BY <3>2, <3>3, <1>2, <1>3, GoesOnTransitive DEF Checkpoints
    <3>5. AtWorker("running", cp)
      BY <3>3, <1>3 DEF AtWorker
    <3> QED
      BY <2>3, <3>1, <3>2, <3>3, <3>4, <3>5, <1>5 DEF Results
  <2>5. CASE SendFails(d)
    BY <2>3, <2>5, <1>3, <1>6 DEF SendFails, Results
  <2> QED
    BY <1>11, <2>4, <2>5
<1>12. CASE Poll(d)
  <2>1. new.sent /\ UNCHANGED log
    BY <1>12 DEF Poll
  <2>2. Len(log[j][new.stage]) \in Nat /\ new.cursor \in Nat
    BY <1>3, <1>4 DEF RelayCheckpoints
  <2>3. new.cursor # 0 /\ new.cursor <= Len(log[j][new.stage]) + 1 /\ new.credential # 0
    BY <2>1, <1>3 DEF OfRelayJob
  <2>4. ASSUME Return(d, "running", [new EXCEPT !.cursor = Len(log[j][new.stage]) + 1])
        PROVE  StepReturns(d, j)
    <3> PICK cp : cp = [new EXCEPT !.cursor = Len(log[j][new.stage]) + 1]
      OBVIOUS
    <3>1. cp \in RelayCheckpoints
      BY <2>2, <1>3 DEF RelayCheckpoints
    <3>2. /\ cp.stage = new.stage
          /\ cp.cursor = Len(log[j][new.stage]) + 1
          /\ cp.credential = new.credential
          /\ cp.backend = "matrix"
          /\ GoesOnFrom(new, cp)
      BY <3>1, <2>2, <2>3, <1>3 DEF RelayCheckpoints, GoesOnFrom
    <3>3. OfRelayJob(j, cp)
      BY <2>2, <2>3, <3>2, <1>3 DEF OfRelayJob
    <3>4. cp \in Checkpoints /\ GoesOnFrom(old, cp)
      BY <3>1, <3>2, <1>2, <1>3, GoesOnTransitive DEF Checkpoints
    <3>5. OfRelayJob(j, cp)' /\ AtWorker("running", cp)
      BY <2>1, <3>2, <3>3, <1>3, <1>7 DEF AtWorker
    <3> QED
      BY <2>4, <3>2, <3>4, <3>5, <1>5 DEF Results
  <2>5. CASE Return(d, "failed", new)
    BY <2>1, <2>5, <1>3, <1>6, <1>7 DEF Results
  <2>6. ASSUME NEW i \in Claims(j, new), log[j][new.stage][i].kind # "invalid",
               Return(d, IF new.stage = Len(Roles) THEN "completed" ELSE "running",
                      [new EXCEPT !.stage = @ + 1, !.cursor = 0, !.sent = FALSE])
        PROVE  StepReturns(d, j)
    <3> PICK cp : cp = [new EXCEPT !.stage = @ + 1, !.cursor = 0, !.sent = FALSE]
      OBVIOUS
    <3> DEFINE status == IF new.stage = Len(Roles) THEN "completed" ELSE "running"
    <3>1. new.stage \in Nat /\ new.stage + 1 \in 1..(Len(Roles) + 1) /\ Len(Roles) \in Nat
      BY <1>3, RelayAssumption DEF Workers
    <3>2. cp \in RelayCheckpoints
      BY <3>1, <1>3 DEF RelayCheckpoints
    <3>3. /\ cp.stage = new.stage + 1
          /\ cp.cursor = 0
          /\ ~cp.sent
          /\ cp.credential = new.credential
          /\ cp.backend = "matrix"
          /\ GoesOnFrom(new, cp)
      BY <3>1, <3>2, <1>3 DEF RelayCheckpoints, GoesOnFrom
    <3>4. Reported(j, new.stage)
      <4>1. i \in 1..Len(log[j][new.stage]) /\ log[j][new.stage][i].kind # "request"
        BY <2>2, <2>3, <2>6 DEF Claims
      <4>2. log[j][new.stage][i] \in Events
        BY <4>1, <1>4
      <4> QED
        BY <2>6, <4>1, <4>2 DEF Reported, Events
    <3>5. \A r \in Workers : r < cp.stage => Reported(j, r)
      <4>1. \A r \in Workers : r < new.stage + 1 => (r < new.stage \/ r = new.stage)
        BY <3>1 DEF Workers
      <4> QED
        BY <4>1, <3>3, <3>4, <1>3 DEF OfRelayJob
    <3>6. OfRelayJob(j, cp)
      <4>1. cp.stage \in Workers => 0 <= Len(log[j][cp.stage]) + 1
        <5>1. cp.stage \in Workers => Len(log[j][cp.stage]) \in Nat
          BY <1>2
        <5> QED
          BY <5>1
      <4> QED
        BY <3>3, <3>5, <4>1 DEF OfRelayJob
    <3>7. cp \in Checkpoints /\ GoesOnFrom(old, cp)
      BY <3>2, <3>3, <1>2, <1>3, GoesOnTransitive DEF Checkpoints
    <3>8. OfRelayJob(j, cp)'
      BY <2>1, <3>6, <1>7
    <3>9. AtWorker(status, cp)
      BY <3>1, <3>3, <1>3 DEF AtWorker, Workers
    <3>10. status = "completed" => Backed(j, cp)'
      <4>1. SUFFICES ASSUME new.stage = Len(Roles)
                     PROVE  Backed(j, cp)'
        OBVIOUS
      <4>2. \A r \in Workers : r < cp.stage
        BY <3>1, <3>3, <4>1 DEF Workers
      <4>3. \A r \in Workers : Reported(j, r)'
        BY <2>1, <3>5, <4>2 DEF Reported
      <4> QED
        BY <3>3, <4>3, <1>1 DEF Backed
    <3> QED
      BY <2>6, <3>3, <3>7, <3>8, <3>9, <3>10, <1>5 DEF Results
  <2> QED
    BY <1>12, <2>4, <2>5, <2>6 DEF Poll
<1> QED
  BY <1>8, <1>9, <1>10, <1>11, <1>12 DEF RelayStep

-----------------------------------------------------------------------------
(* Every step leaves the outside of its type, and lets it grow.            *)
OutsideOK ==
  /\ team' \in [Jobs -> TeamRecords] /\ TeamGrows
  /\ log' \in [Jobs -> [Workers -> Seq(Events)]] /\ LogGrows
  /\ setting' \in [Dispatchers -> Settings]

(* A step that leaves the teams alone.                                   *)
LEMMA NoTeamChanges ==
  ASSUME team \in [Jobs -> TeamRecords], UNCHANGED team
  PROVE  team' \in [Jobs -> TeamRecords] /\ TeamGrows
<1>1. \A j \in Jobs : team[j].rooms \in Nat
  BY NativeAssumption DEF TeamRecords
<1> QED
  BY <1>1 DEF TeamGrows

(* What a step may do to one team: it only ever gains rooms, proofs and  *)
(* reports, and an assignment only from a dispatcher that makes one.     *)
LEMMA OneTeamChanges ==
  ASSUME team \in [Jobs -> TeamRecords], NEW j \in Jobs, NEW t \in TeamRecords,
         t.rooms >= team[j].rooms, team[j].proved => t.proved,
         t.report = "valid" => (t.proved \/ team[j].report = "valid"),
         t.lost = team[j].lost,
         t.assigned = team[j].assigned \/ \E d \in Dispatchers : Assigns(d, j, t.assigned),
         team' = [team EXCEPT ![j] = t]
  PROVE  team' \in [Jobs -> TeamRecords] /\ TeamGrows
<1>1. team' \in [Jobs -> TeamRecords]
  OBVIOUS
<1>2. \A k \in Jobs : team[k].rooms \in Nat
  BY NativeAssumption DEF TeamRecords
<1>3. \A k \in Jobs : team'[k] = IF k = j THEN t ELSE team[k]
  OBVIOUS
<1> QED
  BY <1>1, <1>2, <1>3 DEF TeamGrows

(* The native backend's steps.                                             *)
LEMMA NativeOutside ==
  ASSUME Records, TicksHaveJobs, CheckpointsGrounded,
         NEW d \in Dispatchers, Chosen(d, "native"), NativeStep(d)
  PROVE  team' \in [Jobs -> TeamRecords] /\ TeamGrows
<1> PICK j : j = tick[d].job
  OBVIOUS
<1> PICK old : old = tick[d].cp
  OBVIOUS
<1> PICK new : new = Begun(old)
  OBVIOUS
<1>1. tick[d].at = "advancing"
  BY DEF NativeStep, CreateProject, CreateFails, NeedsProject, Assign, AssignFails,
         AssignNowhere, NeedsAssignment, Observe, Observing, NativeUnavailable,
         Native, Dispatchable
<1>2. /\ j \in Jobs
      /\ old \in Checkpoints
      /\ OfNativeJob(j, old)
      /\ team[j] \in TeamRecords
      /\ team \in [Jobs -> TeamRecords]
  BY <1>1, AdvancingCopy DEF Grounded, Records
<1>3. new \in NativeCheckpoints
  BY <1>2, ChosenNative, BegunCopy
<1>4. team[j].rooms \in 0..MaxRooms /\ MaxRooms \in Nat \ {0}
  BY <1>2, NativeAssumption DEF TeamRecords
<1>5. CASE CreateProject(d) \/ CreateFails(d)
  <2> PICK room : room = RoomFor(j, new)
    OBVIOUS
  <2>1. PICK t \in {WithRoom(Created(team[j]), room), WithRoom(team[j], room),
                    Created(WithRoom(team[j], room))} :
          room <= MaxRooms /\ team' = [team EXCEPT ![j] = t]
    <3>1. CASE CreateProject(d)
      BY <3>1 DEF CreateProject
    <3>2. CASE CreateFails(d)
      BY <3>2 DEF CreateFails
    <3> QED
      BY <1>5, <3>1, <3>2
  <2>2. room \in 0..MaxRooms
    BY <2>1, <1>3, <1>4 DEF RoomFor, NativeCheckpoints
  <2>3. t \in TeamRecords /\ t.rooms >= team[j].rooms
    <3>1. /\ t \in TeamRecords
          /\ t.rooms = IF room > team[j].rooms THEN room ELSE team[j].rooms
      <4>1. CASE t = WithRoom(Created(team[j]), room)
        BY <4>1, <2>2, <1>2, MadeRecords
      <4>2. CASE t = WithRoom(team[j], room)
        BY <4>2, <2>2, <1>2, MadeRecords
      <4>3. CASE t = Created(WithRoom(team[j], room))
        BY <4>3, <2>2, <1>2, MadeRecords
      <4> QED
        BY <2>1, <4>1, <4>2, <4>3
    <3> QED
      BY <2>2, <3>1, <1>4
  <2>4. /\ t.proved = team[j].proved
        /\ t.report = "valid" => team[j].report = "valid"
        /\ t.lost = team[j].lost
        /\ t.assigned = team[j].assigned
    <3>1. \A u \in TeamRecords : /\ Created(u).proved = u.proved
                                 /\ Created(u).report \in {u.report, "none"}
                                 /\ Created(u).lost = u.lost
                                 /\ Created(u).assigned = u.assigned
                                 /\ WithRoom(u, room).proved = u.proved
                                 /\ WithRoom(u, room).report = u.report
                                 /\ WithRoom(u, room).lost = u.lost
                                 /\ WithRoom(u, room).assigned = u.assigned
      BY DEF TeamRecords, Created, WithRoom
    <3>2. Created(team[j]) \in TeamRecords /\ WithRoom(team[j], room) \in TeamRecords
      BY <2>2, <1>2, MadeRecords
    <3>3. CASE t = WithRoom(Created(team[j]), room)
      BY <3>1, <3>2, <3>3, <1>2
    <3>4. CASE t = WithRoom(team[j], room)
      BY <3>1, <3>4, <1>2
    <3>5. CASE t = Created(WithRoom(team[j], room))
      BY <3>1, <3>2, <3>5, <1>2
    <3> QED
      BY <2>1, <3>3, <3>4, <3>5
  <2> QED
    BY <2>1, <2>3, <2>4, <1>2, OneTeamChanges
<1>6. CASE Assign(d) \/ AssignFails(d)
  <2>1. old.backend = "native"
    BY <1>6 DEF Assign, AssignFails, NeedsAssignment
  <2>2. old.room \in Nat
    BY <2>1, <1>2, CheckpointKinds, NativeAssumption DEF NativeCheckpoints
  <2> PICK assignment : assignment = Assignment(d)
    OBVIOUS
  <2> PICK assigned : assigned = team[j].assigned \cup {assignment}
    OBVIOUS
  <2> PICK t : t = [team[j] EXCEPT !.assigned = assigned]
    OBVIOUS
  <2>3. team' = [team EXCEPT ![j] = t]
    BY <1>6, <1>2 DEF Assign, AssignFails
  <2>4. assigned \in SUBSET [room : Nat, bearer : Bearers]
    <3>1. assignment \in [room : Nat, bearer : Bearers]
      BY <2>2, SettingsHaveBearers DEF Assignment
    <3> QED
      BY <3>1, <1>2 DEF TeamRecords
  <2>5. /\ t \in TeamRecords /\ t.rooms >= team[j].rooms
        /\ team[j].proved => t.proved
        /\ t.report = team[j].report
        /\ t.lost = team[j].lost
        /\ t.assigned = assigned
    BY <2>4, <1>2, <1>4 DEF TeamRecords
  <2>6. old.project /\ ~old.sent
    BY <1>6 DEF Assign, AssignFails, NeedsAssignment
  <2>7. Assigns(d, j, t.assigned)
    BY <2>1, <2>5, <2>6, <1>1 DEF Assigns
  <2> QED
    BY <2>3, <2>5, <2>7, <1>2, OneTeamChanges
<1>7. CASE UNCHANGED team
  BY <1>2, <1>7, NoTeamChanges
<1>8. CASE team' = [team EXCEPT ![j].project = "completed"]
  <2> PICK t : t = [team[j] EXCEPT !.project = "completed"]
    OBVIOUS
  <2>1. team' = [team EXCEPT ![j] = t]
    BY <1>2, <1>8
  <2>2. /\ t \in TeamRecords /\ t.rooms >= team[j].rooms
        /\ team[j].proved => t.proved
        /\ t.report = team[j].report
        /\ t.lost = team[j].lost
        /\ t.assigned = team[j].assigned
    BY <1>2, <1>4 DEF TeamRecords
  <2> QED
    BY <2>1, <2>2, <1>2, OneTeamChanges
<1>9. CASE AssignNowhere(d) \/ NativeUnavailable(d)
  BY <1>7, <1>9 DEF AssignNowhere, NativeUnavailable
<1>10. CASE Observe(d)
  BY <1>7, <1>8, <1>10 DEF Observe
<1> QED
  BY <1>5, <1>6, <1>9, <1>10 DEF NativeStep

(* The team, the person who looks after projects, and the cancellations.   *)
LEMMA OthersOfTeam ==
  ASSUME Records, NativeOther
  PROVE  team' \in [Jobs -> TeamRecords] /\ TeamGrows
<1>1. team \in [Jobs -> TeamRecords]
  BY DEF Records
<1>2. \A j \in Jobs : team[j] \in TeamRecords /\ team[j].rooms \in Nat
  BY <1>1, NativeAssumption DEF TeamRecords
(* It is enough to say which fields change.                                *)
<1>3. ASSUME NEW j \in Jobs, NEW t \in TeamRecords,
             t.rooms = team[j].rooms, team[j].proved => t.proved,
             t.report = "valid" => (t.proved \/ team[j].report = "valid"),
             t.lost = team[j].lost, t.assigned = team[j].assigned,
             team' = [team EXCEPT ![j] = t]
      PROVE  team' \in [Jobs -> TeamRecords] /\ TeamGrows
  <2>1. t.rooms >= team[j].rooms
    BY <1>2, <1>3
  <2> QED
    BY <2>1, <1>1, <1>3, OneTeamChanges
<1>4. CASE UNCHANGED team
  BY <1>1, <1>4, NoTeamChanges
<1>5. ASSUME NEW j \in Jobs, CancelPause(j) \/ CancelPauseFails(j)
      PROVE  team' \in [Jobs -> TeamRecords] /\ TeamGrows
  <2>1. CASE team' = [team EXCEPT ![j] = Paused(team[j])]
    <3>1. /\ Paused(team[j]) \in TeamRecords
          /\ Paused(team[j]).rooms = team[j].rooms
          /\ team[j].proved => Paused(team[j]).proved
          /\ Paused(team[j]).report = team[j].report
          /\ Paused(team[j]).lost = team[j].lost
          /\ Paused(team[j]).assigned = team[j].assigned
      BY <1>2 DEF TeamRecords, Paused
    <3> QED
      BY <2>1, <3>1, <1>3
  <2> QED
    BY <2>1, <1>1, <1>4, <1>5 DEF CancelPause, CancelPauseFails
<1>6. ASSUME NEW j \in Jobs, TeamAccepts(j)
      PROVE  team' \in [Jobs -> TeamRecords] /\ TeamGrows
  <2>1. PICK report \in {"none", "listed", "valid"} :
          team' = [team EXCEPT ![j].nodes = "accepted", ![j].report = report,
                               ![j].proved = @ \/ report = "valid"]
    BY <1>6 DEF TeamAccepts
  <2> PICK proved \in BOOLEAN : proved = (team[j].proved \/ report = "valid")
    OBVIOUS
  <2> PICK t : t = [team[j] EXCEPT !.nodes = "accepted", !.report = report, !.proved = proved]
    OBVIOUS
  <2>2. team' = [team EXCEPT ![j] = t]
    BY <2>1, <1>1
  <2>3. t \in TeamRecords /\ t.rooms = team[j].rooms /\ (team[j].proved => t.proved)
    BY <1>2 DEF TeamRecords
  <2>4. /\ t.report = "valid" => t.proved
        /\ t.lost = team[j].lost
        /\ t.assigned = team[j].assigned
    BY <1>2 DEF TeamRecords
  <2> QED
    BY <2>2, <2>3, <2>4, <1>3
<1>7. ASSUME NEW j \in Jobs, TeamPublishes(j)
      PROVE  team' \in [Jobs -> TeamRecords] /\ TeamGrows
  <2> PICK t : t = [team[j] EXCEPT !.report = "valid", !.proved = TRUE]
    OBVIOUS
  <2>1. team' = [team EXCEPT ![j] = t]
    BY <1>1, <1>7 DEF TeamPublishes
  <2>2. /\ t \in TeamRecords /\ t.rooms = team[j].rooms /\ t.proved
        /\ t.lost = team[j].lost
        /\ t.assigned = team[j].assigned
    BY <1>2 DEF TeamRecords
  <2> QED
    BY <2>1, <2>2, <1>3
<1>8. ASSUME NEW j \in Jobs, TeamEnds(j) \/ TeamBlocks(j) \/ Attend(j)
      PROVE  team' \in [Jobs -> TeamRecords] /\ TeamGrows
  <2>1. PICK project \in {"active", "paused", "completed"} :
          team' = [team EXCEPT ![j].project = project]
    BY <1>8 DEF TeamEnds, TeamBlocks, Attend
  <2> PICK t : t = [team[j] EXCEPT !.project = project]
    OBVIOUS
  <2>2. team' = [team EXCEPT ![j] = t]
    BY <2>1, <1>1
  <2>3. /\ t \in TeamRecords /\ t.rooms = team[j].rooms
        /\ team[j].proved => t.proved
        /\ t.report = team[j].report
        /\ t.lost = team[j].lost
        /\ t.assigned = team[j].assigned
    BY <1>2 DEF TeamRecords
  <2> QED
    BY <2>2, <2>3, <1>3
<1>9. CASE StudioRestart
  <2>1. \A j \in Jobs :
          team'[j] = [team[j] EXCEPT !.lost = team[j].rooms, !.project = "none",
                                     !.nodes = "open", !.report = "none"]
    BY <1>9 DEF StudioRestart
  <2>2. ASSUME NEW j \in Jobs
        PROVE  /\ team'[j] \in TeamRecords
               /\ team'[j].rooms = team[j].rooms
               /\ team[j].proved => team'[j].proved
               /\ team'[j].report = "none"
               /\ team'[j].lost = team[j].rooms
               /\ team'[j].assigned = team[j].assigned
    <3> PICK t : t = team[j]
      OBVIOUS
    <3> PICK lost : lost = t.rooms
      OBVIOUS
    <3>1. team'[j] = [t EXCEPT !.lost = lost, !.project = "none",
                               !.nodes = "open", !.report = "none"]
      BY <2>1
    <3>2. t \in TeamRecords /\ lost \in Nat
      BY <1>2
    <3> QED
      BY <3>1, <3>2 DEF TeamRecords
  <2>3. \A j \in Jobs : /\ team'[j] \in TeamRecords
                        /\ team'[j].rooms >= team[j].rooms
                        /\ team[j].proved => team'[j].proved
                        /\ team'[j].report # "valid"
                        /\ team'[j].lost = team[j].rooms
                        /\ team'[j].assigned = team[j].assigned
    BY <2>2, <1>2
  <2>4. team' = [j \in Jobs |-> team'[j]]
    BY <1>9 DEF StudioRestart
  <2> QED
    BY <2>3, <2>4 DEF TeamGrows
<1> QED
  BY <1>5, <1>6, <1>7, <1>8, <1>9 DEF NativeOther

(* The relay's steps and its workers.                                      *)
LEMMA RelayOutside ==
  ASSUME Records, TicksHaveJobs, CheckpointsGrounded,
         NEW d \in Dispatchers, RelayStep(d) \/ ChangeCredential(d)
  PROVE  log' \in [Jobs -> [Workers -> Seq(Events)]] /\ LogGrows
<1>1. log \in [Jobs -> [Workers -> Seq(Events)]]
  BY DEF Records
<1>2. CASE UNCHANGED log
  BY <1>1, <1>2, NoMoreEvents
<1>3. CASE Send(d) \/ SendFails(d)
  <2> PICK j : j = tick[d].job
    OBVIOUS
  <2> PICK cp : cp = tick[d].cp
    OBVIOUS
  <2>1. tick[d].at = "advancing" /\ cp.backend \in {"none", "matrix"}
    BY <1>3 DEF Send, SendFails, Relay, Dispatchable
  <2>2. j \in Jobs /\ cp \in Checkpoints /\ OfRelayJob(j, cp) /\ AtWorker("running", cp)
    BY <2>1, AdvancingCopy DEF Grounded
  <2>3. Started(cp).stage \in Workers
    BY <2>1, <2>2, StartedCopy
  <2>4. Request(j, Started(cp).stage, setting[d].bearer)
    BY <1>3 DEF Send, SendFails
  <2> QED
    BY <2>2, <2>3, <2>4, <1>1, RequestGrows, SettingsHaveBearers
<1> QED
  BY <1>2, <1>3
  DEF RelayStep, CredentialChanged, Prepare, Poll, GiveUp, ChangeCredential

(* The workers answer: logs only grow.                                     *)
LEMMA OthersOfRelay ==
  ASSUME Records, RelayOther
  PROVE  log' \in [Jobs -> [Workers -> Seq(Events)]] /\ LogGrows
<1>1. log \in [Jobs -> [Workers -> Seq(Events)]]
  BY DEF Records
<1>2. ASSUME NEW j \in Jobs, NEW r \in Workers, WorkerAnswers(j, r)
      PROVE  log' \in [Jobs -> [Workers -> Seq(Events)]] /\ LogGrows
  <2>1. PICK kind \in {"report", "invalid"} :
          log' = [log EXCEPT ![j][r] = Append(@, [kind |-> kind, credential |-> 0])]
    BY <1>2 DEF WorkerAnswers
  <2> PICK e : e = [kind |-> kind, credential |-> 0]
    OBVIOUS
  <2>2. e \in Events /\ log' = [log EXCEPT ![j][r] = Append(@, e)]
    BY <2>1 DEF Events
  <2> QED
    BY <2>2, <1>1, OneMoreEvent
<1> QED
  BY <1>2 DEF RelayOther, Workers

(* Only a restart and a login change what a dispatcher talks with.         *)
LEMMA SettingsKept ==
  ASSUME Records, [Next]_vars
  PROVE  setting' \in [Dispatchers -> Settings]
<1>1. setting \in [Dispatchers -> Settings]
  BY DEF Records
<1>2. CASE UNCHANGED setting
  BY <1>1, <1>2
<1>3. ASSUME NEW d \in Dispatchers, Restart(d) \/ ChangeCredential(d)
      PROVE  setting' \in [Dispatchers -> Settings]
  BY <1>1, <1>3 DEF Restart, ChangeCredential
<1>4. CASE QueueStep
  BY <1>2, <1>3, <1>4
  DEF QueueStep, Submit, CancelRead, CancelWrite, Lease, Read, RefuseTampered,
      AwaitBudget, Write, Stop, Crash, LeaseRunsOut, Overrun, OpenBudget, CloseBudget
<1>5. ASSUME NEW d \in Dispatchers, NativeStep(d)
      PROVE  UNCHANGED setting
  BY <1>5 DEF NativeStep, CreateProject, CreateFails, Assign, AssignFails, AssignNowhere,
              Observe, NativeUnavailable, StepUnchanged
<1>6. ASSUME NEW d \in Dispatchers, RelayStep(d)
      PROVE  UNCHANGED setting
  BY <1>6 DEF RelayStep, CredentialChanged, Prepare, Send, SendFails, Poll, GiveUp, RelayKeeps
<1>7. CASE NativeOther \/ RelayOther \/ UNCHANGED vars
  BY <1>2, <1>7
  DEF NativeOther, RelayOther, vars, queueVars, CancelPause, CancelPauseFails,
      TeamAccepts, TeamEnds, TeamBlocks, Attend, TeamPublishes, StudioRestart,
      OtherSide, WorkerAnswers
<1> QED
  BY <1>2, <1>3, <1>4, <1>5, <1>6, <1>7 DEF Next

(* Any step.                                                               *)
LEMMA OutsideGrows ==
  ASSUME Records, TicksHaveJobs, CheckpointsGrounded, [Next]_vars
  PROVE  OutsideOK
<1>1. /\ team \in [Jobs -> TeamRecords]
      /\ log \in [Jobs -> [Workers -> Seq(Events)]]
  BY DEF Records
<1>2. UNCHANGED team => (team' \in [Jobs -> TeamRecords] /\ TeamGrows)
  BY <1>1, NoTeamChanges
<1>3. UNCHANGED log => (log' \in [Jobs -> [Workers -> Seq(Events)]] /\ LogGrows)
  BY <1>1, NoMoreEvents
<1>4. CASE (QueueStep /\ OfQueue) \/ UNCHANGED vars
  BY <1>2, <1>3, <1>4, SettingsKept DEF OfQueue, vars, OutsideOK
<1>5. CASE \E d \in Dispatchers : Chosen(d, "native") /\ NativeStep(d) /\ OfNative
  BY <1>3, <1>5, NativeOutside, SettingsKept DEF OfNative, OutsideOK
<1>6. CASE \E d \in Dispatchers : (RelayStep(d) \/ ChangeCredential(d)) /\ OfRelay
  BY <1>2, <1>6, RelayOutside, SettingsKept DEF OfRelay, OutsideOK
<1>7. CASE NativeOther /\ OfNative
  BY <1>3, <1>7, OthersOfTeam, SettingsKept DEF OfNative, OutsideOK
<1>8. CASE RelayOther /\ OfRelay
  BY <1>2, <1>8, OthersOfRelay, SettingsKept DEF OfRelay, OutsideOK
<1> QED
  BY <1>4, <1>5, <1>6, <1>7, <1>8 DEF Next

-----------------------------------------------------------------------------
(* What a step may do to the jobs, the ticks and the lease, whoever takes  *)
(* it.  A backend returns something; a tick is set aside, or takes a job;  *)
(* the holder stores what was returned; a job is queued or canceled; or    *)
(* the ticks and jobs stay as they are.                                    *)
OutsideSame == UNCHANGED <<team, log>>

BackendStep(d) ==
  \/ (RefuseTampered(d) \/ AwaitBudget(d)) /\ OfQueue
  \/ Chosen(d, "native") /\ NativeStep(d) /\ OfNative
  \/ RelayStep(d) /\ OfRelay

Returns(d) == BackendStep(d) /\ \E j \in Jobs : j = tick[d].job /\ StepReturns(d, j)

SetsAside(d) ==
  /\ \E t \in TickRecords :
       t.at \notin {"advancing", "writing"} /\ tick' = [tick EXCEPT ![d] = t]
  /\ \A e \in Dispatchers \ {d} : Holds(e)' => Holds(e)
  /\ lease' \in [owner : Dispatchers \cup {Nobody}, runs : BOOLEAN]
  /\ UNCHANGED job
  /\ OutsideSame

Takes(d) ==
  /\ \E j \in Open :
       tick' = [tick EXCEPT ![d] =
         [at |-> "advancing", job |-> j, cp |-> job[j].cp,
          status |-> job[j].status, report |-> job[j].report]]
  /\ UNCHANGED <<job, lease>>
  /\ OutsideSame

Stores(d) ==
  /\ tick[d].at = "writing"
  /\ Holds(d)
  /\ job[tick[d].job].status \notin Terminal
  /\ job' = [job EXCEPT ![tick[d].job] =
       [status |-> tick[d].status, cp |-> tick[d].cp, report |-> tick[d].report]]
  /\ tick' = [tick EXCEPT ![d] = IdleTick]
  /\ UNCHANGED lease
  /\ OutsideSame

Marks(j) ==
  /\ \E status \in Stored :
       /\ status = job[j].status \/ (job[j].status \notin Terminal
                                     /\ status \in {"queued", "canceled"})
       /\ job' = [job EXCEPT ![j].status = status]
  /\ UNCHANGED <<tick, lease>>
  /\ OutsideSame

Rests ==
  /\ UNCHANGED <<job, tick>>
  /\ \A e \in Dispatchers : Holds(e)' => Holds(e)
  /\ lease' \in [owner : Dispatchers \cup {Nobody}, runs : BOOLEAN]

Moves ==
  \/ \E d \in Dispatchers : Returns(d) \/ SetsAside(d) \/ Takes(d) \/ Stores(d)
  \/ \E j \in Jobs : Marks(j)
  \/ Rests

(* Every step is, for jobs, ticks and the lease, one of a few kinds.     *)
LEMMA StepKinds ==
  ASSUME Records, TicksHaveJobs, CheckpointsGrounded, CompletionsBacked, [Next]_vars
  PROVE  Moves
<1>1. /\ lease \in [owner : Dispatchers \cup {Nobody}, runs : BOOLEAN]
      /\ tick \in [Dispatchers -> TickRecords]
      /\ job \in [Jobs -> JobRecords]
      /\ Nobody \notin Dispatchers
  BY QueueAssumption DEF Records
<1>2. IdleTick \in TickRecords
  BY DEF IdleTick, TickRecords, Checkpoints, Stored
<1>3. ASSUME NEW d \in Dispatchers, tick[d].at = "advancing"
      PROVE  tick[d].job \in Jobs
  BY <1>3, AdvancingCopy
<1>4. OfQueue => OutsideSame
  BY DEF OfQueue, OutsideSame
<1>5. UNCHANGED <<job, tick, lease>> => Rests
  BY <1>1 DEF Rests, Holds
<1>6. ASSUME NEW j \in Jobs, Submit(j) \/ CancelRead(j) \/ CancelWrite(j), OfQueue
      PROVE  Marks(j) \/ Rests
  <2>1. CASE Submit(j)
    BY <2>1, <1>4, <1>6 DEF Submit, Marks, Terminal, Stored
  <2>2. CASE CancelRead(j)
    BY <2>2, <1>5 DEF CancelRead
  <2>3. CASE CancelWrite(j)
    <3> PICK status : status = IF job[j].status \in Terminal THEN job[j].status ELSE "canceled"
      OBVIOUS
    <3>1. job' = [job EXCEPT ![j].status = status] /\ UNCHANGED <<tick, lease>>
      BY <2>3 DEF CancelWrite
    <3>2. status \in Stored
      BY DEF Stored, Terminal
    <3> QED
      BY <3>1, <3>2, <1>4, <1>6 DEF Marks
  <2> QED
    BY <2>1, <2>2, <2>3, <1>6
<1>7. ASSUME NEW d \in Dispatchers, Lease(d), OfQueue
      PROVE  SetsAside(d)
  <2> PICK t : t = [tick[d] EXCEPT !.at = "reading"]
    OBVIOUS
  <2>1. tick' = [tick EXCEPT ![d] = t] /\ t \in TickRecords /\ t.at = "reading"
    BY <1>1, <1>7 DEF Lease, TickRecords
  <2> QED
    BY <2>1, <1>4, <1>7 DEF Lease, SetsAside, Holds
<1>8. ASSUME NEW d \in Dispatchers, Read(d), OfQueue
      PROVE  SetsAside(d) \/ Takes(d)
  <2>1. CASE tick' = [tick EXCEPT ![d] = IdleTick]
    BY <2>1, <1>1, <1>2, <1>4, <1>8 DEF Read, SetsAside, Holds, IdleTick
  <2>2. ASSUME NEW j \in Jobs, Oldest(j),
               tick' = [tick EXCEPT ![d] =
                 [at |-> "advancing", job |-> j, cp |-> job[j].cp,
                  status |-> job[j].status, report |-> job[j].report]]
        PROVE  Takes(d)
    BY <2>2, <1>4, <1>8 DEF Read, Takes, Oldest
  <2> QED
    BY <2>1, <2>2, <1>8 DEF Read
<1>9. ASSUME NEW d \in Dispatchers, Write(d), OfQueue
      PROVE  SetsAside(d) \/ Stores(d)
  <2>1. CASE Holds(d) /\ job[tick[d].job].status \notin Terminal
    BY <2>1, <1>4, <1>9 DEF Write, Stores
  <2>2. CASE ~(Holds(d) /\ job[tick[d].job].status \notin Terminal)
    BY <2>2, <1>1, <1>2, <1>4, <1>9 DEF Write, SetsAside, Holds, IdleTick
  <2> QED
    BY <2>1, <2>2
<1>10. ASSUME NEW d \in Dispatchers, Stop(d) \/ Crash(d) \/ Restart(d), OfQueue
       PROVE  SetsAside(d)
  <2>1. PICK t \in TickRecords : t.at \in {"down", "idle"} /\ tick' = [tick EXCEPT ![d] = t]
    <3>1. CASE Stop(d)
      <4> PICK t : t = [tick[d] EXCEPT !.at = "down"]
        OBVIOUS
      <4>1. tick' = [tick EXCEPT ![d] = t] /\ t \in TickRecords /\ t.at = "down"
        BY <3>1, <1>1 DEF Stop, TickRecords
      <4> QED
        BY <4>1
    <3>2. CASE Crash(d)
      <4> PICK t : t = [IdleTick EXCEPT !.at = "down"]
        OBVIOUS
      <4>1. tick' = [tick EXCEPT ![d] = t]
        BY <3>2 DEF Crash
      <4>2. t \in TickRecords /\ t.at = "down"
        BY <1>2 DEF TickRecords
      <4> QED
        BY <4>1, <4>2
    <3>3. CASE Restart(d)
      BY <3>3, <1>2 DEF Restart, IdleTick
    <3> QED
      BY <3>1, <3>2, <3>3, <1>10
  <2>2. \/ lease' = lease
        \/ lease' = [owner |-> Nobody, runs |-> FALSE]
        \/ lease' = [lease EXCEPT !.owner = Nobody]
    BY <1>10 DEF Stop, Crash, Restart
  <2>3. /\ lease' \in [owner : Dispatchers \cup {Nobody}, runs : BOOLEAN]
        /\ \A e \in Dispatchers : Holds(e)' => Holds(e)
    <3>1. CASE lease' = lease
      BY <3>1, <1>1 DEF Holds
    <3>2. CASE lease' = [owner |-> Nobody, runs |-> FALSE]
      BY <3>2, <1>1 DEF Holds
    <3>3. CASE lease' = [lease EXCEPT !.owner = Nobody]
      BY <3>3, <1>1 DEF Holds
    <3> QED
      BY <3>1, <3>2, <3>3, <2>2
  <2> QED
    BY <2>1, <2>3, <1>4, <1>10 DEF SetsAside, Stop, Crash, Restart
<1>11. CASE LeaseRunsOut \/ Overrun \/ OpenBudget \/ CloseBudget
  <2>1. UNCHANGED <<job, tick>> /\ lease' \in {lease, [lease EXCEPT !.runs = FALSE]}
    BY <1>11 DEF LeaseRunsOut, Overrun, OpenBudget, CloseBudget
  <2> QED
    BY <2>1, <1>1 DEF Rests, Holds, Moves
<1>12. CASE NativeOther \/ RelayOther \/ UNCHANGED vars
  <2>1. UNCHANGED <<job, tick, lease>>
    BY <1>12
    DEF NativeOther, RelayOther, vars, queueVars, CancelPause, CancelPauseFails,
        TeamAccepts, TeamEnds, TeamBlocks, Attend, TeamPublishes, StudioRestart,
        OtherSide, WorkerAnswers
  <2> QED
    BY <2>1, <1>5 DEF Moves
<1>12a. ASSUME NEW d \in Dispatchers, ChangeCredential(d)
       PROVE  Moves
  BY <1>5, <1>12a DEF ChangeCredential, Moves
<1>13. ASSUME NEW d \in Dispatchers, BackendStep(d)
       PROVE  Returns(d)
  <2> PICK j : j = tick[d].job
    OBVIOUS
  <2>1. StepReturns(d, j)
    BY <1>13, RefusalReturns, NativeReturns, RelayReturns DEF BackendStep
  <2>2. j \in Jobs
    BY <2>1, <1>3 DEF StepReturns, Advances
  <2> QED
    BY <2>1, <2>2, <1>13 DEF Returns
<1> QED
  BY <1>6, <1>7, <1>8, <1>9, <1>10, <1>11, <1>12, <1>13, <1>12a
  DEF Next, QueueStep, Moves, BackendStep

-----------------------------------------------------------------------------
(* The part of the invariant that is about the queue is kept by all moves. *)

(* What a backend returned, in the tick.                                   *)
LEMMA ReturnedTick ==
  ASSUME tick \in [Dispatchers -> TickRecords], NEW d \in Dispatchers,
         NEW status \in Results, NEW cp \in Checkpoints, Return(d, status, cp)
  PROVE  \E t \in TickRecords :
           /\ tick' = [tick EXCEPT ![d] = t]
           /\ t.at = "writing"
           /\ t.job = tick[d].job
           /\ t.cp = cp
           /\ t.status = status
           /\ t.report = (status = "completed")
<1> PICK report \in BOOLEAN : report = (status = "completed")
  OBVIOUS
<1> PICK t : t = [tick[d] EXCEPT !.at = "writing", !.status = status, !.cp = cp,
                                 !.report = report]
  OBVIOUS
<1>1. tick' = [tick EXCEPT ![d] = t]
  BY DEF Return
<1>2. status \in Stored
  BY DEF Results, Stored, Terminal
<1>3. t \in TickRecords
  BY <1>2 DEF TickRecords
<1>4. t.at = "writing" /\ t.job = tick[d].job /\ t.cp = cp /\ t.status = status
      /\ t.report = report
  BY DEF TickRecords
<1> QED
  BY <1>1, <1>3, <1>4

(* Who works on a copy after a step had it before, or took what is stored. *)
LEMMA CopiesAfter ==
  ASSUME Records, Moves, NEW e \in Dispatchers, tick'[e].at = "advancing"
  PROVE  \/ tick'[e] = tick[e]
         \/ /\ job' = job
            /\ tick'[e].job \in Jobs
            /\ tick'[e].cp = job[tick'[e].job].cp
<1>1. tick \in [Dispatchers -> TickRecords]
  BY DEF Records
<1>2. CASE Returns(e) \/ SetsAside(e) \/ Stores(e)
  <2>1. tick'[e].at # "advancing"
    BY <1>1, <1>2, ReturnedTick
    DEF Returns, StepReturns, Advances, SetsAside, Stores, IdleTick
  <2> QED
    BY <2>1
<1>3. CASE Takes(e)
  BY <1>1, <1>3 DEF Takes, Open
<1>4. ASSUME NEW d \in Dispatchers, d # e,
             Returns(d) \/ SetsAside(d) \/ Takes(d) \/ Stores(d)
      PROVE  tick'[e] = tick[e]
  <2>1. CASE Returns(d)
    BY <2>1, <1>1, <1>4 DEF Returns, StepReturns, Advances, Return
  <2>2. CASE SetsAside(d) \/ Takes(d) \/ Stores(d)
    BY <2>2, <1>1, <1>4 DEF SetsAside, Takes, Stores
  <2> QED
    BY <2>1, <2>2, <1>4
<1> QED
  BY <1>2, <1>3, <1>4 DEF Moves, Marks, Rests

(* The types of jobs, ticks and the lease.                               *)
LEMMA RecordsKept ==
  ASSUME Records, TicksHaveJobs, Moves, OutsideOK
  PROVE  Records'
<1>1. /\ job \in [Jobs -> JobRecords]
      /\ tick \in [Dispatchers -> TickRecords]
      /\ lease \in [owner : Dispatchers \cup {Nobody}, runs : BOOLEAN]
  BY DEF Records
<1>2. SUFFICES /\ job' \in [Jobs -> JobRecords]
               /\ tick' \in [Dispatchers -> TickRecords]
               /\ lease' \in [owner : Dispatchers \cup {Nobody}, runs : BOOLEAN]
  BY DEF Records, OutsideOK
<1>3. ASSUME NEW d \in Dispatchers, Returns(d)
      PROVE  /\ tick' \in [Dispatchers -> TickRecords]
             /\ UNCHANGED <<job, lease>>
  BY <1>1, <1>3, ReturnedTick DEF Returns, StepReturns, Advances
<1>4. ASSUME NEW d \in Dispatchers, SetsAside(d)
      PROVE  tick' \in [Dispatchers -> TickRecords]
  BY <1>1, <1>4 DEF SetsAside
<1>5. ASSUME NEW d \in Dispatchers, Takes(d)
      PROVE  tick' \in [Dispatchers -> TickRecords]
  <2>1. PICK j \in Open :
          tick' = [tick EXCEPT ![d] =
            [at |-> "advancing", job |-> j, cp |-> job[j].cp,
             status |-> job[j].status, report |-> job[j].report]]
    BY <1>5 DEF Takes
  <2>2. /\ j \in Jobs
        /\ job[j].cp \in Checkpoints
        /\ job[j].status \in Stored
        /\ job[j].report \in BOOLEAN
    BY <1>1 DEF Open, JobRecords
  <2>3. [at |-> "advancing", job |-> j, cp |-> job[j].cp,
         status |-> job[j].status, report |-> job[j].report] \in TickRecords
    BY <2>2 DEF TickRecords
  <2> QED
    BY <2>1, <2>3, <1>1
<1>6. ASSUME NEW d \in Dispatchers, Stores(d)
      PROVE  /\ tick' \in [Dispatchers -> TickRecords]
             /\ job' \in [Jobs -> JobRecords]
  <2>1. IdleTick \in TickRecords
    BY DEF IdleTick, TickRecords, Checkpoints, Stored
  <2>2. tick[d].job \in Jobs
    BY <1>6 DEF Stores, TicksHaveJobs, Busy
  <2>3. [status |-> tick[d].status, cp |-> tick[d].cp, report |-> tick[d].report]
          \in JobRecords
    BY <1>1 DEF TickRecords, JobRecords
  <2> QED
    BY <2>1, <2>2, <2>3, <1>1, <1>6 DEF Stores
<1>7. ASSUME NEW j \in Jobs, Marks(j)
      PROVE  job' \in [Jobs -> JobRecords]
  <2>1. PICK status \in Stored : job' = [job EXCEPT ![j].status = status]
    BY <1>7 DEF Marks
  <2>2. [job[j] EXCEPT !.status = status] \in JobRecords
    BY <1>1 DEF JobRecords
  <2> QED
    BY <2>1, <2>2, <1>1
<1> QED
  BY <1>1, <1>3, <1>4, <1>5, <1>6, <1>7
  DEF Moves, SetsAside, Takes, Stores, Marks, Rests

(* A dispatcher at work is at work on a job.                             *)
LEMMA TicksHaveJobsKept ==
  ASSUME Records, TicksHaveJobs, Moves
  PROVE  TicksHaveJobs'
<1>1. tick \in [Dispatchers -> TickRecords] /\ job \in [Jobs -> JobRecords]
  BY DEF Records
<1> DEFINE Good(e) ==
      Busy(e) => /\ tick[e].job \in Jobs
                 /\ job[tick[e].job].status # "absent"
                 /\ tick[e].at = "advancing" => tick[e].status \notin Terminal
                 /\ tick[e].at = "writing" => tick[e].report = (tick[e].status = "completed")
<1>2. SUFFICES ASSUME NEW e \in Dispatchers
               PROVE  Good(e)'
  BY DEF TicksHaveJobs
<1>3. Good(e)
  BY DEF TicksHaveJobs
<1>4. ASSUME NEW d \in Dispatchers, Returns(d)
      PROVE  Good(e)'
  <2>1. PICK status \in Results, cp \in Checkpoints :
          tick[d].at = "advancing" /\ Return(d, status, cp) /\ UNCHANGED job
    BY <1>4 DEF Returns, StepReturns, Advances
  <2>2. PICK t \in TickRecords :
          /\ tick' = [tick EXCEPT ![d] = t]
          /\ t.at = "writing"
          /\ t.job = tick[d].job
          /\ t.status = status
          /\ t.report = (status = "completed")
    BY <2>1, <1>1, ReturnedTick
  <2>3. CASE e = d
    <3>1. tick'[e] = t
      BY <2>2, <2>3, <1>1
    <3> QED
      BY <2>1, <2>2, <2>3, <3>1, <1>3 DEF Busy
  <2>4. CASE e # d
    BY <2>1, <2>2, <2>4, <1>1, <1>3 DEF Busy
  <2> QED
    BY <2>3, <2>4
<1>5. ASSUME NEW d \in Dispatchers, SetsAside(d)
      PROVE  Good(e)'
  BY <1>1, <1>3, <1>5 DEF SetsAside, Busy
<1>6. ASSUME NEW d \in Dispatchers, Takes(d)
      PROVE  Good(e)'
  <2>1. CASE e = d
    BY <2>1, <1>1, <1>6 DEF Takes, Busy, Open, Stored, Terminal
  <2>2. CASE e # d
    BY <2>2, <1>1, <1>3, <1>6 DEF Takes, Busy
  <2> QED
    BY <2>1, <2>2
<1>7. ASSUME NEW d \in Dispatchers, Stores(d)
      PROVE  Good(e)'
  <2>1. ASSUME NEW j \in Jobs, job[j].status # "absent"
        PROVE  job'[j].status # "absent"
    BY <2>1, <1>1, <1>7 DEF Stores, TickRecords, Stored, Terminal
  <2>2. CASE e = d
    BY <2>2, <1>1, <1>7 DEF Stores, Busy, IdleTick
  <2>3. CASE e # d
    BY <2>1, <2>3, <1>1, <1>3, <1>7 DEF Stores, Busy
  <2> QED
    BY <2>2, <2>3
<1>8. ASSUME NEW j \in Jobs, Marks(j)
      PROVE  Good(e)'
  <2>1. PICK status \in Stored : job' = [job EXCEPT ![j].status = status]
    BY <1>8 DEF Marks
  <2>2. ASSUME NEW k \in Jobs, job[k].status # "absent"
        PROVE  job'[k].status # "absent"
    BY <2>1, <2>2, <1>1 DEF JobRecords, Stored, Terminal
  <2> QED
    BY <2>2, <1>3, <1>8 DEF Marks, Busy
<1>9. CASE Rests
  BY <1>3, <1>9 DEF Rests, Busy
<1> QED
  BY <1>4, <1>5, <1>6, <1>7, <1>8, <1>9 DEF Moves

(* The one who may write has what is stored, or what goes on from it.      *)
LEMMA HolderUpToDateKept ==
  ASSUME Records, TicksHaveJobs, HolderUpToDate, Moves
  PROVE  HolderUpToDate'
<1>1. tick \in [Dispatchers -> TickRecords] /\ job \in [Jobs -> JobRecords]
  BY DEF Records
<1> DEFINE Good(e) ==
      Holds(e) =>
        /\ tick[e].at = "advancing" => tick[e].cp = job[tick[e].job].cp
        /\ tick[e].at = "writing" => GoesOnFrom(job[tick[e].job].cp, tick[e].cp)
<1>2. SUFFICES ASSUME NEW e \in Dispatchers, Holds(e)'
               PROVE  Good(e)'
  BY DEF HolderUpToDate
<1>3. Good(e)
  BY DEF HolderUpToDate
<1>4. ASSUME NEW d \in Dispatchers, Returns(d)
      PROVE  Good(e)'
  <2>1. PICK status \in Results, cp \in Checkpoints :
          /\ tick[d].at = "advancing"
          /\ Return(d, status, cp)
          /\ UNCHANGED <<job, lease>>
          /\ GoesOnFrom(tick[d].cp, cp)
    BY <1>4 DEF Returns, StepReturns, Advances
  <2>2. PICK t \in TickRecords :
          /\ tick' = [tick EXCEPT ![d] = t]
          /\ t.at = "writing" /\ t.job = tick[d].job /\ t.cp = cp
    BY <2>1, <1>1, ReturnedTick
  <2>3. Holds(e)
    BY <2>1, <1>2 DEF Holds
  <2>4. CASE e = d
    <3>1. tick'[e] = t
      BY <2>2, <2>4, <1>1
    <3>2. GoesOnFrom(job[t.job].cp, t.cp)
      BY <2>1, <2>2, <2>3, <2>4, <1>3
    <3> QED
      BY <2>1, <2>2, <3>1, <3>2
  <2>5. CASE e # d
    <3>1. tick'[e] = tick[e] /\ job' = job
      BY <2>1, <2>2, <2>5, <1>1
    <3> QED
      BY <2>3, <3>1, <1>3
  <2> QED
    BY <2>4, <2>5
<1>5. ASSUME NEW d \in Dispatchers, SetsAside(d)
      PROVE  Good(e)'
  <2>1. CASE e = d
    BY <2>1, <1>1, <1>5 DEF SetsAside
  <2>2. CASE e # d
    <3>1. Holds(e) /\ tick'[e] = tick[e] /\ job' = job
      BY <2>2, <1>1, <1>2, <1>5 DEF SetsAside
    <3> QED
      BY <3>1, <1>3
  <2> QED
    BY <2>1, <2>2
<1>6. ASSUME NEW d \in Dispatchers, Takes(d)
      PROVE  Good(e)'
  <2>1. CASE e = d
    <3>1. PICK j \in Open :
            tick'[e].at = "advancing" /\ tick'[e].job = j /\ tick'[e].cp = job[j].cp
      BY <2>1, <1>1, <1>6 DEF Takes
    <3> QED
      BY <3>1, <1>6 DEF Takes
  <2>2. CASE e # d
    <3>1. Holds(e) /\ tick'[e] = tick[e] /\ job' = job
      BY <2>2, <1>1, <1>2, <1>6 DEF Takes, Holds
    <3> QED
      BY <3>1, <1>3
  <2> QED
    BY <2>1, <2>2
<1>7. ASSUME NEW d \in Dispatchers, Stores(d)
      PROVE  Good(e)'
  <2>1. e = d
    BY <1>2, <1>7 DEF Stores, Holds
  <2> QED
    BY <2>1, <1>1, <1>7 DEF Stores, IdleTick
<1>8. ASSUME NEW j \in Jobs, Marks(j)
      PROVE  Good(e)'
  <2>1. PICK status \in Stored : job' = [job EXCEPT ![j].status = status]
    BY <1>8 DEF Marks
  <2>2. \A k : job'[k].cp = job[k].cp
    <3>1. job[j] \in JobRecords /\ job'[j] = [job[j] EXCEPT !.status = status]
      BY <2>1, <1>1
    <3>2. job'[j].cp = job[j].cp
      BY <3>1 DEF JobRecords
    <3>3. \A k \in Jobs : k # j => job'[k] = job[k]
      BY <2>1, <1>1
    <3>4. \A k : k \notin Jobs => job'[k] = job[k]
      BY <2>1, <1>1
    <3> QED
      BY <3>2, <3>3, <3>4
  <2> QED
    BY <2>2, <1>2, <1>3, <1>8 DEF Marks, Holds
<1>9. CASE Rests
  BY <1>2, <1>3, <1>9 DEF Rests
<1> QED
  BY <1>4, <1>5, <1>6, <1>7, <1>8, <1>9 DEF Moves

(* What is stored goes on from what any dispatcher is working on.          *)
LEMMA CopyNotAheadKept ==
  ASSUME Records, TicksHaveJobs, HolderUpToDate, CopyNotAhead, Moves
  PROVE  CopyNotAhead'
<1>1. tick \in [Dispatchers -> TickRecords] /\ job \in [Jobs -> JobRecords]
  BY DEF Records
<1>2. SUFFICES ASSUME NEW e \in Dispatchers, tick'[e].at = "advancing"
               PROVE  GoesOnFrom(tick'[e].cp, job'[tick'[e].job].cp)
  BY DEF CopyNotAhead
(* A copy that was being worked on before.                                 *)
<1>3. ASSUME tick'[e] = tick[e]
      PROVE  /\ tick[e].at = "advancing"
             /\ tick[e].job \in Jobs
             /\ GoesOnFrom(tick[e].cp, job[tick[e].job].cp)
  BY <1>2, <1>3 DEF CopyNotAhead, TicksHaveJobs, Busy
<1>4. ASSUME NEW d \in Dispatchers, Returns(d)
      PROVE  GoesOnFrom(tick'[e].cp, job'[tick'[e].job].cp)
  <2>1. PICK status \in Results, cp \in Checkpoints :
          Return(d, status, cp) /\ UNCHANGED job
    BY <1>4 DEF Returns, StepReturns, Advances
  <2>2. PICK t \in TickRecords : tick' = [tick EXCEPT ![d] = t] /\ t.at = "writing"
    BY <2>1, <1>1, ReturnedTick
  <2>3. tick'[e] = tick[e]
    BY <2>2, <1>1, <1>2
  <2> QED
    BY <2>1, <2>3, <1>3
<1>5. ASSUME NEW d \in Dispatchers, SetsAside(d)
      PROVE  GoesOnFrom(tick'[e].cp, job'[tick'[e].job].cp)
  <2>1. tick'[e] = tick[e] /\ job' = job
    BY <1>1, <1>2, <1>5 DEF SetsAside
  <2> QED
    BY <2>1, <1>3
<1>6. ASSUME NEW d \in Dispatchers, Takes(d)
      PROVE  GoesOnFrom(tick'[e].cp, job'[tick'[e].job].cp)
  <2>1. CASE e = d
    <3>1. PICK j \in Open : tick'[e].job = j /\ tick'[e].cp = job[j].cp
      BY <2>1, <1>1, <1>6 DEF Takes
    <3>2. job[j].cp \in Checkpoints /\ job' = job
      BY <3>1, <1>1, <1>6 DEF Takes, Open, JobRecords
    <3> QED
      BY <3>1, <3>2, GoesOnReflexive
  <2>2. CASE e # d
    <3>1. tick'[e] = tick[e] /\ job' = job
      BY <2>2, <1>1, <1>6 DEF Takes
    <3> QED
      BY <3>1, <1>3
  <2> QED
    BY <2>1, <2>2
<1>7. ASSUME NEW d \in Dispatchers, Stores(d)
      PROVE  GoesOnFrom(tick'[e].cp, job'[tick'[e].job].cp)
  <2>1. tick'[e] = tick[e]
    BY <1>1, <1>2, <1>7 DEF Stores, IdleTick
  <2>2. /\ tick[d].job \in Jobs
        /\ GoesOnFrom(job[tick[d].job].cp, tick[d].cp)
    BY <1>7 DEF Stores, TicksHaveJobs, Busy, HolderUpToDate
  <2>3. CASE tick[e].job = tick[d].job
    <3>1. job'[tick[e].job].cp = tick[d].cp
      BY <2>2, <2>3, <1>1, <1>7 DEF Stores
    <3>2. /\ tick[e].cp \in Checkpoints
          /\ job[tick[e].job].cp \in Checkpoints
          /\ tick[d].cp \in Checkpoints
      BY <2>2, <2>3, <1>1 DEF TickRecords, JobRecords
    <3> QED
      BY <2>1, <2>2, <2>3, <3>1, <3>2, <1>3, GoesOnTransitive
  <2>4. CASE tick[e].job # tick[d].job
    <3>1. job'[tick[e].job] = job[tick[e].job]
      BY <2>1, <2>2, <2>4, <1>1, <1>3, <1>7 DEF Stores
    <3> QED
      BY <2>1, <3>1, <1>3
  <2> QED
    BY <2>3, <2>4
<1>8. ASSUME NEW j \in Jobs, Marks(j)
      PROVE  GoesOnFrom(tick'[e].cp, job'[tick'[e].job].cp)
  <2>1. PICK status \in Stored : job' = [job EXCEPT ![j].status = status]
    BY <1>8 DEF Marks
  <2>2. tick'[e] = tick[e]
    BY <1>8 DEF Marks
  <2>3. job'[tick[e].job].cp = job[tick[e].job].cp
    BY <2>1, <2>2, <1>1, <1>3 DEF JobRecords
  <2> QED
    BY <2>2, <2>3, <1>3
<1>9. CASE Rests
  BY <1>3, <1>9 DEF Rests
<1> QED
  BY <1>4, <1>5, <1>6, <1>7, <1>8, <1>9 DEF Moves

(* A checkpoint holds of what is outside, wherever it is kept.             *)
LEMMA CheckpointsGroundedKept ==
  ASSUME Records, TicksHaveJobs, CheckpointsGrounded, Moves, OutsideOK, Records'
  PROVE  CheckpointsGrounded'
<1>1. tick \in [Dispatchers -> TickRecords] /\ job \in [Jobs -> JobRecords]
  BY DEF Records
<1>2. ASSUME NEW j \in Jobs, NEW cp \in Checkpoints, NEW status, Grounded(j, cp, status)
      PROVE  Grounded(j, cp, status)'
  BY <1>2, GroundedKept DEF OutsideOK
<1>3. ASSUME NEW j \in Jobs
      PROVE  Grounded(j, job[j].cp, job[j].status)'
  <2> PICK cp : cp = job[j].cp
    OBVIOUS
  <2> PICK status : status = job[j].status
    OBVIOUS
  <2>1. cp \in Checkpoints /\ Grounded(j, cp, status)'
    BY <1>1, <1>2 DEF CheckpointsGrounded, JobRecords
  <2>2. CASE job'[j].cp = cp /\ job'[j].status = status
    BY <2>1, <2>2 DEF Grounded, OfNativeJob, OfRelayJob, AtWorker
  <2>3. ASSUME NEW d \in Dispatchers, Stores(d), tick[d].job = j
        PROVE  Grounded(j, job[j].cp, job[j].status)'
    <3> PICK written : written = tick[d].cp
      OBVIOUS
    <3> PICK result : result = tick[d].status
      OBVIOUS
    <3>1. written \in Checkpoints /\ Grounded(j, written, result)
      BY <2>3, <1>1 DEF Stores, CheckpointsGrounded, Busy, TickRecords
    <3>2. Grounded(j, written, result)'
      BY <3>1, <1>2
    <3>3. job'[j].cp = written /\ job'[j].status = result
      BY <2>3, <1>1 DEF Stores
    <3> QED
      BY <3>2, <3>3 DEF Grounded, OfNativeJob, OfRelayJob, AtWorker
  <2>4. ASSUME Marks(j)
        PROVE  Grounded(j, job[j].cp, job[j].status)'
    <3>1. job'[j].cp = cp /\ (job'[j].status = status \/ status # "completed")
      BY <2>4, <1>1 DEF Marks, JobRecords, Terminal
    <3> QED
      BY <2>1, <3>1 DEF Grounded, OfNativeJob, OfRelayJob, AtWorker
  <2>5. ASSUME NEW k \in Jobs, Marks(k), k # j
        PROVE  job'[j] = job[j]
    BY <2>5, <1>1 DEF Marks
  <2>6. ASSUME NEW d \in Dispatchers, Stores(d), tick[d].job # j
        PROVE  job'[j] = job[j]
    BY <2>6, <1>1 DEF Stores
  <2>7. ASSUME NEW d \in Dispatchers, Returns(d) \/ SetsAside(d) \/ Takes(d)
        PROVE  job' = job
    BY <2>7 DEF Returns, StepReturns, Advances, SetsAside, Takes
  <2> QED
    BY <2>2, <2>3, <2>4, <2>5, <2>6, <2>7 DEF Moves, Rests
<1>4. ASSUME NEW e \in Dispatchers, Busy(e)'
      PROVE  Grounded(tick[e].job, tick[e].cp, tick[e].status)'
  <2>1. CASE tick'[e] = tick[e]
    <3> PICK j : j = tick[e].job
      OBVIOUS
    <3> PICK cp : cp = tick[e].cp
      OBVIOUS
    <3> PICK status : status = tick[e].status
      OBVIOUS
    <3>1. j \in Jobs /\ cp \in Checkpoints /\ Grounded(j, cp, status)
      BY <2>1, <1>1, <1>4 DEF Busy, TicksHaveJobs, CheckpointsGrounded, TickRecords
    <3>2. Grounded(j, cp, status)'
      BY <3>1, <1>2
    <3> QED
      BY <2>1, <3>2 DEF Grounded, OfNativeJob, OfRelayJob, AtWorker, Reported
  <2>2. ASSUME Returns(e)
        PROVE  Grounded(tick[e].job, tick[e].cp, tick[e].status)'
    <3>1. PICK j \in Jobs, status \in Results, cp \in Checkpoints :
            j = tick[e].job /\ Return(e, status, cp) /\ Grounded(j, cp, status)'
      BY <2>2 DEF Returns, StepReturns, Advances
    <3>2. tick'[e].job = j /\ tick'[e].cp = cp /\ tick'[e].status = status
      BY <3>1, <1>1, ReturnedTick
    <3> QED
      BY <3>1, <3>2 DEF Grounded, OfNativeJob, OfRelayJob, AtWorker, Reported
  <2>3. ASSUME Takes(e)
        PROVE  Grounded(tick[e].job, tick[e].cp, tick[e].status)'
    <3>1. PICK j \in Open : tick'[e].job = j /\ tick'[e].cp = job[j].cp
                            /\ tick'[e].status = job[j].status
      BY <2>3, <1>1 DEF Takes
    <3> PICK cp : cp = job[j].cp
      OBVIOUS
    <3> PICK status : status = job[j].status
      OBVIOUS
    <3>2. j \in Jobs /\ cp \in Checkpoints /\ Grounded(j, cp, status)
      BY <1>1 DEF CheckpointsGrounded, JobRecords, Open
    <3>3. Grounded(j, cp, status)'
      BY <3>2, <1>2
    <3> QED
      BY <3>1, <3>3 DEF Grounded, OfNativeJob, OfRelayJob, AtWorker, Reported
  <2>4. ASSUME SetsAside(e) \/ Stores(e)
        PROVE  FALSE
    BY <2>4, <1>1, <1>4 DEF SetsAside, Stores, Busy, IdleTick
  <2>5. ASSUME NEW d \in Dispatchers, d # e,
               Returns(d) \/ SetsAside(d) \/ Takes(d) \/ Stores(d)
        PROVE  tick'[e] = tick[e]
    <3>1. CASE Returns(d)
      BY <3>1, <2>5, <1>1 DEF Returns, StepReturns, Advances, Return
    <3>2. CASE SetsAside(d) \/ Takes(d) \/ Stores(d)
      BY <3>2, <2>5, <1>1 DEF SetsAside, Takes, Stores
    <3> QED
      BY <3>1, <3>2, <2>5
  <2> QED
    BY <2>1, <2>2, <2>3, <2>4, <2>5 DEF Moves, Marks, Rests
<1> QED
  BY <1>3, <1>4 DEF CheckpointsGrounded

(* What completed a job was there when the result came back, and stays.    *)
LEMMA CompletionsBackedKept ==
  ASSUME Records, TicksHaveJobs, CheckpointsGrounded, CompletionsBacked, Moves,
         OutsideOK, Records'
  PROVE  CompletionsBacked'
<1>1. /\ tick \in [Dispatchers -> TickRecords]
      /\ job \in [Jobs -> JobRecords]
  BY DEF Records
<1>2. ASSUME NEW j \in Jobs, NEW cp \in Checkpoints, Backed(j, cp)
      PROVE  Backed(j, cp)'
  BY <1>2, GroundedKept DEF OutsideOK
<1>3. ASSUME NEW j \in Jobs, team'[j].report = "valid"
      PROVE  team'[j].proved
  BY <1>3 DEF CompletionsBacked, OutsideOK, TeamGrows
<1>4. ASSUME NEW j \in Jobs, job'[j].status = "completed"
      PROVE  job'[j].report /\ Backed(j, job[j].cp)'
  <2>1. CASE job'[j] = job[j]
    <3> PICK cp : cp = job[j].cp
      OBVIOUS
    <3>1. cp \in Checkpoints /\ Backed(j, cp) /\ job[j].report
      BY <2>1, <1>1, <1>4 DEF CompletionsBacked, JobRecords
    <3>2. Backed(j, cp)'
      BY <3>1, <1>2
    <3> QED
      BY <2>1, <3>1, <3>2 DEF Backed
  <2>2. ASSUME NEW d \in Dispatchers, Stores(d), tick[d].job = j
        PROVE  job'[j].report /\ Backed(j, job[j].cp)'
    <3> PICK cp : cp = tick[d].cp
      OBVIOUS
    <3>1. job'[j].cp = cp /\ job'[j].status = tick[d].status /\ job'[j].report = tick[d].report
      BY <2>2, <1>1 DEF Stores
    <3>2. cp \in Checkpoints /\ Backed(j, cp) /\ tick[d].report
      BY <2>2, <3>1, <1>1, <1>4
      DEF Stores, CompletionsBacked, TicksHaveJobs, Busy, TickRecords
    <3>3. Backed(j, cp)'
      BY <3>2, <1>2
    <3> QED
      BY <3>1, <3>2, <3>3 DEF Backed
  <2>3. ASSUME NEW k \in Jobs, Marks(k)
        PROVE  job'[j] = job[j]
    <3>1. CASE k # j
      BY <2>3, <3>1, <1>1 DEF Marks
    <3>2. CASE k = j
      <4>1. PICK status \in Stored :
              /\ status = job[j].status \/ status \in {"queued", "canceled"}
              /\ job' = [job EXCEPT ![j].status = status]
        BY <2>3, <3>2 DEF Marks
      <4>2. status = job[j].status
        BY <4>1, <1>1, <1>4 DEF JobRecords
      <4> QED
        BY <4>1, <4>2, <1>1 DEF JobRecords
    <3> QED
      BY <3>1, <3>2
  <2>4. ASSUME NEW d \in Dispatchers, Stores(d), tick[d].job # j
        PROVE  job'[j] = job[j]
    BY <2>4, <1>1 DEF Stores
  <2>5. ASSUME NEW d \in Dispatchers, Returns(d) \/ SetsAside(d) \/ Takes(d)
        PROVE  job' = job
    BY <2>5 DEF Returns, StepReturns, Advances, SetsAside, Takes
  <2> QED
    BY <2>1, <2>2, <2>3, <2>4, <2>5 DEF Moves, Rests
<1>5. ASSUME NEW e \in Dispatchers, tick'[e].at = "writing", tick'[e].status = "completed"
      PROVE  Backed(tick[e].job, tick[e].cp)'
  <2>1. CASE tick'[e] = tick[e]
    <3> PICK j : j = tick[e].job
      OBVIOUS
    <3> PICK cp : cp = tick[e].cp
      OBVIOUS
    <3>1. j \in Jobs /\ cp \in Checkpoints /\ Backed(j, cp)
      BY <2>1, <1>1, <1>5 DEF CompletionsBacked, TicksHaveJobs, Busy, TickRecords
    <3>2. Backed(j, cp)'
      BY <3>1, <1>2
    <3> QED
      BY <2>1, <3>2 DEF Backed, Reported
  <2>2. ASSUME Returns(e)
        PROVE  Backed(tick[e].job, tick[e].cp)'
    <3>1. PICK j \in Jobs, status \in Results, cp \in Checkpoints :
            /\ j = tick[e].job
            /\ Return(e, status, cp)
            /\ status = "completed" => Backed(j, cp)'
      BY <2>2 DEF Returns, StepReturns, Advances
    <3>2. tick'[e].job = j /\ tick'[e].cp = cp /\ tick'[e].status = status
      BY <3>1, <1>1, ReturnedTick
    <3> QED
      BY <3>1, <3>2, <1>5 DEF Backed, Reported
  <2>3. ASSUME SetsAside(e) \/ Takes(e) \/ Stores(e)
        PROVE  FALSE
    BY <2>3, <1>1, <1>5 DEF SetsAside, Takes, Stores, IdleTick
  <2>4. ASSUME NEW d \in Dispatchers, d # e,
               Returns(d) \/ SetsAside(d) \/ Takes(d) \/ Stores(d)
        PROVE  tick'[e] = tick[e]
    <3>1. CASE Returns(d)
      BY <3>1, <2>4, <1>1 DEF Returns, StepReturns, Advances, Return
    <3>2. CASE SetsAside(d) \/ Takes(d) \/ Stores(d)
      BY <3>2, <2>4, <1>1 DEF SetsAside, Takes, Stores
    <3> QED
      BY <3>1, <3>2, <2>4
  <2> QED
    BY <2>1, <2>2, <2>3, <2>4 DEF Moves, Marks, Rests
<1> QED
  BY <1>3, <1>4, <1>5 DEF CompletionsBacked

-----------------------------------------------------------------------------
(* The workers' rooms change in two ways: a dispatcher asks a worker under *)
(* the credential its copy is bound to, and the stored checkpoint with it  *)
(* if it is one of this backend; or a worker that was asked answers.       *)
RequestOf(bearer) == [kind |-> "request", credential |-> bearer]

Posts(j, r, e) == log' = [log EXCEPT ![j][r] = Append(@, e)]

AsksWorker(d, j, r) ==
  LET request == RequestOf(tick[d].cp.credential) IN
  /\ BoundCopy(d, j)
  /\ request \in Events
  /\ request \notin ToSet(log[j][r])
  /\ Posts(j, r, request)
  /\ AskedUnder(job[j].cp, r, request)
  /\ job' = job

WorkerReplies(j, r) ==
  /\ \E e \in Events : e.kind # "request" /\ Posts(j, r, e)
  /\ Asked(j, r) # {}
  /\ UNCHANGED <<job, tick, lease>>

(* Which events of a room are requests, and which are not, after one more. *)
LEMMA EventsSorted ==
  ASSUME log \in [Jobs -> [Workers -> Seq(Events)]],
         NEW j \in Jobs, NEW r \in Workers, NEW e \in Events,
         Posts(j, r, e),
         NEW k \in Jobs, NEW s \in Workers
  PROVE  /\ Asked(k, s)' = IF k = j /\ s = r /\ e.kind = "request"
                           THEN Asked(k, s) \cup {Len(log[j][r]) + 1} ELSE Asked(k, s)
         /\ Answered(k, s)' = IF k = j /\ s = r /\ e.kind # "request"
                              THEN Answered(k, s) \cup {Len(log[j][r]) + 1} ELSE Answered(k, s)
         /\ \A i \in Asked(k, s) : log'[k][s][i] = log[k][s][i]
         /\ e.kind = "request" => log'[j][r][Len(log[j][r]) + 1] = e
<1>1. /\ log'[j][r] = Append(log[j][r], e)
      /\ (k # j \/ s # r) => log'[k][s] = log[k][s]
      /\ log[j][r] \in Seq(Events)
  BY OneMoreEvent DEF Posts
<1> PICK room : room = log[j][r]
  OBVIOUS
<1>2. /\ Len(room) \in Nat
      /\ Len(log'[j][r]) = Len(room) + 1
      /\ \A i \in 1..Len(room) : log'[j][r][i] = room[i]
      /\ log'[j][r][Len(room) + 1] = e
  BY <1>1
<1>3. CASE k = j /\ s = r
  <2>1. \A i : i \in 1..(Len(room) + 1) <=> (i \in 1..Len(room) \/ i = Len(room) + 1)
    BY <1>2
  <2>2. Asked(j, r)' = {i \in 1..(Len(room) + 1) : log'[j][r][i].kind = "request"}
    BY <1>2 DEF Asked
  <2>3. Answered(j, r)' = {i \in 1..(Len(room) + 1) : log'[j][r][i].kind # "request"}
    BY <1>2 DEF Answered
  <2>4. Asked(j, r) = {i \in 1..Len(room) : room[i].kind = "request"}
    BY DEF Asked
  <2>5. Answered(j, r) = {i \in 1..Len(room) : room[i].kind # "request"}
    BY DEF Answered
  <2>6. Asked(j, r)' = IF e.kind = "request" THEN Asked(j, r) \cup {Len(room) + 1}
                       ELSE Asked(j, r)
    BY <2>1, <2>2, <2>4, <1>2
  <2>7. Answered(j, r)' = IF e.kind # "request" THEN Answered(j, r) \cup {Len(room) + 1}
                          ELSE Answered(j, r)
    BY <2>1, <2>3, <2>5, <1>2
  <2> QED
    BY <2>4, <2>6, <2>7, <1>2, <1>3
<1>4. CASE k # j \/ s # r
  BY <1>1, <1>2, <1>4 DEF Asked, Answered
<1> QED
  BY <1>3, <1>4

(* What a checkpoint says of a request, those say that go on from it.      *)
LEMMA AskedUnderGoesOn ==
  ASSUME NEW old \in Checkpoints, NEW new \in Checkpoints, GoesOnFrom(old, new),
         NEW r \in Workers, NEW request, AskedUnder(old, r, request)
  PROVE  AskedUnder(new, r, request)
<1>1. old # Nothing
  BY DEF AskedUnder
<1>2. new.backend \in {"native", "matrix"} /\ new # Nothing
  <2>1. new.backend \in {"native", "matrix"}
    BY <1>1 DEF GoesOnFrom
  <2> QED
    BY <2>1, CheckpointKinds
<1>3. CASE new.backend = "matrix"
  <2>1. old.backend = "matrix" /\ old \in RelayCheckpoints /\ new \in RelayCheckpoints
    BY <1>1, <1>3, CheckpointKinds DEF GoesOnFrom
  <2>2. /\ request.credential = old.credential
        /\ old.credential # 0
        /\ old.stage >= r
        /\ old.stage = r => old.cursor # 0
    BY <2>1 DEF AskedUnder
  <2>3. new.credential = old.credential
    BY <1>1, <1>3, <2>1, <2>2 DEF GoesOnFrom
  <2>4. new.stage >= r /\ (new.stage = r => new.cursor # 0)
    BY <1>1, <1>3, <2>1, <2>2, RelayAssumption DEF GoesOnFrom, RelayCheckpoints, Workers
  <2> QED
    BY <1>2, <2>2, <2>3, <2>4 DEF AskedUnder
<1>4. CASE new.backend = "native"
  BY <1>2, <1>4 DEF AskedUnder
<1> QED
  BY <1>2, <1>3, <1>4

(* A log changes only when a worker is asked, or answers.                  *)
LEMMA LogChanges ==
  ASSUME Records, TicksHaveJobs, CopyNotAhead, CheckpointsGrounded, [Next]_vars
  PROVE  \/ UNCHANGED log
         \/ \E j \in Jobs, r \in Workers :
              (\E d \in Dispatchers : AsksWorker(d, j, r)) \/ WorkerReplies(j, r)
<1>1. log \in [Jobs -> [Workers -> Seq(Events)]]
  BY DEF Records
<1>2. ASSUME NEW d \in Dispatchers, Send(d) \/ SendFails(d)
      PROVE  \/ UNCHANGED log
             \/ \E j \in Jobs, r \in Workers : AsksWorker(d, j, r)
  <2> PICK j : j = tick[d].job
    OBVIOUS
  <2> PICK cp : cp = tick[d].cp
    OBVIOUS
  <2> PICK stored : stored = job[j].cp
    OBVIOUS
  <2> PICK bearer : bearer = setting[d].bearer
    OBVIOUS
  <2>1. /\ tick[d].at = "advancing"
        /\ Started(cp).cursor # 0
        /\ cp.backend \in {"none", "matrix"}
        /\ Started(cp).credential \in {0, bearer}
        /\ Request(j, Started(cp).stage, bearer)
        /\ job' = job
    BY <1>2 DEF Send, SendFails, Relay, Dispatchable, Bound, RelayKeeps
  <2>2. /\ j \in Jobs
        /\ cp \in Checkpoints
        /\ OfRelayJob(j, cp)
        /\ AtWorker("running", cp)
        /\ stored \in Checkpoints
    BY <2>1, AdvancingCopy DEF Grounded, Records, JobRecords
  <2>3. cp # Nothing /\ Started(cp) = cp
    BY <2>1 DEF Started, RelayStart
  <2>4. cp.backend = "matrix" /\ cp \in RelayCheckpoints
    BY <2>1, <2>2, <2>3, CheckpointKinds
  <2>5. /\ cp.stage \in Workers
        /\ cp.cursor # 0
        /\ cp.credential = bearer
        /\ bearer \in Nat \ {0}
    BY <2>1, <2>2, <2>3, <2>4, SettingsHaveBearers DEF OfRelayJob, AtWorker
  <2> PICK request : request = RequestOf(bearer)
    OBVIOUS
  <2>6. request \in Events /\ request.credential = bearer
    BY <2>5 DEF RequestOf, Events
  <2>7. AskedUnder(cp, cp.stage, request)
    BY <2>3, <2>5, <2>6 DEF AskedUnder, Workers
  <2>8. AskedUnder(stored, cp.stage, request)
    BY <2>1, <2>2, <2>5, <2>7, AskedUnderGoesOn DEF CopyNotAhead
  <2>9. \/ UNCHANGED log
        \/ /\ Posts(j, cp.stage, request)
           /\ request \notin ToSet(log[j][cp.stage])
    BY <2>1, <2>3 DEF Request, RequestOf, Posts
  <2>10. BoundCopy(d, j)
    BY <2>1, <2>4, <2>5 DEF BoundCopy
  <2> QED
    BY <2>1, <2>2, <2>5, <2>6, <2>8, <2>9, <2>10 DEF AsksWorker
<1>3. ASSUME NEW j \in Jobs, NEW r \in Workers, WorkerAnswers(j, r)
      PROVE  WorkerReplies(j, r)
  <2>1. PICK kind \in {"report", "invalid"} :
          log' = [log EXCEPT ![j][r] = Append(@, [kind |-> kind, credential |-> 0])]
    BY <1>3 DEF WorkerAnswers
  <2> PICK e : e = [kind |-> kind, credential |-> 0]
    OBVIOUS
  <2>2. e \in Events /\ e.kind # "request" /\ Posts(j, r, e)
    BY <2>1 DEF Events, Posts
  <2>3. Asked(j, r) # {}
    <3>1. Len(log[j][r]) \in Nat
      BY <1>1
    <3>2. IsFiniteSet(Answered(j, r))
      <4>1. IsFiniteSet(1..Len(log[j][r]))
        BY <3>1, FS_Interval
      <4>2. Answered(j, r) \subseteq 1..Len(log[j][r])
        BY DEF Answered
      <4> QED
        BY <4>1, <4>2, FS_Subset
    <3>3. Cardinality(Answered(j, r)) \in Nat
      BY <3>2, FS_CardinalityType
    <3>4. Cardinality({}) = 0
      BY FS_EmptySet
    <3>5. Cardinality(Answered(j, r)) < Cardinality(Asked(j, r))
      BY <1>3 DEF WorkerAnswers
    <3> QED
      BY <3>3, <3>4, <3>5
  <2> QED
    BY <2>2, <2>3, <1>3 DEF WorkerReplies, WorkerAnswers, queueVars
<1>4. CASE QueueStep /\ OfQueue
  BY <1>4 DEF OfQueue
<1>5. ASSUME NEW d \in Dispatchers, RelayStep(d) \/ ChangeCredential(d)
      PROVE  \/ UNCHANGED log
             \/ \E j \in Jobs, r \in Workers : AsksWorker(d, j, r)
  BY <1>2, <1>5
  DEF RelayStep, CredentialChanged, Prepare, Poll, GiveUp, ChangeCredential
<1>6. CASE RelayOther
  BY <1>3, <1>6 DEF RelayOther, Workers
<1>7. CASE OfNative \/ UNCHANGED vars
  BY <1>7 DEF OfNative, vars
<1> QED
  BY <1>4, <1>5, <1>6, <1>7 DEF Next

(* A stored checkpoint is only ever replaced by one that goes on from it.  *)
LEMMA StoredGoesOn ==
  ASSUME Records, TicksHaveJobs, HolderUpToDate, Moves, NEW j \in Jobs
  PROVE  GoesOnFrom(job[j].cp, job'[j].cp)
<1>1. job \in [Jobs -> JobRecords] /\ job[j].cp \in Checkpoints
  BY DEF Records, JobRecords
<1>2. CASE job'[j].cp = job[j].cp
  BY <1>1, <1>2, GoesOnReflexive
<1>3. ASSUME NEW d \in Dispatchers, Stores(d)
      PROVE  GoesOnFrom(job[j].cp, job'[j].cp)
  <2>1. CASE tick[d].job = j
    BY <2>1, <1>1, <1>3 DEF Stores, HolderUpToDate
  <2>2. CASE tick[d].job # j
    BY <2>2, <1>1, <1>2, <1>3 DEF Stores
  <2> QED
    BY <2>1, <2>2
<1>4. ASSUME NEW k \in Jobs, Marks(k)
      PROVE  job'[j].cp = job[j].cp
  BY <1>1, <1>4 DEF Marks, JobRecords
<1>5. ASSUME NEW d \in Dispatchers, Returns(d) \/ SetsAside(d) \/ Takes(d)
      PROVE  job' = job
  BY <1>5 DEF Returns, StepReturns, Advances, SetsAside, Takes
<1> QED
  BY <1>2, <1>3, <1>4, <1>5 DEF Moves, Rests

(* Two copies that are bound are bound to the same credential: the one     *)
(* that was taken later goes on from the other.                            *)
LEMMA CopiesBoundKept ==
  ASSUME Records, CopyNotAhead, CopiesBound, Moves
  PROVE  CopiesBound'
<1>1. SUFFICES ASSUME NEW j \in Jobs, NEW d \in Dispatchers, NEW e \in Dispatchers,
                      BoundCopy(d, j)', BoundCopy(e, j)'
               PROVE  tick'[d].cp.credential = tick'[e].cp.credential
  BY DEF CopiesBound
<1>2. ASSUME NEW f \in Dispatchers, BoundCopy(f, j)'
      PROVE  (tick'[f] = tick[f] /\ BoundCopy(f, j)) \/ tick'[f].cp = job[j].cp
  BY <1>2, CopiesAfter DEF BoundCopy
(* What is stored kept the credential of a copy that was there before.     *)
<1>3. ASSUME NEW f \in Dispatchers, BoundCopy(f, j), job[j].cp.backend = "matrix"
      PROVE  job[j].cp.credential = tick[f].cp.credential
  <2>1. GoesOnFrom(tick[f].cp, job[j].cp) /\ tick[f].cp # Nothing
    BY <1>3 DEF BoundCopy, CopyNotAhead, Nothing
  <2> QED
    BY <2>1, <1>3 DEF GoesOnFrom, BoundCopy
<1>4. tick'[d].cp.backend = "matrix" /\ tick'[e].cp.backend = "matrix"
  BY <1>1 DEF BoundCopy
<1>5. CASE BoundCopy(d, j) /\ tick'[d] = tick[d] /\ BoundCopy(e, j) /\ tick'[e] = tick[e]
  BY <1>5 DEF CopiesBound
<1>6. CASE BoundCopy(d, j) /\ tick'[d] = tick[d] /\ tick'[e].cp = job[j].cp
  BY <1>3, <1>4, <1>6
<1>7. CASE tick'[d].cp = job[j].cp /\ BoundCopy(e, j) /\ tick'[e] = tick[e]
  BY <1>3, <1>4, <1>7
<1>8. CASE tick'[d].cp = job[j].cp /\ tick'[e].cp = job[j].cp
  BY <1>8
<1> QED
  BY <1>1, <1>2, <1>5, <1>6, <1>7, <1>8

(* Requests stay bound to what the stored checkpoint and the copies say.   *)
LEMMA RequestsBoundKept ==
  ASSUME Records, TicksHaveJobs, HolderUpToDate, CopyNotAhead, CheckpointsGrounded,
         CopiesBound, RequestsBound, [Next]_vars, Moves, Records'
  PROVE  RequestsBound'
<1>1. log \in [Jobs -> [Workers -> Seq(Events)]]
  BY DEF Records
<1>2. SUFFICES ASSUME NEW j \in Jobs, NEW r \in Workers, NEW i \in Asked(j, r)'
               PROVE  /\ AskedUnder(job'[j].cp, r, log'[j][r][i])
                      /\ \A e \in Dispatchers :
                           BoundCopy(e, j)' => log'[j][r][i].credential = tick'[e].cp.credential
  BY DEF RequestsBound, AskedUnder
<1> PICK request : request = log'[j][r][i]
  OBVIOUS
(* It is enough that what was stored, and the copies there were, said so.  *)
<1>3. ASSUME AskedUnder(job[j].cp, r, request),
             \A e \in Dispatchers :
               BoundCopy(e, j) => request.credential = tick[e].cp.credential
      PROVE  /\ AskedUnder(job'[j].cp, r, request)
             /\ \A e \in Dispatchers :
                  BoundCopy(e, j)' => request.credential = tick'[e].cp.credential
  <2>1. job[j].cp \in Checkpoints /\ job'[j].cp \in Checkpoints
    BY StoredGoesOn DEF Records, JobRecords
  <2>2. AskedUnder(job'[j].cp, r, request)
    BY <2>1, <1>3, StoredGoesOn, AskedUnderGoesOn
  <2>3. ASSUME NEW e \in Dispatchers, BoundCopy(e, j)'
        PROVE  request.credential = tick'[e].cp.credential
    <3>1. CASE tick'[e] = tick[e]
      BY <2>3, <3>1, <1>3 DEF BoundCopy
    <3>2. CASE tick'[e].cp = job[j].cp
      BY <2>3, <3>2, <1>3 DEF BoundCopy, AskedUnder
    <3> QED
      BY <2>3, <3>1, <3>2, CopiesAfter DEF BoundCopy
  <2> QED
    BY <2>2, <2>3
<1>4. CASE i \in Asked(j, r) /\ request = log[j][r][i]
  BY <1>3, <1>4 DEF RequestsBound
<1>5. CASE UNCHANGED log
  BY <1>4, <1>5 DEF Asked
<1>6. ASSUME NEW d \in Dispatchers, NEW k \in Jobs, NEW s \in Workers, AsksWorker(d, k, s)
      PROVE  \/ i \in Asked(j, r) /\ request = log[j][r][i]
             \/ /\ AskedUnder(job[j].cp, r, request)
                /\ \A e \in Dispatchers :
                     BoundCopy(e, j) => request.credential = tick[e].cp.credential
  <2> PICK e : e = RequestOf(tick[d].cp.credential)
    OBVIOUS
  <2>1. e \in Events /\ Posts(k, s, e) /\ e.kind = "request"
    BY <1>6 DEF AsksWorker, RequestOf
  <2>2. CASE i \in Asked(j, r)
    BY <2>1, <2>2, <1>1, EventsSorted
  <2>3. CASE i \notin Asked(j, r)
    <3>1. j = k /\ r = s /\ request = e
      BY <2>1, <2>3, <1>1, EventsSorted
    <3>2. BoundCopy(d, j) /\ request.credential = tick[d].cp.credential
      BY <3>1, <1>6 DEF AsksWorker, RequestOf
    <3> QED
      BY <3>1, <3>2, <1>6 DEF AsksWorker, CopiesBound
  <2> QED
    BY <2>2, <2>3
<1>7. ASSUME NEW k \in Jobs, NEW s \in Workers, WorkerReplies(k, s)
      PROVE  i \in Asked(j, r) /\ request = log[j][r][i]
  BY <1>1, <1>7, EventsSorted DEF WorkerReplies
<1> QED
  BY <1>3, <1>4, <1>5, <1>6, <1>7, LogChanges

(* A second request would be made under the credential of the first, and   *)
(* the room would recognise it.                                            *)
LEMMA RequestsOnceKept ==
  ASSUME Records, TicksHaveJobs, CopyNotAhead, CheckpointsGrounded,
         RequestsBound, RequestsOnce, [Next]_vars
  PROVE  RequestsOnce'
<1>1. log \in [Jobs -> [Workers -> Seq(Events)]]
  BY DEF Records
<1>2. SUFFICES ASSUME NEW j \in Jobs, NEW r \in Workers,
                      NEW i \in Asked(j, r)', NEW k \in Asked(j, r)'
               PROVE  i = k
  BY DEF RequestsOnce
<1>3. CASE Asked(j, r)' = Asked(j, r)
  BY <1>3 DEF RequestsOnce
<1>4. ASSUME NEW d \in Dispatchers, NEW p \in Jobs, NEW s \in Workers, AsksWorker(d, p, s)
      PROVE  i = k
  <2> PICK bearer : bearer = tick[d].cp.credential
    OBVIOUS
  <2>1. /\ RequestOf(bearer) \in Events
        /\ RequestOf(bearer) \notin ToSet(log[p][s])
        /\ Posts(p, s, RequestOf(bearer))
        /\ BoundCopy(d, p)
    BY <1>4 DEF AsksWorker
  <2>2. CASE j # p \/ r # s
    BY <2>1, <2>2, <1>1, <1>3, EventsSorted
  <2>3. CASE j = p /\ r = s
    <3>1. Asked(j, r) = {}
      <4>1. SUFFICES ASSUME NEW m \in Asked(j, r) PROVE FALSE
        OBVIOUS
      <4>2. /\ log[j][r][m].credential = bearer
            /\ log[j][r][m].kind = "request"
            /\ m \in 1..Len(log[j][r])
        BY <2>1, <2>3 DEF RequestsBound, Asked
      <4>3. log[j][r] \in Seq(Events) /\ log[j][r][m] \in Events
        BY <4>2, <1>1
      <4>4. log[j][r][m] = RequestOf(bearer)
        BY <4>2, <4>3 DEF Events, RequestOf
      <4>5. m \in DOMAIN log[j][r]
        BY <4>2, <4>3
      <4>6. RequestOf(bearer) \in ToSet(log[j][r])
        BY <4>4, <4>5 DEF ToSet
      <4> QED
        BY <2>1, <2>3, <4>6
    <3>2. Asked(j, r)' = Asked(j, r) \cup {Len(log[j][r]) + 1}
      BY <2>1, <2>3, <1>1, EventsSorted DEF RequestOf
    <3> QED
      BY <3>1, <3>2
  <2> QED
    BY <2>2, <2>3
<1>5. ASSUME NEW p \in Jobs, NEW s \in Workers, WorkerReplies(p, s)
      PROVE  Asked(j, r)' = Asked(j, r)
  BY <1>1, <1>5, EventsSorted DEF WorkerReplies
<1>6. CASE UNCHANGED log
  BY <1>3, <1>6 DEF Asked
<1> QED
  BY <1>3, <1>4, <1>5, <1>6, LogChanges

(* Nobody answers who was not asked.                                       *)
LEMMA AnswersAskedKept ==
  ASSUME Records, TicksHaveJobs, CopyNotAhead, CheckpointsGrounded,
         AnswersAsked, [Next]_vars
  PROVE  AnswersAsked'
<1>1. log \in [Jobs -> [Workers -> Seq(Events)]]
  BY DEF Records
<1>2. SUFFICES ASSUME NEW j \in Jobs, NEW r \in Workers, Answered(j, r)' # {}
               PROVE  Asked(j, r)' # {}
  BY DEF AnswersAsked
<1>3. CASE UNCHANGED log
  BY <1>2, <1>3 DEF AnswersAsked, Asked, Answered
<1>4. ASSUME NEW d \in Dispatchers, NEW p \in Jobs, NEW s \in Workers, AsksWorker(d, p, s)
      PROVE  Asked(j, r)' # {}
  <2> PICK e : e = RequestOf(tick[d].cp.credential)
    OBVIOUS
  <2>1. e \in Events /\ Posts(p, s, e) /\ e.kind = "request"
    BY <1>4 DEF AsksWorker, RequestOf
  <2>2. /\ Answered(j, r)' = Answered(j, r)
        /\ Asked(j, r)' = Asked(j, r) \/ Asked(j, r)' = Asked(j, r) \cup {Len(log[j][r]) + 1}
    BY <2>1, <1>1, EventsSorted
  <2> QED
    BY <2>2, <1>2 DEF AnswersAsked
<1>5. ASSUME NEW p \in Jobs, NEW s \in Workers, WorkerReplies(p, s)
      PROVE  Asked(j, r)' # {}
  <2>1. PICK e \in Events : e.kind # "request" /\ Posts(p, s, e)
    BY <1>5 DEF WorkerReplies
  <2>2. /\ Asked(j, r)' = Asked(j, r)
        /\ (j # p \/ r # s) => Answered(j, r)' = Answered(j, r)
    BY <2>1, <1>1, EventsSorted
  <2> QED
    BY <2>2, <1>2, <1>5 DEF AnswersAsked, WorkerReplies
<1> QED
  BY <1>3, <1>4, <1>5, LogChanges

(* An answer that comes lies behind every cursor there is.                 *)
LEMMA NotSkippedOutside ==
  ASSUME Records, TicksHaveJobs, CopyNotAhead, CheckpointsGrounded, [Next]_vars,
         NEW j \in Jobs, NEW cp \in Checkpoints, OfRelayJob(j, cp), NotSkipped(j, cp)
  PROVE  NotSkipped(j, cp)'
<1>1. log \in [Jobs -> [Workers -> Seq(Events)]]
  BY DEF Records
<1>2. SUFFICES ASSUME cp.backend = "matrix", cp.cursor # 0, cp.stage \in Workers,
                      NEW i \in Answered(j, cp.stage)'
               PROVE  i >= cp.cursor
  BY DEF NotSkipped
<1> PICK stage : stage = cp.stage
  OBVIOUS
<1>3. /\ stage \in Workers
      /\ cp.cursor \in Nat
      /\ cp.cursor <= Len(log[j][stage]) + 1
      /\ Len(log[j][stage]) \in Nat
      /\ \A k \in Answered(j, stage) : k >= cp.cursor
  BY <1>1, <1>2, CheckpointKinds DEF OfRelayJob, NotSkipped, RelayCheckpoints
<1>4. i \in Answered(j, stage)'
  BY <1>2
<1>5. CASE UNCHANGED log
  BY <1>3, <1>4, <1>5 DEF Answered
<1>6. ASSUME NEW p \in Jobs, NEW s \in Workers, NEW e \in Events, Posts(p, s, e)
      PROVE  i \in Answered(j, stage) \/ i = Len(log[j][stage]) + 1
  <2>1. CASE j = p /\ stage = s
    <3>1. \/ Answered(j, stage)' = Answered(j, stage) \cup {Len(log[j][stage]) + 1}
          \/ Answered(j, stage)' = Answered(j, stage)
      BY <2>1, <1>1, <1>3, <1>6, EventsSorted
    <3> QED
      BY <3>1, <1>4
  <2>2. CASE j # p \/ stage # s
    BY <2>2, <1>1, <1>3, <1>4, <1>6, EventsSorted
  <2> QED
    BY <2>1, <2>2
<1>7. CASE i \in Answered(j, stage) \/ i = Len(log[j][stage]) + 1
  BY <1>3, <1>7
<1> QED
  BY <1>1, <1>5, <1>6, <1>7, LogChanges DEF AsksWorker, WorkerReplies

(* The one who may write moves the cursor only where nothing lies before   *)
(* it: before the worker was asked, or over events that are no answers.    *)
LEMMA HolderSkipsNothing ==
  ASSUME Records, TicksHaveJobs, HolderUpToDate, CopyNotAhead, CheckpointsGrounded,
         CompletionsBacked, RequestsBound, AnswersAsked, NothingSkipped,
         [Next]_vars, NEW d \in Dispatchers, Holds(d), tick[d].at = "advancing",
         BackendStep(d), NEW j, j = tick[d].job, NEW c, c = tick'[d].cp
  PROVE  NotSkipped(j, c)'
<1> PICK old : old = tick[d].cp
  OBVIOUS
<1> PICK new : new = Started(old)
  OBVIOUS
<1>1. /\ tick \in [Dispatchers -> TickRecords]
      /\ log \in [Jobs -> [Workers -> Seq(Events)]]
  BY DEF Records
<1>2. /\ j \in Jobs
      /\ old \in Checkpoints
      /\ OfRelayJob(j, old)
      /\ AtWorker("running", old)
      /\ old = job[j].cp
      /\ NotSkipped(j, old)
  BY AdvancingCopy DEF Grounded, HolderUpToDate, NothingSkipped
<1>3. ASSUME c.backend # "matrix" \/ c.cursor = 0
      PROVE  NotSkipped(j, c)'
  BY <1>3 DEF NotSkipped
<1>4. CASE c = old
  BY <1>2, <1>4, NotSkippedOutside
<1>5. CASE (RefuseTampered(d) \/ AwaitBudget(d)) /\ OfQueue
  BY <1>1, <1>4, <1>5, ReturnedCheckpoint DEF RefuseTampered, AwaitBudget
<1>6. CASE Chosen(d, "native") /\ NativeStep(d) /\ OfNative
  BY <1>3, <1>4, <1>6, NativeReturns
<1>8. ASSUME RelayStep(d)
      PROVE  NotSkipped(j, c)'
  <2>1. old.backend \in {"none", "matrix"}
    BY <1>8 DEF RelayStep, CredentialChanged, Prepare, Send, SendFails, Poll, GiveUp, Relay
  <2>2. /\ new \in RelayCheckpoints
        /\ new \in Checkpoints
        /\ new.stage \in Workers
        /\ OfRelayJob(j, new)
        /\ new.backend = "matrix"
    BY <2>1, <1>2, StartedCopy
  <2>3. new = old \/ new.cursor = 0
    BY DEF Started, RelayStart
  <2>4. NotSkipped(j, new)'
    BY <2>2, <2>3, <1>2, NotSkippedOutside DEF NotSkipped
  <2>5. Len(log[j][new.stage]) \in Nat
    BY <2>2, <1>1, <1>2
(* The cursor moves to the end only when nobody has answered.              *)
  <2>6. ASSUME UNCHANGED log, Answered(j, new.stage) = {}, c.stage = new.stage
        PROVE  NotSkipped(j, c)'
    BY <2>6 DEF NotSkipped, Answered
  <2>7. CASE CredentialChanged(d) \/ SendFails(d)
    <3>1. c = new
      BY <2>7, <1>1, ReturnedCheckpoint DEF CredentialChanged, SendFails
    <3> QED
      BY <3>1, <2>4
  <2>8. CASE Prepare(d)
    <3>1. UNCHANGED log /\ new.cursor = 0
      BY <2>8 DEF Prepare
    <3>2. c = [new EXCEPT !.cursor = Len(log[j][new.stage]) + 1,
                          !.credential = setting[d].bearer]
      BY <2>8, <1>1, ReturnedCheckpoint DEF Prepare
    <3>3. c.stage = new.stage
      BY <3>2, <2>2 DEF RelayCheckpoints
    <3>4. Asked(j, new.stage) = {}
      <4>1. SUFFICES ASSUME NEW m \in Asked(j, new.stage) PROVE FALSE
        OBVIOUS
      <4>2. old # Nothing /\ (old.stage = new.stage => old.cursor # 0)
        <5>1. AskedUnder(old, new.stage, log[j][new.stage][m])
          BY <4>1, <2>2, <1>2 DEF RequestsBound
        <5>2. old.backend = "matrix"
          BY <5>1, <2>1, <1>2, CheckpointKinds DEF AskedUnder
        <5> QED
          BY <5>1, <5>2 DEF AskedUnder
      <4>3. new = old
        BY <4>2 DEF Started
      <4> QED
        BY <3>1, <4>2, <4>3
    <3>5. Answered(j, new.stage) = {}
      BY <3>4, <2>2, <1>2 DEF AnswersAsked
    <3> QED
      BY <3>1, <3>3, <3>5, <2>6
  <2>9. CASE Send(d)
    <3>1. c = [new EXCEPT !.sent = TRUE]
      BY <2>9, <1>1, ReturnedCheckpoint DEF Send
    <3>2. c.backend = new.backend /\ c.stage = new.stage /\ c.cursor = new.cursor
      BY <3>1, <2>2 DEF RelayCheckpoints
    <3> QED
      BY <3>2, <2>4 DEF NotSkipped
  <2>10. CASE Poll(d)
    <3>1. UNCHANGED log /\ new.sent
      BY <2>10 DEF Poll
    <3>2. new = old /\ new.cursor # 0 /\ new.cursor \in Nat
      BY <3>1, <2>2 DEF Started, RelayStart, OfRelayJob, RelayCheckpoints
    <3>3. \/ /\ Claims(j, new) = {}
             /\ c = [new EXCEPT !.cursor = Len(log[j][new.stage]) + 1]
          \/ c = new
          \/ c = [new EXCEPT !.stage = @ + 1, !.cursor = 0, !.sent = FALSE]
      BY <2>10, <1>1, ReturnedCheckpoint DEF Poll
    <3>4. CASE /\ Claims(j, new) = {}
               /\ c = [new EXCEPT !.cursor = Len(log[j][new.stage]) + 1]
      <4>1. c.stage = new.stage
        BY <3>4, <2>2 DEF RelayCheckpoints
      <4>2. Answered(j, new.stage) = {}
        <5>1. SUFFICES ASSUME NEW i \in Answered(j, new.stage) PROVE FALSE
          OBVIOUS
        <5>2. i >= new.cursor
          BY <3>2, <2>2, <1>2 DEF NotSkipped
        <5>3. i \in 1..Len(log[j][new.stage]) /\ log[j][new.stage][i].kind # "request"
          BY DEF Answered
        <5>4. i \in new.cursor..Len(log[j][new.stage])
          BY <5>2, <5>3, <3>2, <2>5
        <5> QED
          BY <5>3, <5>4, <3>4 DEF Claims
      <4> QED
        BY <4>1, <4>2, <3>1, <2>6
    <3>5. CASE c = [new EXCEPT !.stage = @ + 1, !.cursor = 0, !.sent = FALSE]
      <4>1. c.cursor = 0
        BY <3>5, <2>2 DEF RelayCheckpoints
      <4> QED
        BY <4>1, <1>3
    <3> QED
      BY <3>3, <3>4, <3>5, <2>4
(* The binding that may be noted on giving up is no part of what is read.  *)
  <2>11. CASE GiveUp(d)
    <3>1. c \in Noted(d)
      BY <2>11, <1>1, ReturnedCheckpoint DEF GiveUp
    <3>2. CASE c = [new EXCEPT !.credential = setting[d].bearer]
      <4>1. c.backend = new.backend /\ c.stage = new.stage /\ c.cursor = new.cursor
        BY <3>2, <2>2 DEF RelayCheckpoints
      <4> QED
        BY <4>1, <2>4 DEF NotSkipped
    <3> QED
      BY <3>1, <3>2, <2>4, <1>4 DEF Noted
  <2> QED
    BY <2>7, <2>8, <2>9, <2>10, <2>11, <1>8 DEF RelayStep
<1> QED
  BY <1>5, <1>6, <1>8 DEF BackendStep

(* A cursor passes no answer of a role that has been read.               *)
LEMMA NothingSkippedKept ==
  ASSUME Records, TicksHaveJobs, HolderUpToDate, CopyNotAhead, CheckpointsGrounded,
         CompletionsBacked, RequestsBound, AnswersAsked, NothingSkipped,
         [Next]_vars, Moves
  PROVE  NothingSkipped'
<1>1. tick \in [Dispatchers -> TickRecords] /\ job \in [Jobs -> JobRecords]
  BY DEF Records
<1>2. ASSUME NEW j \in Jobs, NEW cp \in Checkpoints, OfRelayJob(j, cp), NotSkipped(j, cp)
      PROVE  NotSkipped(j, cp)'
  BY <1>2, NotSkippedOutside
<1>3. ASSUME NEW j \in Jobs
      PROVE  NotSkipped(j, job[j].cp)'
  <2>1. PICK cp \in Checkpoints :
          job'[j].cp = cp /\ OfRelayJob(j, cp) /\ NotSkipped(j, cp)
    <3>1. CASE job'[j].cp = job[j].cp
      BY <3>1, <1>1 DEF NothingSkipped, CheckpointsGrounded, Grounded, JobRecords
    <3>2. ASSUME NEW d \in Dispatchers, Stores(d), tick[d].job = j
          PROVE  \E cp \in Checkpoints :
                   job'[j].cp = cp /\ OfRelayJob(j, cp) /\ NotSkipped(j, cp)
      <4> PICK cp : cp = tick[d].cp
        OBVIOUS
      <4>1. job'[j].cp = cp
        BY <3>2, <1>1 DEF Stores
      <4>2. cp \in Checkpoints /\ OfRelayJob(j, cp) /\ NotSkipped(j, cp)
        BY <3>2, <1>1
        DEF Stores, NothingSkipped, CheckpointsGrounded, Grounded, Busy, TickRecords
      <4> QED
        BY <4>1, <4>2
    <3>3. ASSUME NEW d \in Dispatchers, Stores(d), tick[d].job # j
          PROVE  job'[j].cp = job[j].cp
      BY <3>3, <1>1 DEF Stores
    <3>4. ASSUME NEW k \in Jobs, Marks(k)
          PROVE  job'[j].cp = job[j].cp
      BY <3>4, <1>1 DEF Marks, JobRecords
    <3>5. ASSUME NEW d \in Dispatchers, Returns(d) \/ SetsAside(d) \/ Takes(d)
          PROVE  job' = job
      BY <3>5 DEF Returns, StepReturns, Advances, SetsAside, Takes
    <3> QED
      BY <3>1, <3>2, <3>3, <3>4, <3>5 DEF Moves, Rests
  <2> QED
    BY <2>1, <1>2 DEF NotSkipped
<1>4. ASSUME NEW e \in Dispatchers, Holds(e)', tick'[e].at = "writing"
      PROVE  NotSkipped(tick[e].job, tick[e].cp)'
  <2>1. ASSUME tick'[e] = tick[e], Holds(e)
        PROVE  NotSkipped(tick[e].job, tick[e].cp)'
    <3> PICK j : j = tick[e].job
      OBVIOUS
    <3> PICK cp : cp = tick[e].cp
      OBVIOUS
    <3>1. j \in Jobs /\ cp \in Checkpoints /\ OfRelayJob(j, cp) /\ NotSkipped(j, cp)
      BY <2>1, <1>1, <1>4
      DEF Busy, TicksHaveJobs, CheckpointsGrounded, Grounded, NothingSkipped, TickRecords
    <3>2. NotSkipped(j, cp)'
      BY <3>1, <1>2
    <3> QED
      BY <2>1, <3>2 DEF NotSkipped, Answered
  <2>2. ASSUME Returns(e)
        PROVE  NotSkipped(tick[e].job, tick[e].cp)'
    <3>1. PICK j \in Jobs, status \in Results, cp \in Checkpoints :
            j = tick[e].job /\ Return(e, status, cp) /\ tick[e].at = "advancing"
            /\ UNCHANGED lease
      BY <2>2 DEF Returns, StepReturns, Advances
    <3>2. tick'[e].job = j /\ tick'[e].cp = cp
      BY <3>1, <1>1, ReturnedTick
    <3>3. Holds(e)
      BY <3>1, <1>4 DEF Holds
    <3>4. NotSkipped(j, cp)'
      BY <2>2, <3>1, <3>2, <3>3, HolderSkipsNothing DEF Returns
    <3> QED
      BY <3>2, <3>4 DEF NotSkipped, Answered
  <2>3. ASSUME SetsAside(e) \/ Takes(e) \/ Stores(e)
        PROVE  FALSE
    BY <2>3, <1>1, <1>4 DEF SetsAside, Takes, Stores, IdleTick
  <2>4. ASSUME NEW d \in Dispatchers, d # e,
               Returns(d) \/ SetsAside(d) \/ Takes(d) \/ Stores(d)
        PROVE  tick'[e] = tick[e] /\ Holds(e)
    <3>1. CASE Returns(d)
      BY <3>1, <2>4, <1>1, <1>4 DEF Returns, StepReturns, Advances, Return, Holds
    <3>2. CASE SetsAside(d)
      BY <3>2, <2>4, <1>1, <1>4 DEF SetsAside
    <3>3. CASE Takes(d) \/ Stores(d)
      BY <3>3, <2>4, <1>1, <1>4 DEF Takes, Stores, Holds
    <3> QED
      BY <3>1, <3>2, <3>3, <2>4
  <2>5. ASSUME Rests \/ \E j \in Jobs : Marks(j)
        PROVE  tick'[e] = tick[e] /\ Holds(e)
    BY <2>5, <1>4 DEF Rests, Marks, Holds
  <2> QED
    BY <2>1, <2>2, <2>3, <2>4, <2>5 DEF Moves
<1> QED
  BY <1>3, <1>4 DEF NothingSkipped

(* The rooms of the attempts: the one that is stored is added, and agrees  *)
(* with what was there of the same attempt.                                *)
LEMMA OneRoomPerAttemptKept ==
  ASSUME Records, TicksHaveJobs, HolderUpToDate, CopyNotAhead, CheckpointsGrounded,
         OneRoomPerAttempt, Moves, OutsideOK, CopyNotAhead', Records'
  PROVE  OneRoomPerAttempt'
<1>1. /\ tick \in [Dispatchers -> TickRecords]
      /\ job \in [Jobs -> JobRecords]
      /\ \A j \in Jobs : job[j].cp \in Checkpoints /\ job'[j].cp \in Checkpoints
  BY DEF Records, JobRecords
<1>2. SUFFICES ASSUME NEW j \in Jobs
               PROVE  \E rooms \in [0..MaxRestarts -> Nat] : RoomsOfAttempts(j, rooms)'
  BY DEF OneRoomPerAttempt
<1>3. PICK rooms \in [0..MaxRestarts -> Nat] : RoomsOfAttempts(j, rooms)
  BY DEF OneRoomPerAttempt
<1> PICK old : old = job[j].cp
  OBVIOUS
<1> PICK new : new = job'[j].cp
  OBVIOUS
<1>4. old \in Checkpoints /\ new \in Checkpoints /\ GoesOnFrom(old, new)
  BY <1>1, StoredGoesOn
(* A copy of this job that is worked on after the step.                    *)
<1>5. ASSUME NEW e \in Dispatchers, tick'[e].at = "advancing", tick'[e].job = j,
             HasRoom(tick'[e].cp)
      PROVE  \/ tick'[e] = tick[e]
             \/ tick'[e].cp = old /\ new = old
  BY <1>5, CopiesAfter
(* Where the stored checkpoint stays, a team may be asked.                 *)
<1>6. ASSUME new = old
      PROVE  RoomsOfAttempts(j, rooms)'
  <2>1. HasRoom(new) => rooms[new.restarts] = new.room
    BY <1>3, <1>6 DEF RoomsOfAttempts
  <2>2. ASSUME NEW e \in Dispatchers, tick'[e].at = "advancing", tick'[e].job = j,
               HasRoom(tick'[e].cp)
        PROVE  rooms[tick'[e].cp.restarts] = tick'[e].cp.room
    BY <2>1, <2>2, <1>3, <1>5, <1>6 DEF RoomsOfAttempts
  <2>3. ASSUME NEW a \in team'[j].assigned
        PROVE  /\ old.backend = "native"
               /\ \E k \in 0..old.restarts :
                    rooms[k] = a.room /\ (k = old.restarts => HasRoom(old))
    <3>1. CASE a \in team[j].assigned
      BY <3>1, <1>3 DEF RoomsOfAttempts
    <3>2. CASE a \notin team[j].assigned
      <4>1. PICK d \in Dispatchers :
              /\ tick[d].at = "advancing"
              /\ tick[d].job = j
              /\ tick[d].cp.backend = "native"
              /\ tick[d].cp.project /\ ~tick[d].cp.sent
              /\ a.room = tick[d].cp.room
        BY <2>3, <3>2, NewAssignment DEF OutsideOK
      <4> PICK cp : cp = tick[d].cp
        OBVIOUS
      <4>2. cp \in NativeCheckpoints /\ cp # Nothing /\ cp.room # 0
        BY <4>1, AdvancingCopy, CheckpointKinds DEF Grounded, OfNativeJob
      <4>3. rooms[cp.restarts] = a.room
        BY <4>1, <4>2, <1>3 DEF RoomsOfAttempts, HasRoom
      <4>4. GoesOnFrom(cp, old)
        BY <4>1 DEF CopyNotAhead
      <4>5. old.backend = "native" /\ old \in NativeCheckpoints
        BY <4>1, <4>2, <4>4, <1>4, CheckpointKinds DEF GoesOnFrom
      <4>6. cp.restarts \in Nat /\ old.restarts \in Nat
        BY <4>2, <4>5, NativeAssumption DEF NativeCheckpoints
      <4>7. cp.restarts \in 0..old.restarts /\ (cp.restarts = old.restarts => HasRoom(old))
        BY <4>1, <4>2, <4>4, <4>5, <4>6 DEF GoesOnFrom, HasRoom
      <4> QED
        BY <4>3, <4>5, <4>7
    <3> QED
      BY <3>1, <3>2
  <2> QED
    BY <2>1, <2>2, <2>3, <1>6 DEF RoomsOfAttempts, HasRoom
(* Where it goes on, the room of its attempt is now known.                 *)
<1>7. ASSUME NEW d \in Dispatchers, Stores(d)
      PROVE  \E next \in [0..MaxRestarts -> Nat] : RoomsOfAttempts(j, next)'
  <2>1. team' = team
    BY <1>7 DEF Stores, OutsideSame
  <2> PICK next : next = IF HasRoom(new) THEN [rooms EXCEPT ![new.restarts] = new.room]
                         ELSE rooms
    OBVIOUS
  <2>2. HasRoom(new) =>
          new \in NativeCheckpoints /\ new.restarts \in 0..MaxRestarts /\ new.room \in Nat
    BY <1>4, CheckpointKinds, NativeAssumption DEF HasRoom, NativeCheckpoints
  <2>3. /\ next \in [0..MaxRestarts -> Nat]
        /\ HasRoom(new) => next[new.restarts] = new.room
        /\ \A k \in 0..MaxRestarts :
             ~(HasRoom(new) /\ k = new.restarts) => next[k] = rooms[k]
    BY <2>2
  <2>4. ASSUME NEW e \in Dispatchers, tick'[e].at = "advancing", tick'[e].job = j,
               HasRoom(tick'[e].cp)
        PROVE  next[tick'[e].cp.restarts] = tick'[e].cp.room
    <3> PICK cp : cp = tick'[e].cp
      OBVIOUS
    <3>1. cp \in Checkpoints /\ GoesOnFrom(cp, new)
      BY <2>4 DEF CopyNotAhead, Records, TickRecords
    <3>2. /\ cp \in NativeCheckpoints
          /\ cp # Nothing
          /\ cp.backend = "native"
          /\ cp.room # 0
          /\ cp.restarts \in 0..MaxRestarts
      BY <2>4, <3>1, CheckpointKinds DEF HasRoom, NativeCheckpoints
    <3>3. rooms[cp.restarts] = cp.room
      BY <2>4, <1>3, <1>5 DEF RoomsOfAttempts
    <3>4. CASE HasRoom(new) /\ cp.restarts = new.restarts
      <4>1. new.room = cp.room
        BY <3>1, <3>2, <3>4, <2>2, NativeAssumption DEF GoesOnFrom, HasRoom, NativeCheckpoints
      <4> QED
        BY <4>1, <3>4, <2>3
    <3> QED
      BY <3>2, <3>3, <3>4, <2>3
  <2>5. ASSUME NEW a \in team[j].assigned
        PROVE  /\ new.backend = "native"
               /\ \E k \in 0..new.restarts :
                    next[k] = a.room /\ (k = new.restarts => HasRoom(new))
    <3>1. old.backend = "native"
      BY <1>3 DEF RoomsOfAttempts
    <3>2. PICK k \in 0..old.restarts :
            rooms[k] = a.room /\ (k = old.restarts => HasRoom(old))
      BY <1>3 DEF RoomsOfAttempts
    <3>3. old \in NativeCheckpoints /\ old # Nothing
      BY <3>1, <1>4, CheckpointKinds
    <3>4. new.backend = "native" /\ new \in NativeCheckpoints
      BY <3>1, <3>3, <1>4, CheckpointKinds DEF GoesOnFrom
    <3>5. /\ old.restarts \in Nat /\ new.restarts \in 0..MaxRestarts /\ MaxRestarts \in Nat
          /\ old.restarts <= new.restarts
          /\ (new.restarts = old.restarts /\ old.room # 0) => new.room = old.room
      BY <3>3, <3>4, <1>4, NativeAssumption DEF NativeCheckpoints, GoesOnFrom
    <3>6. k \in 0..new.restarts /\ k \in 0..MaxRestarts /\ k <= old.restarts
      BY <3>5
    <3>7. CASE k = new.restarts
      <4>1. k = old.restarts /\ HasRoom(old) /\ new.room = old.room
        BY <3>2, <3>5, <3>6, <3>7 DEF HasRoom
      <4>2. HasRoom(new) /\ rooms[k] = old.room
        BY <4>1, <3>4, <1>3 DEF HasRoom, RoomsOfAttempts
      <4>3. next[k] = a.room
        BY <4>1, <4>2, <3>2, <3>7, <2>3
      <4> QED
        BY <4>2, <4>3, <3>4, <3>6
    <3>8. CASE k # new.restarts
      BY <3>2, <3>4, <3>6, <3>8, <2>3
    <3> QED
      BY <3>7, <3>8
  <2>6. RoomsOfAttempts(j, next)'
    BY <2>1, <2>3, <2>4, <2>5 DEF RoomsOfAttempts, HasRoom
  <2> QED
    BY <2>3, <2>6
<1>8. ASSUME NEW d \in Dispatchers, Returns(d) \/ SetsAside(d) \/ Takes(d)
      PROVE  new = old
  BY <1>8 DEF Returns, StepReturns, Advances, SetsAside, Takes
<1>9. ASSUME NEW k \in Jobs, Marks(k)
      PROVE  new = old
  BY <1>1, <1>9 DEF Marks, JobRecords
<1> QED
  BY <1>6, <1>7, <1>8, <1>9 DEF Moves, Rests

-----------------------------------------------------------------------------
(* The rest of the types.                                                  *)
LEMMA TeamsTypedKept ==
  ASSUME Records, TicksHaveJobs, CheckpointsGrounded, TeamsTyped, OutsideOK, Records'
  PROVE  TeamsTyped'
<1>1. SUFFICES ASSUME NEW j \in Jobs
               PROVE  /\ team'[j].lost \in 0..team'[j].rooms
                      /\ \A a \in team'[j].assigned : a.room \in 1..team'[j].rooms
  BY DEF TeamsTyped
<1>2. /\ team[j].rooms \in Nat
      /\ team'[j].rooms \in Nat
      /\ team'[j].rooms >= team[j].rooms
      /\ team[j].lost \in 0..team[j].rooms
      /\ \A a \in team[j].assigned : a.room \in 1..team[j].rooms
      /\ team'[j].lost \in {team[j].lost, team[j].rooms}
  BY NativeAssumption DEF Records, TeamRecords, OutsideOK, TeamGrows, TeamsTyped
<1>3. team'[j].lost \in 0..team'[j].rooms
  BY <1>2
<1>4. ASSUME NEW a \in team'[j].assigned
      PROVE  a.room \in 1..team'[j].rooms
  <2>1. CASE a \in team[j].assigned
    BY <2>1, <1>2
  <2>2. CASE a \notin team[j].assigned
    <3>1. PICK d \in Dispatchers :
            /\ tick[d].at = "advancing"
            /\ tick[d].job = j
            /\ tick[d].cp.backend = "native"
            /\ tick[d].cp.project /\ ~tick[d].cp.sent
            /\ a.room = tick[d].cp.room
      BY <2>2, <1>4, NewAssignment DEF OutsideOK
    <3>2. /\ tick[d].cp \in NativeCheckpoints
          /\ tick[d].cp.room # 0
          /\ tick[d].cp.room <= team[j].rooms
      BY <3>1, AdvancingCopy, CheckpointKinds DEF Grounded, OfNativeJob
    <3>3. a.room \in Nat /\ a.room # 0 /\ a.room <= team[j].rooms
      BY <3>1, <3>2, NativeAssumption DEF NativeCheckpoints
    <3> QED
      BY <3>3, <1>2
  <2> QED
    BY <2>1, <2>2
<1> QED
  BY <1>3, <1>4

(* The queue orders the jobs that are there.                             *)
LEMMA QueueTypedKept ==
  ASSUME Records, TicksHaveJobs, QueueTyped, [Next]_vars, Moves
  PROVE  QueueTyped'
<1>1. /\ tick \in [Dispatchers -> TickRecords]
      /\ job \in [Jobs -> JobRecords]
  BY DEF Records
(* Either a job that was not there is queued, or the jobs there are stay.  *)
<1>2. \/ UNCHANGED <<queue, job>>
      \/ \E j \in Jobs : Submit(j)
      \/ \E j \in Jobs : CancelWrite(j)
      \/ \E d \in Dispatchers : Write(d)
  BY DEF Next, vars, queueVars, QueueStep, CancelRead, Lease, Read,
         RefuseTampered, AwaitBudget, Stop, Crash, Restart, LeaseRunsOut, Overrun,
         OpenBudget, CloseBudget, NativeStep, CreateProject, CreateFails, Assign,
         AssignFails, AssignNowhere, Observe, NativeUnavailable, StepUnchanged, RelayStep,
         CredentialChanged, Prepare, Send, SendFails, Poll, GiveUp, RelayKeeps,
         NativeOther, CancelPause, CancelPauseFails, TeamAccepts, TeamEnds, TeamBlocks,
         Attend, TeamPublishes, OtherSide, StudioRestart, RelayOther, WorkerAnswers,
         ChangeCredential
<1>3. \/ UNCHANGED cancelling
      \/ \E j \in Jobs : /\ j \in Open \/ cancelling[j] # "no"
                         /\ \E v \in {"no", "pausing", "writing"} :
                              cancelling' = [cancelling EXCEPT ![j] = v]
  <2>1. ASSUME NEW j \in Jobs, CancelRead(j)
        PROVE  \E v \in {"no", "pausing", "writing"} : cancelling' = [cancelling EXCEPT ![j] = v]
    BY <2>1 DEF CancelRead
  <2>2. \/ UNCHANGED cancelling
        \/ \E j \in Jobs : CancelRead(j) \/ CancelWrite(j) \/ CancelPause(j) \/ CancelPauseFails(j)
    BY DEF Next, vars, queueVars, QueueStep, Submit, Lease, Read,
         RefuseTampered, AwaitBudget, Write, Stop, Crash, Restart, LeaseRunsOut, Overrun,
         OpenBudget, CloseBudget, NativeStep, CreateProject, CreateFails, Assign,
         AssignFails, AssignNowhere, Observe, NativeUnavailable, StepUnchanged, RelayStep,
         CredentialChanged, Prepare, Send, SendFails, Poll, GiveUp, RelayKeeps,
         NativeOther, TeamAccepts, TeamEnds, TeamBlocks,
         Attend, TeamPublishes, OtherSide, StudioRestart, RelayOther, WorkerAnswers,
         ChangeCredential
  <2> QED
    BY <2>1, <2>2 DEF CancelRead, CancelWrite, CancelPause, CancelPauseFails
<1>5. budget' \in {budget, TRUE, FALSE} /\ (faults' = faults \/ Fault)
  BY DEF Next, vars, queueVars, QueueStep, Submit, CancelRead, CancelWrite, Lease, Read,
         RefuseTampered, AwaitBudget, Write, Stop, Crash, Restart, LeaseRunsOut, Overrun,
         OpenBudget, CloseBudget, NativeStep, CreateProject, CreateFails, Assign,
         AssignFails, AssignNowhere, Observe, NativeUnavailable, StepUnchanged, RelayStep,
         CredentialChanged, Prepare, Send, SendFails, Poll, GiveUp, RelayKeeps,
         NativeOther, CancelPause, CancelPauseFails, TeamAccepts, TeamEnds, TeamBlocks,
         Attend, TeamPublishes, OtherSide, StudioRestart, RelayOther, WorkerAnswers,
         ChangeCredential
<1>6. ASSUME NEW k \in Jobs, job[k].status # "absent"
      PROVE  job'[k].status # "absent"
  <2>1. ASSUME NEW d \in Dispatchers, Stores(d)
        PROVE  job'[k].status # "absent"
    BY <2>1, <1>1, <1>6 DEF Stores, TickRecords, Stored, Terminal
  <2>2. ASSUME NEW j \in Jobs, Marks(j)
        PROVE  job'[k].status # "absent"
    BY <2>2, <1>1, <1>6 DEF Marks, JobRecords, Stored, Terminal
  <2> QED
    BY <2>1, <2>2, <1>6
    DEF Moves, Returns, StepReturns, Advances, SetsAside, Takes, Rests
<1>7. queue' \in Seq(Jobs) /\ ToSet(queue') = {j \in Jobs : job'[j].status # "absent"}
  <2>1. ASSUME UNCHANGED queue,
               \A k \in Jobs : job[k].status = "absent" => job'[k].status = "absent"
        PROVE  queue' \in Seq(Jobs) /\ ToSet(queue') = {j \in Jobs : job'[j].status # "absent"}
    BY <2>1, <1>6 DEF QueueTyped
  <2>2. ASSUME NEW j \in Jobs, Submit(j)
        PROVE  queue' \in Seq(Jobs) /\ ToSet(queue') = {k \in Jobs : job'[k].status # "absent"}
    <3>1. queue \in Seq(Jobs) /\ queue' = Append(queue, j)
      BY <2>2 DEF Submit, QueueTyped
    <3>2. ToSet(queue') = ToSet(queue) \cup {j}
      <4>1. DOMAIN queue' = 1..(Len(queue) + 1) /\ DOMAIN queue = 1..Len(queue)
            /\ Len(queue) \in Nat
        BY <3>1
      <4>2. /\ \A n \in 1..Len(queue) : queue'[n] = queue[n]
            /\ queue'[Len(queue) + 1] = j
        BY <3>1
      <4>3. \A n : n \in 1..(Len(queue) + 1) <=> (n \in 1..Len(queue) \/ n = Len(queue) + 1)
        BY <4>1
      <4> QED
        BY <4>1, <4>2, <4>3 DEF ToSet
    <3>3. \A k \in Jobs : job'[k].status # "absent" <=> (job[k].status # "absent" \/ k = j)
      BY <2>2, <1>1 DEF Submit, JobRecords
    <3> QED
      BY <3>1, <3>2, <3>3 DEF QueueTyped
  <2>3. ASSUME NEW j \in Jobs, CancelWrite(j)
        PROVE  \A k \in Jobs : job[k].status = "absent" => job'[k].status = "absent"
    BY <2>3, <1>1 DEF CancelWrite, QueueTyped, JobRecords
  <2>4. ASSUME NEW d \in Dispatchers, Write(d)
        PROVE  \A k \in Jobs : job[k].status = "absent" => job'[k].status = "absent"
    BY <2>4, <1>1 DEF Write, TicksHaveJobs, Busy
  <2>5. ASSUME NEW j \in Jobs, CancelWrite(j)
        PROVE  UNCHANGED queue
    BY <2>5 DEF CancelWrite
  <2>6. ASSUME NEW d \in Dispatchers, Write(d)
        PROVE  UNCHANGED queue
    BY <2>6 DEF Write
  <2> QED
    BY <2>1, <2>2, <2>3, <2>4, <2>5, <2>6, <1>2
<1>8. /\ cancelling' \in [Jobs -> {"no", "pausing", "writing"}]
      /\ \A j \in Jobs : cancelling'[j] # "no" => job'[j].status # "absent"
  BY <1>3, <1>6 DEF QueueTyped, Open, Stored, Terminal
<1>9. budget' \in BOOLEAN /\ faults' \in 0..MaxFaults
  <2>1. budget \in BOOLEAN
    BY DEF QueueTyped
  <2>2. budget' \in BOOLEAN
    BY <2>1, <1>5, Zenon
  <2>3. faults' \in 0..MaxFaults
    <3>1. faults \in 0..MaxFaults /\ MaxFaults \in Nat
      BY QueueAssumption DEF QueueTyped
    <3>2. faults' = faults \/ (faults < MaxFaults /\ faults' = faults + 1)
      BY <1>5 DEF Fault
    <3> QED
      BY <3>1, <3>2
  <2> QED
    BY <2>2, <2>3
<1> QED
  BY <1>7, <1>8, <1>9 DEF QueueTyped

-----------------------------------------------------------------------------
(* The invariant holds at first, and every step keeps it.                  *)
LEMMA JobsInvariantInit ==
  ASSUME Init
  PROVE  IInv
<1>1. /\ job = [j \in Jobs |-> [status |-> "absent", cp |-> Nothing, report |-> FALSE]]
      /\ lease = [owner |-> Nobody, runs |-> FALSE]
      /\ tick = [d \in Dispatchers |-> IdleTick]
      /\ log = [j \in Jobs |-> [r \in Workers |-> <<>>]]
      /\ setting \in [Dispatchers -> Settings]
      /\ team = [j \in Jobs |-> [rooms |-> 0, lost |-> 0, assigned |-> {},
                                 project |-> "none", nodes |-> "open", report |-> "none",
                                 proved |-> FALSE]]
  BY DEF Init, QueueInit, NativeInit, RelayInit, Workers
<1>2. \A d \in Dispatchers : tick[d].at = "idle" /\ ~Busy(d) /\ ~Holds(d)
  BY <1>1 DEF IdleTick, Busy, Holds
<1>3. \A j \in Jobs : /\ job[j].cp = Nothing
                      /\ job[j].status = "absent"
                      /\ team[j].assigned = {}
                      /\ team[j].report = "none"
                      /\ team[j].lost = 0
                      /\ team[j].rooms = 0
  BY <1>1
<1>4. \A j \in Jobs : \A r \in Workers : Asked(j, r) = {} /\ Answered(j, r) = {}
  BY <1>1 DEF Asked, Answered
<1>5. Records
  <2>1. [status |-> "absent", cp |-> Nothing, report |-> FALSE] \in JobRecords
    BY DEF JobRecords, Checkpoints
  <2>2. IdleTick \in TickRecords
    BY DEF IdleTick, TickRecords, Checkpoints, Stored
  <2>3. [rooms |-> 0, lost |-> 0, assigned |-> {}, project |-> "none", nodes |-> "open",
         report |-> "none", proved |-> FALSE] \in TeamRecords
    BY NativeAssumption DEF TeamRecords
  <2>4. <<>> \in Seq(Events)
    OBVIOUS
  <2> QED
    BY <2>1, <2>2, <2>3, <2>4, <1>1 DEF Records
<1>6. QueueTyped
  <2>1. ToSet(queue) = {}
    BY DEF Init, QueueInit, ToSet
  <2>2. queue \in Seq(Jobs) /\ faults = 0 /\ budget = FALSE
        /\ cancelling = [j \in Jobs |-> "no"]
    BY DEF Init, QueueInit
  <2>3. ToSet(queue) = {j \in Jobs : job[j].status # "absent"}
    BY <2>1, <1>3
  <2>4. cancelling \in [Jobs -> {"no", "pausing", "writing"}]
        /\ \A j \in Jobs : cancelling[j] = "no"
    BY <2>2
  <2>5. faults \in 0..MaxFaults
    BY <2>2, QueueAssumption
  <2>6. budget \in BOOLEAN
    BY <2>2
  <2> QED
    BY <2>2, <2>3, <2>4, <2>5, <2>6 DEF QueueTyped
<1>7. TeamsTyped
  BY <1>3 DEF TeamsTyped
<1>8. TicksHaveJobs /\ HolderUpToDate /\ CopyNotAhead
  BY <1>2 DEF TicksHaveJobs, HolderUpToDate, CopyNotAhead
<1>9. CheckpointsGrounded
  BY <1>2, <1>3
  DEF CheckpointsGrounded, Grounded, OfNativeJob, OfRelayJob, AtWorker, Nothing
<1>10. CompletionsBacked
  BY <1>2, <1>3 DEF CompletionsBacked
<1>11. CopiesBound /\ RequestsBound /\ RequestsOnce /\ AnswersAsked
  BY <1>2, <1>4 DEF CopiesBound, BoundCopy, RequestsBound, RequestsOnce, AnswersAsked
<1>12. NothingSkipped
  BY <1>2, <1>3 DEF NothingSkipped, NotSkipped, Nothing
<1>13. OneRoomPerAttempt
  <2>1. [k \in 0..MaxRestarts |-> 0] \in [0..MaxRestarts -> Nat]
    OBVIOUS
  <2>2. \A j \in Jobs : RoomsOfAttempts(j, [k \in 0..MaxRestarts |-> 0])
    BY <1>2, <1>3 DEF RoomsOfAttempts, HasRoom, Nothing
  <2> QED
    BY <2>1, <2>2 DEF OneRoomPerAttempt
<1> QED
  BY <1>5, <1>6, <1>7, <1>8, <1>9, <1>10, <1>11, <1>12, <1>13 DEF IInv

(* Every step keeps the invariant.                                       *)
LEMMA JobsInvariantStep ==
  ASSUME IInv, [Next]_vars
  PROVE  IInv'
<1>1. Moves
  BY StepKinds DEF IInv
<1>2. OutsideOK
  BY OutsideGrows DEF IInv
<1>3. Records'
  BY <1>1, <1>2, RecordsKept DEF IInv
<1>4. QueueTyped' /\ TeamsTyped'
  BY <1>1, <1>2, <1>3, QueueTypedKept, TeamsTypedKept DEF IInv
<1>5. TicksHaveJobs' /\ HolderUpToDate' /\ CopyNotAhead'
  BY <1>1, TicksHaveJobsKept, HolderUpToDateKept, CopyNotAheadKept DEF IInv
<1>6. CheckpointsGrounded' /\ CompletionsBacked'
  BY <1>1, <1>2, <1>3, CheckpointsGroundedKept, CompletionsBackedKept DEF IInv
<1>7. CopiesBound' /\ RequestsBound' /\ RequestsOnce' /\ AnswersAsked'
  BY <1>1, <1>3, CopiesBoundKept, RequestsBoundKept, RequestsOnceKept, AnswersAskedKept DEF IInv
<1>8. NothingSkipped'
  BY <1>1, NothingSkippedKept DEF IInv
<1>9. OneRoomPerAttempt'
  BY <1>1, <1>2, <1>3, <1>5, OneRoomPerAttemptKept DEF IInv
<1> QED
  BY <1>3, <1>4, <1>5, <1>6, <1>7, <1>8, <1>9 DEF IInv

(* The dispatchers, the backends and what they keep of a job fit together  *)
(* in every state, whoever runs when, and whatever fails.                  *)
THEOREM JobsInvariant == Spec => []IInv
<1>1. Init => IInv
  BY JobsInvariantInit
<1>2. IInv /\ [Next]_vars => IInv'
  BY JobsInvariantStep
<1> QED
  BY <1>1, <1>2, PTL DEF Spec

(* Everything that is stored, copied or made outside has its type.         *)
THEOREM JobsTypeCorrect == Spec => []TypeOK
<1>1. IInv => TypeOK
  <2>1. SUFFICES ASSUME IInv PROVE TypeOK
    OBVIOUS
  <2>2. Records /\ QueueTyped /\ TeamsTyped
    BY <2>1 DEF IInv
  <2>3. QueueTypeOK
    BY <2>2 DEF Records, QueueTyped, QueueTypeOK, JobRecords, TickRecords
  <2>4. NativeTypeOK
    <3>1. ASSUME NEW j \in Jobs, NEW a \in team[j].assigned
          PROVE  a \in [room : 1..team[j].rooms, bearer : Bearers]
      <4>1. a \in [room : Nat, bearer : Bearers] /\ a.room \in 1..team[j].rooms
        BY <2>2, <3>1 DEF Records, TeamsTyped, TeamRecords
      <4> QED
        BY <4>1
    <3> QED
      BY <2>2, <3>1 DEF Records, TeamsTyped, NativeTypeOK, TeamRecords
  <2>5. RelayTypeOK
    <3>1. ASSUME NEW j \in Jobs, NEW r \in Workers, NEW i \in 1..Len(log[j][r])
          PROVE  log[j][r][i].kind \in {"request", "report", "invalid"}
      <4>1. log[j][r] \in Seq(Events)
        BY <2>2 DEF Records
      <4>2. log[j][r][i] \in Events
        BY <4>1
      <4> QED
        BY <4>2 DEF Events
    <3> QED
      BY <2>2, <3>1 DEF Records, RelayTypeOK, Workers
  <2> QED
    BY <2>2, <2>3, <2>4, <2>5 DEF TypeOK, QueueTyped
<1> QED
  BY <1>1, JobsInvariant, PTL

(* A job that has ended stays as it ended, and with it its report.         *)
THEOREM JobsEndedStayEnded == Spec => EndedStaysEnded
<1>1. IInv /\ [Next]_vars =>
        \A j \in Jobs : job[j].status \in Terminal =>
          job'[j].status = job[j].status /\ job'[j].report = job[j].report
  <2>1. SUFFICES ASSUME IInv, [Next]_vars, NEW j \in Jobs, job[j].status \in Terminal
                 PROVE  job'[j].status = job[j].status /\ job'[j].report = job[j].report
    OBVIOUS
  <2>2. job \in [Jobs -> JobRecords] /\ Moves
    BY <2>1, StepKinds DEF IInv, Records
  <2>3. ASSUME NEW d \in Dispatchers, Stores(d)
        PROVE  job'[j] = job[j]
    BY <2>1, <2>2, <2>3 DEF Stores
  <2>4. ASSUME NEW k \in Jobs, Marks(k)
        PROVE  job'[j].status = job[j].status /\ job'[j].report = job[j].report
    BY <2>1, <2>2, <2>4 DEF Marks, JobRecords
  <2> QED
    BY <2>2, <2>3, <2>4 DEF Moves, Returns, StepReturns, Advances, SetsAside, Takes, Rests
<1> QED
  BY <1>1, JobsInvariant, PTL DEF Spec, EndedStaysEnded

(* What a job has done is never forgotten: its checkpoint only goes on     *)
(* from the one before, however late the dispatcher that returns.          *)
THEOREM JobsCheckpointsAdvance == Spec => CheckpointsOnlyAdvance
<1>1. IInv /\ [Next]_vars => \A j \in Jobs : GoesOnFrom(job[j].cp, job'[j].cp)
  <2>1. SUFFICES ASSUME IInv, [Next]_vars, NEW j \in Jobs
                 PROVE  GoesOnFrom(job[j].cp, job'[j].cp)
    OBVIOUS
  <2>2. Moves
    BY <2>1, StepKinds DEF IInv
  <2> QED
    BY <2>1, <2>2, StoredGoesOn DEF IInv
<1> QED
  BY <1>1, JobsInvariant, PTL DEF Spec, CheckpointsOnlyAdvance

(* A job is completed by a valid report only.                              *)
THEOREM JobsCompletedAccepted == Spec => []CompletedIsAccepted
<1>1. IInv => CompletedIsAccepted
  BY DEF IInv, CompletionsBacked, Backed, Reported, CompletedIsAccepted, Workers
<1> QED
  BY <1>1, JobsInvariant, PTL

(* With one credential the team is asked once for each attempt: the rooms  *)
(* it was asked in are those of the attempts so far.                       *)
THEOREM JobsOneAssignment == Spec => []OneAssignmentPerAttempt
<1>1. IInv => OneAssignmentPerAttempt
  <2>1. SUFFICES ASSUME IInv, NEW j \in Jobs, NEW b \in Bearers
                 PROVE  Cardinality(AssignedBy(j, b)) <=
                          (IF job[j].cp.backend = "native" THEN 1 + job[j].cp.restarts ELSE 0)
    BY DEF OneAssignmentPerAttempt
  <2>2. PICK rooms \in [0..MaxRestarts -> Nat] : RoomsOfAttempts(j, rooms)
    BY <2>1 DEF IInv, OneRoomPerAttempt
  <2>3. CASE job[j].cp.backend # "native"
    <3>1. AssignedBy(j, b) = {}
      BY <2>2, <2>3 DEF RoomsOfAttempts, AssignedBy
    <3> QED
      BY <2>3, <3>1, FS_EmptySet
  <2>4. CASE job[j].cp.backend = "native"
    <3> PICK n : n = job[j].cp.restarts
      OBVIOUS
    <3>1. n \in Nat
      BY <2>1, <2>4, CheckpointKinds, NativeAssumption
      DEF IInv, Records, JobRecords, NativeCheckpoints
    <3>2. IsFiniteSet(0..n) /\ Cardinality(0..n) = n + 1
      <4>1. n \in Int /\ 0 \in Int /\ ~(0 > n) /\ n - 0 + 1 = n + 1
        BY <3>1
      <4> QED
        BY <4>1, FS_Interval
    <3> DEFINE Used == {[room |-> rooms[k], bearer |-> b] : k \in 0..n}
    <3>3. IsFiniteSet(Used) /\ Cardinality(Used) <= Cardinality(0..n)
      <4> PICK f : f = [k \in 0..n |-> [room |-> rooms[k], bearer |-> b]]
        OBVIOUS
      <4>1. f \in Surjection(0..n, Used)
        BY DEF Surjection
      <4> QED
        BY <4>1, <3>2, FS_Surjection
    <3>4. AssignedBy(j, b) \subseteq Used
      <4>1. ASSUME NEW a \in AssignedBy(j, b)
            PROVE  a \in Used
        <5>1. a \in team[j].assigned /\ a.bearer = b
          BY DEF AssignedBy
        <5>2. a \in [room : Nat, bearer : Bearers]
          BY <2>1, <5>1 DEF IInv, Records, TeamRecords
        <5>3. a = [room |-> a.room, bearer |-> b]
          BY <5>1, <5>2
        <5>4. \E k \in 0..n : rooms[k] = a.room
          BY <2>2, <5>1 DEF RoomsOfAttempts
        <5> QED
          BY <5>3, <5>4
      <4> QED
        BY <4>1
    <3>5. Cardinality(AssignedBy(j, b)) <= Cardinality(Used)
      BY <3>3, <3>4, FS_Subset
    <3>6. Cardinality(Used) \in Nat /\ Cardinality(AssignedBy(j, b)) \in Nat
      BY <3>3, <3>4, FS_Subset, FS_CardinalityType
    <3> HIDE DEF Used
    <3> QED
      BY <2>4, <3>1, <3>2, <3>3, <3>5, <3>6
  <2> QED
    BY <2>3, <2>4
<1> QED
  BY <1>1, JobsInvariant, PTL

(* A worker is asked once for a job.                                       *)
THEOREM JobsAskedOnce == Spec => []AskedOnce
<1>1. IInv => AskedOnce
  <2>1. SUFFICES ASSUME IInv, NEW j \in Jobs, NEW r \in Workers
                 PROVE  Cardinality(Asked(j, r)) <= 1
    BY DEF AskedOnce, Workers
  <2>2. \A i, k \in Asked(j, r) : i = k
    BY <2>1 DEF IInv, RequestsOnce
  <2>3. CASE Asked(j, r) = {}
    BY <2>3, FS_EmptySet
  <2>4. CASE Asked(j, r) # {}
    <3>1. PICK i : Asked(j, r) = {i}
      BY <2>2, <2>4
    <3>2. Cardinality({i}) = 1
      BY FS_Singleton
    <3> QED
      BY <3>1, <3>2
  <2> QED
    BY <2>3, <2>4
<1> QED
  BY <1>1, JobsInvariant, PTL

(* An answer that was not read lies behind the stored cursor.              *)
THEOREM JobsAnswerNotSkipped == Spec => []AnswerNotSkipped
<1>1. IInv => AnswerNotSkipped
  <2>1. SUFFICES ASSUME IInv, NEW j \in Open, job[j].cp.backend = "matrix",
                        job[j].cp.cursor # 0, NEW i \in Answered(j, job[j].cp.stage)
                 PROVE  i >= job[j].cp.cursor
    BY DEF AnswerNotSkipped
  <2>2. j \in Jobs /\ job[j].status # "completed"
    BY DEF Open, Terminal
  <2>3. job[j].cp.stage \in Workers
    BY <2>1, <2>2 DEF IInv, CheckpointsGrounded, Grounded, AtWorker
  <2> QED
    BY <2>1, <2>2, <2>3 DEF IInv, NothingSkipped, NotSkipped
<1> QED
  BY <1>1, JobsInvariant, PTL
=============================================================================
