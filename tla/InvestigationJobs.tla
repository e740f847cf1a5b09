-------------------------- MODULE InvestigationJobs -------------------------
(***************************************************************************)
(* The investigation service of the console: the queue, its dispatchers    *)
(* and the two backends.  A job stays with the native backend once that    *)
(* has begun it, and with the older one once its first worker has          *)
(* answered; any other goes to the backend its dispatcher was started      *)
(* with.                                                                   *)
(***************************************************************************)
EXTENDS NativeTeam, MatrixRelay

vars == <<queueVars, team, log>>

Init ==
  /\ QueueInit
  /\ NativeInit
  /\ RelayInit

TypeOK == QueueTypeOK /\ NativeTypeOK /\ RelayTypeOK

(* A checkpoint that no dispatcher gives to another backend.               *)
Settled(cp) == cp.backend = "native" \/ (cp.backend = "matrix" /\ cp.stage > 1)

Chosen(d, backend) ==
  backend = IF Settled(tick[d].cp) THEN tick[d].cp.backend ELSE setting[d].backend

QueueStep ==
  \/ \E j \in Jobs : Submit(j) \/ CancelRead(j) \/ CancelWrite(j)
  \/ \E d \in Dispatchers :
       \/ Lease(d) \/ Read(d) \/ RefuseTampered(d) \/ AwaitBudget(d) \/ Write(d)
       \/ Stop(d) \/ Crash(d) \/ Restart(d)
  \/ LeaseRunsOut \/ Overrun \/ OpenBudget \/ CloseBudget

NativeStep(d) ==
  \/ CreateProject(d) \/ CreateFails(d)
  \/ Assign(d) \/ AssignFails(d) \/ AssignNowhere(d)
  \/ Observe(d) \/ NativeUnavailable(d)

RelayStep(d) ==
  \/ CredentialChanged(d) \/ Prepare(d) \/ Send(d) \/ SendFails(d) \/ Poll(d) \/ GiveUp(d)

NativeOther ==
  \/ \E j \in Jobs : CancelPause(j) \/ CancelPauseFails(j)
  \/ \E j \in Jobs : TeamAccepts(j) \/ TeamEnds(j) \/ TeamBlocks(j) \/ Attend(j) \/ TeamPublishes(j)
  \/ StudioRestart

RelayOther ==
  \E j \in Jobs, r \in 1..Len(Roles) : WorkerAnswers(j, r)

OfQueue == UNCHANGED <<team, log>>
OfNative == UNCHANGED log
OfRelay == UNCHANGED team

Next ==
  \/ QueueStep /\ OfQueue
  \/ \E d \in Dispatchers :
       \/ Chosen(d, "native") /\ NativeStep(d) /\ OfNative
       \/ Chosen(d, "matrix") /\ (RelayStep(d) \/ ChangeCredential(d)) /\ OfRelay
  \/ NativeOther /\ OfNative
  \/ RelayOther /\ OfRelay

(* Fairness.  The dispatcher's loop goes round every three seconds and a   *)
(* supervisor brings the process back; a lease nobody renews runs out; an  *)
(* operator opens the budget; a team, or a worker, that was asked answers  *)
(* in the end; and a person looks after projects that stopped.  A          *)
(* cancellation that was begun goes on.  Nothing is assumed of submissions *)
(* or of any fault.                                                        *)
Tick(d) ==
  \/ (Lease(d) \/ Read(d) \/ RefuseTampered(d) \/ AwaitBudget(d) \/ Write(d) \/ Restart(d))
     /\ OfQueue
  \/ Chosen(d, "native") /\ NativeStep(d) /\ OfNative
  \/ Chosen(d, "matrix") /\ RelayStep(d) /\ OfRelay

Fairness ==
  /\ \A d \in Dispatchers : WF_vars(Tick(d))
  /\ WF_vars(LeaseRunsOut /\ OfQueue)
  /\ WF_vars(OpenBudget /\ OfQueue)
  /\ \A j \in Jobs :
       /\ WF_vars(TeamAccepts(j) /\ OfNative)
       /\ WF_vars(Attend(j) /\ OfNative)
       /\ WF_vars(CancelWrite(j) /\ OfQueue)
       /\ WF_vars((CancelPause(j) \/ CancelPauseFails(j)) /\ OfNative)
       /\ \A r \in 1..Len(Roles) :
            WF_vars(WorkerAnswers(j, r) /\ OfRelay)

Spec == Init /\ [][Next]_vars /\ Fairness

-----------------------------------------------------------------------------
(* A job that has ended stays as it ended: no step that was under way when *)
(* it was canceled, and no dispatcher that lost its lease, brings it back  *)
(* or changes its report.                                                  *)
EndedStaysEnded ==
  [][\A j \in Jobs : job[j].status \in Terminal =>
        job'[j].status = job[j].status /\ job'[j].report = job[j].report]_vars

(* What a job has done is never forgotten: however late a dispatcher       *)
(* returns, a stored checkpoint only goes on from the one before it,       *)
(* unless it is rebuilt, which is counted, and a room, a project or a      *)
(* cursor once stored is not replaced by another.  A job of the older      *)
(* backend may go over to the native one as long as its first worker has   *)
(* not answered, and takes the receipt of its request along, although      *)
(* docs/AGENTTEAMS_TASK_SERVICE.md:46 says the protocol of a serial job is *)
(* not changed midway; no job comes back.                                  *)
GoesOnFrom(old, new) ==
  \/ old = Nothing
  \/ /\ new.backend = "native" /\ old.backend = "native"
     /\ \/ new.restarts > old.restarts
        \/ /\ new.restarts = old.restarts
           /\ old.room # 0 => new.room = old.room
           /\ old.project => new.project
           /\ old.sent => new.sent
  \/ /\ new.backend = "native" /\ old.backend = "matrix"
     /\ old.stage = 1
     /\ new.restarts > 0 \/ (old.sent => new.sent)
  \/ /\ new.backend = "matrix" /\ old.backend = "matrix"
     /\ old.credential # 0 => new.credential = old.credential
     /\ \/ new.stage > old.stage
        \/ /\ new.stage = old.stage
           /\ new.cursor >= old.cursor
           /\ old.sent => new.sent

CheckpointsOnlyAdvance ==
  [][\A j \in Jobs : GoesOnFrom(job[j].cp, job'[j].cp)]_vars

(* With one credential the team is asked once, and once more each time the *)
(* job is rebuilt: lost receipts, repeated ticks, second dispatchers and   *)
(* crashes never make a second assignment of the same attempt.             *)
(* The exception: with another credential they do, in the same room,       *)
(* because the job is not bound to the one its assignment was first sent   *)
(* with (docs/AGENTTEAMS_TASK_SERVICE.md:10 says that one request is sent).*)
AssignedBy(j, bearer) == {a \in team[j].assigned : a.bearer = bearer}

OneAssignmentPerAttempt ==
  \A j \in Jobs, b \in Bearers :
    Cardinality(AssignedBy(j, b)) <=
      (IF job[j].cp.backend = "native" THEN 1 + job[j].cp.restarts ELSE 0)

(* A job is completed only by a valid report: its team had accepted every  *)
(* task of the project, or every worker had answered validly.              *)
CompletedIsAccepted ==
  \A j \in Jobs : job[j].status = "completed" =>
    /\ job[j].report
    /\ j \notin Tampered
    /\ job[j].cp.backend = "native" => team[j].proved
    /\ job[j].cp.backend = "matrix" =>
         \A r \in 1..Len(Roles) : \E i \in 1..Len(log[j][r]) : log[j][r][i].kind = "report"

(* A worker is asked at most once for a job, whichever credential is used. *)
AskedOnce == \A j \in Jobs, r \in 1..Len(Roles) : Cardinality(Asked(j, r)) <= 1

(* While a job waits for a worker, the answer that was not yet read lies   *)
(* behind the stored cursor: it cannot be missed.                          *)
AnswerNotSkipped ==
  \A j \in Open :
    LET cp == job[j].cp IN
    (cp.backend = "matrix" /\ cp.cursor # 0) =>
      \A i \in Answered(j, cp.stage) : i >= cp.cursor

(* Every job that is queued is completed, failed or canceled in the end,   *)
(* also behind another one that waits.  There is one exception, of which   *)
(* the service notices nothing: a project that is found, but that no team  *)
(* was asked to work on.  Either the installation was replaced after the   *)
(* team had been asked, and a dispatcher that had lost its lease then made *)
(* the project again; or the job came from the older backend with the      *)
(* receipt of a worker's request.                                          *)
Forgotten(j) ==
  /\ job[j].cp.backend = "native"
  /\ job[j].cp.sent
  /\ team[j].project # "none"
  /\ ~Heard(j)

EveryJobSettles ==
  \A j \in Jobs : (job[j].status = "queued") ~> (job[j].status \in Terminal \/ Forgotten(j))
=============================================================================
