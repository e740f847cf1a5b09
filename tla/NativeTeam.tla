----------------------------- MODULE NativeTeam -----------------------------
(***************************************************************************)
(* The native backend: one project of AgentTeams for each job, asked for   *)
(* in a room made for it and observed until its tasks are accepted.  The   *)
(* upload of the case and the room are made anew when their receipts are   *)
(* lost; the project has a name derived from the job, so that repeating it *)
(* is recognised; the assignment has a transaction name, and its room      *)
(* recognises one repeated with the credential it was first sent with.     *)
(*                                                                         *)
(* AgentTeams itself is external: its rooms, its projects and what its     *)
(* members do are modelled from what advance and pause look at.            *)
(***************************************************************************)
EXTENDS InvestigationQueue

CONSTANTS MaxRooms,    \* bound: rooms made for one job
          MaxRestarts  \* times a job is rebuilt after its project was lost

ASSUME NativeAssumption == MaxRooms \in Nat \ {0} /\ MaxRestarts \in Nat

VARIABLES team  \* what AgentTeams has of each job; proved is auxiliary: all
                \* tasks were once accepted and a valid report published

(* A checkpoint of this backend.  Room 0 is no room; the address of the    *)
(* uploaded case, which only saves a second upload, is left out.           *)
NativeStart ==
  [backend |-> "native", room |-> 0, project |-> FALSE,
   sent |-> FALSE, restarts |-> 0]

NativeInit ==
  team = [j \in Jobs |-> [rooms |-> 0, lost |-> 0, assigned |-> {},
                          project |-> "none", nodes |-> "open", report |-> "none",
                          proved |-> FALSE]]

NativeTypeOK ==
  \A j \in Jobs :
    /\ team[j].rooms \in 0..MaxRooms
    /\ team[j].lost \in 0..team[j].rooms
    /\ team[j].assigned \subseteq [room : 1..team[j].rooms, bearer : Bearers]
    /\ team[j].project \in {"none", "active", "paused", "completed"}
    /\ team[j].nodes \in {"open", "accepted"}
    /\ team[j].report \in {"none", "listed", "valid"}
    /\ team[j].proved \in BOOLEAN

(* advance continues what the checkpoint says was begun.  A checkpoint of  *)
(* the older backend becomes one of this; of what it holds only the        *)
(* receipt of a request is read, and taken for that of an assignment.      *)
Begun(cp) ==
  CASE cp.backend = "none"   -> NativeStart
    [] cp.backend = "matrix" -> [NativeStart EXCEPT !.sent = cp.sent]
    [] cp.backend = "native" -> cp

Native(d) == Dispatchable(d)

StepUnchanged == UNCHANGED <<job, queue, lease, cancelling, setting, budget>>

-----------------------------------------------------------------------------
(* The first step: the case is published and the room made unless the      *)
(* checkpoint has them or the receipt of a request, then the project is    *)
(* created; one that exists is taken if this job had asked for it.         *)
NeedsProject(d) == Native(d) /\ ~Begun(tick[d].cp).project

(* The room this attempt uses, a new one when the checkpoint has none.     *)
RoomFor(j, cp) ==
  IF cp.room = 0 /\ ~cp.sent THEN team[j].rooms + 1 ELSE cp.room

Created(t) == IF t.project = "none"
              THEN [t EXCEPT !.project = "active", !.nodes = "open", !.report = "none"]
              ELSE t

WithRoom(t, room) == [t EXCEPT !.rooms = IF room > @ THEN room ELSE @]

CreateProject(d) ==
  LET j    == tick[d].job
      cp   == Begun(tick[d].cp)
      room == RoomFor(j, cp)
  IN
  /\ NeedsProject(d)
  /\ room <= MaxRooms
  /\ team' = [team EXCEPT ![j] = WithRoom(Created(@), room)]
  /\ Return(d, "running", [cp EXCEPT !.room = room, !.project = TRUE])
  /\ UNCHANGED faults
  /\ StepUnchanged

(* A call of that step fails: what was answered before is kept in the      *)
(* checkpoint; what the failed call did may be there all the same.         *)
CreateFails(d) ==
  LET j  == tick[d].job
      cp == Begun(tick[d].cp)
      room == RoomFor(j, cp)
      roomed == WithRoom(team[j], room)
  IN
  /\ NeedsProject(d)
  /\ room <= MaxRooms
  /\ Fault
  /\ \/ /\ cp.room = 0
        /\ team' = [team EXCEPT ![j] = roomed]
        /\ Return(d, "waiting_backend", cp)
     \/ /\ team' \in {[team EXCEPT ![j] = roomed], [team EXCEPT ![j] = Created(roomed)]}
        /\ Return(d, "waiting_backend", [cp EXCEPT !.room = room])
  /\ StepUnchanged

-----------------------------------------------------------------------------
(* A call answered that the project or the room is not there: the case is  *)
(* rebuilt from the stored materials, twice at most.                       *)

(* Mutant: rebuilding is not counted.                                      *)
RebuildUncounted(d) ==
  LET cp == tick[d].cp IN
  IF cp.restarts < MaxRestarts
  THEN Return(d, "running", [NativeStart EXCEPT !.restarts = cp.restarts])
  ELSE Return(d, "failed", cp)

Rebuild(d) ==
  LET cp == tick[d].cp IN
  IF cp.restarts < MaxRestarts
  THEN Return(d, "running", [NativeStart EXCEPT !.restarts = cp.restarts + 1])
  ELSE Return(d, "failed", cp)

(* The second step: the assignment, under the project's name as its        *)
(* transaction: the room takes it once from each credential.               *)
NeedsAssignment(d) == Native(d) /\ tick[d].cp.backend = "native"
                      /\ tick[d].cp.project /\ ~tick[d].cp.sent

(* What is sent is known by the room it is sent into and the credential of *)
(* the process that sends it, which the checkpoint does not keep.          *)
Assignment(d) == [room |-> tick[d].cp.room, bearer |-> setting[d].bearer]

RoomGone(d) == tick[d].cp.room <= team[tick[d].job].lost

Assign(d) ==
  /\ NeedsAssignment(d)
  /\ ~RoomGone(d)
  /\ team' = [team EXCEPT ![tick[d].job].assigned = @ \cup {Assignment(d)}]
  /\ Return(d, "running", [tick[d].cp EXCEPT !.sent = TRUE])
  /\ UNCHANGED faults
  /\ StepUnchanged

AssignFails(d) ==
  /\ NeedsAssignment(d)
  /\ ~RoomGone(d)
  /\ Fault
  /\ team' = [team EXCEPT ![tick[d].job].assigned = @ \cup {Assignment(d)}]
  /\ Return(d, "waiting_backend", tick[d].cp)
  /\ StepUnchanged

AssignNowhere(d) ==
  /\ NeedsAssignment(d)
  /\ RoomGone(d)
  /\ Rebuild(d)
  /\ UNCHANGED <<team, faults>>
  /\ StepUnchanged

-----------------------------------------------------------------------------
(* Every later step observes the project.                                  *)
Observing(d) == Native(d) /\ tick[d].cp.backend = "native" /\ tick[d].cp.sent

(* Mutant: the end of the project is taken for the acceptance of its tasks.*)
ObserveTrusting(d) ==
  LET j == tick[d].job
      t == team[j]
      cp == tick[d].cp
  IN
  /\ Observing(d)
  /\ IF t.project = "none" THEN Rebuild(d) /\ UNCHANGED team
     ELSE IF t.project = "completed"
       THEN Return(d, "completed", cp) /\ UNCHANGED team
     ELSE Return(d, "running", cp) /\ UNCHANGED team
  /\ UNCHANGED faults
  /\ StepUnchanged

Observe(d) ==
  LET j == tick[d].job
      t == team[j]
      cp == tick[d].cp
      done == t.project = "completed"
      accepted == t.nodes = "accepted"
  IN
  /\ Observing(d)
  /\ IF t.project = "none" THEN Rebuild(d) /\ UNCHANGED team
     ELSE IF ~done /\ ~(t.project = "active" /\ accepted)
       THEN Return(d, "running", cp) /\ UNCHANGED team
     ELSE IF ~accepted \/ t.report = "none"
       THEN Return(d, "failed", cp) /\ UNCHANGED team
     ELSE IF t.report = "listed" THEN Rebuild(d) /\ UNCHANGED team
     ELSE IF done THEN Return(d, "completed", cp) /\ UNCHANGED team
     ELSE Return(d, "running", cp) /\ team' = [team EXCEPT ![j].project = "completed"]
  /\ UNCHANGED faults
  /\ StepUnchanged

(* AgentTeams cannot be reached, or refuses for good.                      *)
NativeUnavailable(d) ==
  /\ Native(d)
  /\ Fault
  /\ \E status \in {"waiting_backend", "failed"}, cp \in {tick[d].cp, Begun(tick[d].cp)} :
       Return(d, status, cp)
  /\ UNCHANGED team
  /\ StepUnchanged

-----------------------------------------------------------------------------
(* pause, within cancel.  Failing leaves the job as it was, whatever       *)
(* became of the project.                                                  *)
Paused(t) == IF t.project \in {"active"} THEN [t EXCEPT !.project = "paused"] ELSE t

CancelPause(j) ==
  /\ cancelling[j] = "pausing"
  /\ team[j].project # "none"
  /\ team' = [team EXCEPT ![j] = Paused(@)]
  /\ cancelling' = [cancelling EXCEPT ![j] = "writing"]
  /\ UNCHANGED <<job, queue, lease, tick, setting, budget, faults>>

CancelPauseFails(j) ==
  /\ cancelling[j] = "pausing"
  /\ \/ team[j].project = "none" /\ UNCHANGED <<team, faults>>
     \/ Fault /\ team' \in {team, [team EXCEPT ![j] = Paused(@)]}
  /\ cancelling' = [cancelling EXCEPT ![j] = "no"]
  /\ UNCHANGED <<job, queue, lease, tick, setting, budget>>

-----------------------------------------------------------------------------
(* The other side.  The team works on what it was assigned in a room that  *)
(* is still there; its leader may end the project early; a person looks    *)
(* after projects that stopped without having been canceled.  What becomes *)
(* of a project once its job has ended is not followed; a report of which  *)
(* no valid one is published counts as none.                               *)
OtherSide == UNCHANGED queueVars

Heard(j) == \E a \in team[j].assigned : a.room > team[j].lost

TeamAccepts(j) ==
  /\ j \in Open
  /\ team[j].project = "active"
  /\ team[j].nodes = "open"
  /\ Heard(j)
  /\ \E report \in {"none", "listed", "valid"} :
       team' = [team EXCEPT ![j].nodes = "accepted", ![j].report = report,
                            ![j].proved = @ \/ report = "valid"]
  /\ OtherSide

TeamEnds(j) ==
  /\ j \in Open
  /\ team[j].project = "active"
  /\ Heard(j)
  /\ team' = [team EXCEPT ![j].project = "completed"]
  /\ OtherSide

TeamBlocks(j) ==
  /\ j \in Open
  /\ team[j].project = "active"
  /\ team[j].nodes = "open"
  /\ Fault
  /\ team' = [team EXCEPT ![j].project = "paused"]
  /\ UNCHANGED <<job, queue, lease, tick, cancelling, setting, budget>>

Attend(j) ==
  /\ team[j].project \in {"paused"}
  /\ j \in Open
  /\ cancelling[j] = "no"
  /\ team' = [team EXCEPT ![j].project = "active"]
  /\ OtherSide

(* A listed report is published; that takes the team a while.              *)
TeamPublishes(j) ==
  /\ j \in Open
  /\ team[j].report = "listed"
  /\ team' = [team EXCEPT ![j].report = "valid", ![j].proved = TRUE]
  /\ OtherSide

(* The installation is replaced by an empty one.                           *)
StudioRestart ==
  /\ Fault
  /\ team' = [j \in Jobs |-> [team[j] EXCEPT
       !.lost = team[j].rooms, !.project = "none", !.nodes = "open", !.report = "none"]]
  /\ UNCHANGED <<job, queue, lease, tick, cancelling, setting, budget>>
=============================================================================
