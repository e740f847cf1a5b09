-------------------------- MODULE WorkflowJournal ---------------------------
(***************************************************************************)
(* The workflow journal of one incident, the workflow half of store.py in  *)
(* services/security-tool-gateway/app.  workflow.jsonl is append-only and  *)
(* a session's state is that of its last event.  A transition takes the    *)
(* store's lock twice: once to read the state it checks, once to append.   *)
(* The routes are plain functions, so each runs in a pool thread (a mover  *)
(* here) and other movers may come between the two.                        *)
(*                                                                         *)
(* Messages and actors are left out, and recorded_at with them: where a    *)
(* caller wants the latest event, that is the last one appended.           *)
(***************************************************************************)
EXTENDS Naturals, Sequences, SequencesExt

CONSTANTS
  Movers,    \* threads of the gateway that serve a transition
  Sessions,  \* workflow session ids
  MaxEvents  \* bound on the length of the journal

VARIABLES
  journal,   \* workflow.jsonl, the events of the incident
  transit    \* [Movers -> the event a thread has decided to append]

wfVars == <<journal, transit>>

WorkflowStates ==
  {"received", "investigating", "evidence_validation", "awaiting_approval",
   "approved", "executing", "completed", "rejected", "failed", "timed_out"}

(* "none" is a session without an event.                                   *)
Transitions ==
  [none                |-> {"received"},
   received            |-> {"investigating", "failed", "timed_out"},
   investigating       |-> {"evidence_validation", "failed", "timed_out"},
   evidence_validation |-> {"awaiting_approval", "completed", "failed"},
   awaiting_approval   |-> {"approved", "rejected", "timed_out"},
   approved            |-> {"executing", "failed"},
   executing           |-> {"completed", "failed"},
   timed_out           |-> {"investigating", "failed"},
   failed              |-> {"investigating"},
   rejected            |-> {},
   completed           |-> {}]

Events == [session : Sessions, previous : DOMAIN Transitions,
           state : WorkflowStates]
NoEvent == [session |-> "none"]

(* workflow(incident, session): the last event of the session decides.     *)
StateOf(s) ==
  LET mine == {k \in DOMAIN journal : journal[k].session = s}
  IN  IF mine = {} THEN "none" ELSE journal[Max(mine)].state

(* workflow(incident): the sessions in the order of their first events.    *)
SessionOrder ==
  SelectSeq([i \in DOMAIN journal |->
               IF \E k \in 1..(i - 1) : journal[k].session = journal[i].session
               THEN NoEvent ELSE journal[i]],
            LAMBDA e : e # NoEvent)

(* The sessions of the incident that wait for a human, oldest first.       *)
AwaitingSessions ==
  SelectSeq([i \in DOMAIN SessionOrder |-> SessionOrder[i].session],
            LAMBDA s : StateOf(s) = "awaiting_approval")

WorkflowInit(start) ==
  /\ journal = start
  /\ transit = [m \in Movers |-> NoEvent]

(* transition_workflow up to its second lock: the state is read and the    *)
(* transition allowed.                                                     *)
CheckTransition(m, s, state) ==
  /\ transit[m] = NoEvent
  /\ state \in Transitions[StateOf(s)]
  /\ Len(journal) < MaxEvents
  /\ transit' = [transit EXCEPT ![m] =
       [session |-> s, previous |-> StateOf(s), state |-> state]]
  /\ UNCHANGED journal

(* transition_workflow from its second lock on: the event is appended as   *)
(* it was decided, whatever has been appended since.                       *)
AppendTransition(m) ==
  /\ transit[m] # NoEvent
  /\ journal' = Append(journal, transit[m])
  /\ transit' = [transit EXCEPT ![m] = NoEvent]

WorkflowTypeOK ==
  /\ journal \in Seq(Events)
  /\ transit \in [Movers -> Events \cup {NoEvent}]
=============================================================================
