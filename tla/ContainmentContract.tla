------------------------ MODULE ContainmentContract -------------------------
(***************************************************************************)
(* What controlled response promises about the one account it may touch,   *)
(* with no journal, wire, lock, crash or retry: every action takes effect  *)
(* at most once and only after a human approved it, is undone at most once *)
(* and only after its effect was reported and its reversal authorised, and *)
(* is reported in the past tense only.  Docs: docs/LAB_EXECUTION.md,       *)
(* "Failure, restart and concurrency".                                     *)
(***************************************************************************)
CONSTANT Actions

VARIABLES
  effect,    \* how far each action has gone in the world
  reported   \* what the executor has told its readers about it

cvars == <<effect, reported>>

Effects == {"none", "approved", "authorised", "in_force", "undoing", "undone"}
Reports == {"none", "executed", "rolled_back"}

Holding == {a \in Actions : effect[a] \in {"in_force", "undoing"}}

Init ==
  /\ effect = [a \in Actions |-> "none"]
  /\ reported = [a \in Actions |-> "none"]

Advance(a, from, to) ==
  /\ effect[a] = from
  /\ effect' = [effect EXCEPT ![a] = to]

Approve(a)   == Advance(a, "none", "approved") /\ UNCHANGED reported
Authorise(a) == Advance(a, "approved", "authorised") /\ UNCHANGED reported

(* Late arrival included: at any time after authorisation, if it is free.  *)
TakeEffect(a) ==
  /\ Holding = {}
  /\ Advance(a, "authorised", "in_force")
  /\ UNCHANGED reported

Report(a) ==
  /\ \/ /\ effect[a] = "in_force" /\ reported[a] = "none"
        /\ reported' = [reported EXCEPT ![a] = "executed"]
     \/ /\ effect[a] = "undone" /\ reported[a] = "executed"
        /\ reported' = [reported EXCEPT ![a] = "rolled_back"]
  /\ UNCHANGED effect

AuthoriseUndo(a) ==
  /\ reported[a] = "executed"
  /\ Advance(a, "in_force", "undoing")
  /\ UNCHANGED reported

Undo(a) == Advance(a, "undoing", "undone") /\ UNCHANGED reported

Next == \E a \in Actions : \/ Approve(a) \/ Authorise(a) \/ TakeEffect(a)
                           \/ Report(a) \/ AuthoriseUndo(a) \/ Undo(a)

Spec == Init /\ [][Next]_cvars
=============================================================================
