------------------------ MODULE MCOperationsConsole -------------------------
(* One incident.  The initial state is one of two: two requests to come,   *)
(* proposals to decide and a full ledger; or the requests served, two      *)
(* actions approved and an empty ledger, in simulation or laboratory mode. *)
EXTENDS OperationsConsole, TLC

CONSTANTS a1, a2, k1, k2, r1, r2, g1, x1, c1, p1, p2

MCActions  == {a1, a2}
MCDecidable == {a1}
MCKeys     == {k1, k2}
MCModes    == {[mode |-> "simulation", url |-> "lab"],
               [mode |-> "lab", url |-> "lab"]}
(* One tick outlasts an approval.                                          *)
MCMinutes  == {0}
MCRequests == {r1, r2}
MCAgents   == {g1}
MCMovers   == MCRequests \cup MCAgents
MCSessions == {"console", "s1"}
MCReplayKeys == {x1}
MCOperatorMoves == {"approved"}
MCAgentMoves == {"timed_out", "awaiting_approval"}
MCCollectors == {c1}
MCPairs      == {p1, p2}
MCPairOf     == [a \in MCActions |-> IF a = a1 THEN p1 ELSE p2]
MCRuns       == {"run"}
MCRunOf      == [a \in MCActions |-> "run"]
(* A complete record, and one without timestamp, entities and technique.   *)
MCObservations ==
  {[required |-> 5, dated |-> TRUE, correlates |-> TRUE, linked |-> TRUE,
    mapped |-> TRUE],
   [required |-> 5, dated |-> FALSE, correlates |-> FALSE, linked |-> TRUE,
    mapped |-> FALSE]}

Path(s, states) ==
  [i \in DOMAIN states |->
     [session |-> s, state |-> states[i],
      previous |-> IF i = 1 THEN "none" ELSE states[i - 1]]]

(* s1 waits for a human, or is an agent's step away from it.              *)
MCStarts ==
  {Path("s1", <<"received", "investigating", "evidence_validation",
                "awaiting_approval">>),
   Path("console", <<"received">>) \o
     Path("s1", <<"received", "investigating", "evidence_validation">>)}

Pending(a) ==
  [status |-> "pending_approval", key |-> IF a = a1 THEN k1 ELSE k2,
   kind |-> "disable_account", mode |-> config.mode, url |-> "lab", env |-> 0]

Other == [kind |-> "observation", scenario |-> "fixture", run |-> NoRun,
          action |-> NoRun, verdict |-> "none",
          intact |-> FALSE]

ApproveOf(a) == [kind |-> "decide", action |-> a, verdict |-> "approve"]
Served(a) == [stage |-> "done", via |-> "page", key |-> NoKey,
              order |-> ApproveOf(a), session |-> "s1", end |-> "recorded"]
RowOf(r, a) == [action |-> a, verdict |-> "approve", by |-> r, key |-> NoKey]

Deciding ==
  /\ now = 0
  /\ config.mode = "simulation"
  /\ history = [a \in Actions |-> IF a = a1 THEN <<Pending(a)>> ELSE <<>>]
  /\ \E start \in MCStarts : WorkflowInit(start)
  /\ request = [r \in Requests |-> Idle]
  /\ decisions = <<>>
  /\ evidence = [i \in 1..MaxEvidence |-> Other]

Verifying ==
  /\ now = MaxTime
  /\ history = [a \in Actions |->
       <<Pending(a), [status |-> "approved", cites |-> 1, expires |-> MaxTime]>>]
  /\ WorkflowInit(Path("s1", <<"received", "investigating",
                              "evidence_validation", "awaiting_approval",
                              "approved", "executing">>))
  /\ \E r, q \in Requests :
       /\ r # q
       /\ request = (r :> Served(a1)) @@ (q :> Served(a2))
       /\ decisions = <<RowOf(r, a1), RowOf(q, a2)>>
  /\ evidence = <<>>

MCInit ==
  /\ config \in Configs
  /\ auditValid = TRUE
  /\ call = NoCall
  /\ inflight = {}
  /\ posts = [op \in Ops |-> 0]
  /\ stored = {}
  /\ aged = {}
  /\ collecting = [c \in Collectors |-> Empty]
  /\ Deciding \/ Verifying

MCSymmetry == Permutations(MCRequests)

MCSpec == MCInit /\ [][Next]_allVars
=============================================================================
