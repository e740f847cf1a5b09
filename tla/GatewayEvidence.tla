-------------------------- MODULE GatewayEvidence ---------------------------
(***************************************************************************)
(* The gateway's evidence ledger and what it tells about an incident:      *)
(* collect and the summary of store.py, the run view of run_view.py, the   *)
(* live connectors and the quality score, under                            *)
(* services/security-tool-gateway/app.  evidence.jsonl is append-only; the *)
(* executor's journal is read over HTTP or from its file, and goes on      *)
(* while a record is on its way to the ledger and between the two reads of *)
(* a view.                                                                 *)
(*                                                                         *)
(* One incident.  The laboratory's own check is LabVerification; here only *)
(* what its verdicts may be is used.                                       *)
(***************************************************************************)
EXTENDS ResponseExecutor, FiniteSetsExt, SequencesExt

CONSTANTS
  Collectors,   \* threads that serve POST /tools/...
  Pairs,        \* (action, target) pairs
  PairOf,       \* [Actions -> Pairs]
  Runs,         \* run ids
  RunOf,        \* [Actions -> Runs], from the proposal
  Required,     \* required_actions of the scenario file
  Observations, \* what live connectors deliver, as Features below
  MaxEvidence   \* bound on the ledger

ASSUME EvidenceAssumption ==
  /\ PairOf \in [Actions -> Pairs]
  /\ RunOf \in [Actions -> Runs]
  /\ Required \subseteq Pairs

VARIABLES
  evidence,   \* evidence.jsonl
  collecting  \* [Collectors -> the record about to be appended]

evidenceVars == <<evidence, collecting>>

-----------------------------------------------------------------------------
(* normalize: required counts the five required fields present; the rest   *)
(* say whether the record has a timestamp that parses, an entity or        *)
(* observable to correlate, a hypothesis link and an ATT&CK technique.     *)
Features ==
  [required : 0..5, dated : BOOLEAN, correlates : BOOLEAN,
   linked : BOOLEAN, mapped : BOOLEAN]

ASSUME ObservationsAssumption == Observations \subseteq Features

(* In thousandths, as the score is rounded.                                *)
Score(f) ==
  100 * f.required + (IF f.dated THEN 150 ELSE 0)
    + (IF f.correlates THEN 150 ELSE 0) + (IF f.linked THEN 100 ELSE 0)
    + (IF f.mapped THEN 100 ELSE 0)

MinimumQuality == 700

NoRun == "no run"
Empty == [kind |-> "none"]
Ledger ==
  [kind : {"recovery_metrics", "observation"},
   scenario : {"fixture", "lab_identity", "live"},
   run : Runs \cup {NoRun}, action : Actions \cup {NoRun},
   verdict : {"none", "verified", "failed", "inconclusive"},
   intact : BOOLEAN]

EvidenceInit ==
  /\ evidence = <<>>
  /\ collecting = [c \in Collectors |-> Empty]

(* GET /audit/incidents/.../active answers from one locked, valid journal. *)
ActivePairs == {PairOf[a] : a \in {b \in Actions : Active(b)}}

(* Mutant: any active action is enough.                                    *)
AnyResponse == IF Ready /\ ActivePairs # {} THEN "verified" ELSE "inconclusive"

(* _recovery_record and _evaluate_required_response: verified when every   *)
(* required pair is active; inconclusive without an audit, without a       *)
(* contract or with a pair missing.                                        *)
FixtureVerdict ==
  IF Ready /\ Required # {} /\ Required \subseteq ActivePairs
  THEN "verified" ELSE "inconclusive"

(* Where no audit service is configured, the journal's file is read as it  *)
(* is: what was executed and not yet rolled back is taken to be active.    *)
UnauditedPairs ==
  {PairOf[a] : a \in {b \in Actions : Has(b, {"executed"}) /\
                                       ~Has(b, {"rolled_back"})}}

FileVerdict ==
  IF Required # {} /\ Required \subseteq UnauditedPairs
  THEN "verified" ELSE "inconclusive"

(* A torn line raises.                                                     *)
FixtureVerdicts ==
  {FixtureVerdict} \cup (IF auditValid THEN {FileVerdict} ELSE {})

(* What lab_verification may conclude for an action of a run.              *)
LabVerdicts(a, run) ==
  {"inconclusive"} \cup
  (IF Ready /\ Active(a) /\ Proposal(a).mode = "lab" /\ RunOf[a] = run
   THEN {"verified", "failed"} ELSE {})

Hold(c, record) ==
  /\ collecting[c] = Empty
  /\ Len(evidence) < MaxEvidence
  /\ collecting' = [collecting EXCEPT ![c] = record]
  /\ UNCHANGED <<evidence, execVars>>

(* A scenario file's recorded tools; recovery.metrics is not taken from    *)
(* the file but evaluated against the executor's audit.                    *)
CollectFixture(c, run) ==
  \/ Hold(c, [kind |-> "observation", scenario |-> "fixture", run |-> run,
              action |-> NoRun, verdict |-> "none", intact |-> TRUE])
  \/ \E verdict \in FixtureVerdicts :
       Hold(c, [kind |-> "recovery_metrics", scenario |-> "fixture",
                run |-> run, action |-> NoRun, verdict |-> verdict,
                intact |-> TRUE])

(* The identity laboratory only has recovery.metrics, for a run it is      *)
(* asked about; without one the check raises and nothing is collected.     *)
CollectLab(c, run, a) ==
  /\ run # NoRun
  /\ \E verdict \in LabVerdicts(a, run) :
       Hold(c, [kind |-> "recovery_metrics", scenario |-> "lab_identity",
                run |-> run, action |-> a, verdict |-> verdict,
                intact |-> TRUE])

(* A live connector: what it reports of recovery is kept but not believed, *)
(* and a record below the quality gate is refused.  A connector that is    *)
(* not configured, not reachable or not JSON raises: nothing is collected. *)
CollectLive(c, run, f) ==
  /\ Score(f) >= MinimumQuality
  /\ \E kind \in {"observation", "recovery_metrics"} :
       Hold(c, [kind |-> kind, scenario |-> "live", run |-> run,
                action |-> NoRun,
                verdict |-> IF kind = "recovery_metrics" THEN "inconclusive"
                                                         ELSE "none",
                intact |-> TRUE])

(* _append, under the store's lock.                                        *)
AppendEvidence(c) ==
  /\ collecting[c] # Empty
  /\ evidence' = Append(evidence, collecting[c])
  /\ collecting' = [collecting EXCEPT ![c] = Empty]
  /\ UNCHANGED execVars

(* A line of the ledger is edited on disk; its envelope digest stays.      *)
EditEvidence(i) ==
  /\ i \in DOMAIN evidence
  /\ evidence[i].intact
  /\ evidence' = [evidence EXCEPT ![i].intact = FALSE]
  /\ UNCHANGED <<collecting, execVars>>

EvidenceStep ==
  \/ \E c \in Collectors, run \in Runs \cup {NoRun} :
       \/ CollectFixture(c, run)
       \/ \E a \in Actions : CollectLab(c, run, a)
       \/ \E f \in Observations : CollectLive(c, run, f)
  \/ \E c \in Collectors : AppendEvidence(c)
  \/ \E i \in DOMAIN evidence : EditEvidence(i)

-----------------------------------------------------------------------------
(* Views.  Each reads the ledger first and the executor's journal after    *)
(* it, so it may pair any earlier state of the ledger, its first n lines,  *)
(* with the journal of now.                                                *)

Statuses == UNION {{history[a][i].status : i \in DOMAIN history[a]} :
                     a \in Actions}

(* incident_summary.                                                       *)
Summary(n) ==
  CASE ~auditValid -> "audit_error"
    [] auditValid /\ "rolled_back" \in Statuses -> "rolled_back"
    [] auditValid /\ "rolled_back" \notin Statuses /\ "executed" \in Statuses
       -> IF /\ n > 0
             /\ evidence[n].kind = "recovery_metrics"
             /\ evidence[n].verdict = "verified"
          THEN "verified" ELSE "responding"
    [] OTHER -> IF "pending_approval" \in Statuses THEN "awaiting_approval"
                                                   ELSE "investigating"

RunEvidence(n, run) == {i \in 1..n : evidence[i].run = run}

(* Observations of the action in its own run, from a laboratory.           *)
ObservationsOf(n, a) ==
  {i \in RunEvidence(n, RunOf[a]) :
     /\ evidence[i].intact
     /\ evidence[i].kind = "recovery_metrics"
     /\ evidence[i].scenario = "lab_identity"
     /\ evidence[i].action = a}

(* Mutant: a verdict stays, whatever became of the action.                 *)
VerificationEver(n, a) ==
  IF /\ Ready
     /\ Has(a, {"executed"})
     /\ ObservationsOf(n, a) # {}
     /\ \A i \in RunEvidence(n, RunOf[a]) : evidence[i].intact
  THEN evidence[Max(ObservationsOf(n, a))].verdict
  ELSE "inconclusive"

(* build: the latest observation's verdict, if the action's last event is  *)
(* executed and no line of the run was edited.  Without an authenticated   *)
(* snapshot there are no actions to show.                                  *)
Verification(n, a) ==
  IF /\ Ready
     /\ Proposed(a)
     /\ LastStatus(a) = "executed"
     /\ ObservationsOf(n, a) # {}
     /\ \A i \in RunEvidence(n, RunOf[a]) : evidence[i].intact
  THEN evidence[Max(ObservationsOf(n, a))].verdict
  ELSE "inconclusive"

EvidenceTypeOK ==
  /\ evidence \in Seq(Ledger)
  /\ collecting \in [Collectors -> Ledger \cup {Empty}]

-----------------------------------------------------------------------------
RollbackOpen ==
  \E a \in Actions :
    /\ Proposed(a)
    /\ LastStatus(a) \in {"rollback_dispatched", "rollback_unknown"}

(* An incident is only summed up as verified while the response that was   *)
(* found in force still is: however long the verdict took to reach the     *)
(* ledger, whatever the executor did meanwhile and between the two reads   *)
(* of the summary.  A rollback whose outcome is open is the exception: the *)
(* summary looks for rolled_back only.                                     *)
VerifiedSummaryHolds ==
  \A n \in DOMAIN evidence :
    Summary(n) = "verified" /\ ~RollbackOpen =>
      IF evidence[n].scenario = "fixture" THEN Required \subseteq ActivePairs
                                          ELSE Active(evidence[n].action)

(* "Even a previously verified observation cannot keep a rollback green",  *)
(* nor a rollback under way, an observation of another action or run, or   *)
(* one found in an edited ledger.                                          *)
GreenRunIsLive ==
  \A n \in DOMAIN evidence : \A a \in Actions :
    Verification(n, a) = "verified" =>
      /\ Active(a)
      /\ \A i \in 1..n : evidence[i].run = RunOf[a] => evidence[i].intact
      /\ \E i \in 1..n : /\ evidence[i].action = a
                         /\ evidence[i].run = RunOf[a]
                         /\ evidence[i].verdict = "verified"
=============================================================================
