------------------------- MODULE OperationsConsole --------------------------
(***************************************************************************)
(* The operations console, the gateway's workflow journal and evidence     *)
(* ledger, and the executor whose proposals are decided and whose journal  *)
(* the gateway reads.  The console is the only approver here.              *)
(***************************************************************************)
EXTENDS ConsoleDecisions, GatewayEvidence

allVars == <<history, auditValid, config, now, call, inflight, posts,
             journal, transit, request, decisions, stored, aged,
             evidence, collecting>>

(* The executor carries out and undoes what was approved; what it posts to *)
(* a laboratory is answered with a receipt or not at all.                  *)
ExecutorGoesOn ==
  \/ \E a \in Actions : Execute(a) \/ Rollback(a)
  \/ SendPost
  \/ /\ call # NoCall
     /\ Reply(call.verb, <<call.action, call.phase>>, "applied")
     /\ UNCHANGED <<history, auditValid, config, now, inflight, posts>>
  \/ Finish
  \/ NoReceipt
  \/ TornAppend
  \/ Tick

Next ==
  \/ DecisionStep /\ UNCHANGED evidenceVars
  \/ EvidenceStep /\ UNCHANGED <<wfVars, consoleVars>>
  \/ ExecutorGoesOn /\ UNCHANGED <<wfVars, consoleVars, evidenceVars>>

TypeOK == DecisionTypeOK /\ EvidenceTypeOK
=============================================================================
