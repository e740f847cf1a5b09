-------------------------- MODULE LabVerification ---------------------------
(***************************************************************************)
(* The gateway's recovery check of an identity action, lab_verification.py *)
(* under services/security-tool-gateway/app: it reads the executor's audit *)
(* once, then probes the target and the control account of the identity    *)
(* service, and calls the action verified when the target is refused and   *)
(* the control is let in.  The executor goes on meanwhile.                 *)
(***************************************************************************)
EXTENDS IdentityResponse

VARIABLE check  \* the verification in progress, or its verdict

allVars == <<vars, check>>

NoCheck == [stage |-> "none"]

(* holder is auxiliary: the owner of the account when it was probed.       *)
Checks ==
  [stage : {"audited"}, action : Actions] \cup
  [stage : {"probed", "verified", "failed", "inconclusive"},
   action : Actions, allowed : BOOLEAN, holder : Actions \cup {NoOwner}]

(* GET /audit/incidents/.../active: one locked, validated snapshot, with   *)
(* exactly one active disable_account entry for this action and run.       *)
ReadAudit(a) ==
  /\ check = NoCheck
  /\ Ready
  /\ InLab(a)
  /\ Active(a)
  /\ check' = [stage |-> "audited", action |-> a]

(* GET /access with the target's credential.                               *)
ProbeTarget ==
  /\ check.stage = "audited"
  /\ check' = [stage |-> "probed", action |-> check.action,
               allowed |-> account.enabled, holder |-> account.owner]

(* GET /access with the control's credential, whose account no operation   *)
(* may change, or a probe error.                                           *)
ProbeControl ==
  /\ check.stage = "probed"
  /\ \/ check' = [check EXCEPT !.stage =
                    IF check.allowed THEN "failed" ELSE "verified"]
     \/ check' = [check EXCEPT !.stage = "inconclusive"]

VerifyStep ==
  /\ \/ \E a \in Actions : ReadAudit(a)
     \/ ProbeTarget
     \/ ProbeControl
  /\ UNCHANGED vars

VerifyInit == Init /\ check = NoCheck
VerifyNext == VerifyStep \/ (Next /\ UNCHANGED check)
VerifySpec == VerifyInit /\ [][VerifyNext]_allVars

(* "verified only for a matching active run/action/environment, disabled   *)
(* target": the account was disabled by the action the verdict is about.   *)
(* The code reads the audit before it probes and never again.              *)
VerdictIsAboutAction ==
  check.stage = "verified" => check.holder = check.action
=============================================================================
