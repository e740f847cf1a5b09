---------------------------- MODULE IdentityLab -----------------------------
(***************************************************************************)
(* The identity laboratory, services/lab-identity/server.py: one account,  *)
(* compromised-lab, that an operation disables or restores.  The account   *)
(* row and the receipt of the operation commit in one SQLite transaction,  *)
(* so the server has no state a crash could lose.                          *)
(*                                                                         *)
(* The request of an operation is a function of its identifier (lab.py,    *)
(* operation), so the canonical request kept beside each receipt never     *)
(* differs from a repeated one.  Refused requests leave no receipt.        *)
(***************************************************************************)
EXTENDS Naturals

CONSTANTS LabActions,  \* identifiers of the actions that reach this server
          NoOwner      \* the SQL NULL of accounts.owner

LabOps == LabActions \X {"execution", "rollback"}

VARIABLES
  account,   \* [enabled, owner]: the row of compromised-lab
  receipts   \* operations that were applied, each with its durable receipt

labVars == <<account, receipts>>

LabInit ==
  /\ account = [enabled |-> TRUE, owner |-> NoOwner]
  /\ receipts = {}

(* Mutant: a disable is applied whoever holds the account.                 *)
CanAlwaysDisable(op) ==
  op[2] = "rollback" => /\ <<op[1], "execution">> \in receipts
                        /\ ~account.enabled
                        /\ account.owner = op[1]

(* The precondition of a first application; otherwise 409 Conflict.        *)
CanApply(op) ==
  IF op[2] = "execution"
    THEN account.enabled /\ account.owner = NoOwner
    ELSE /\ <<op[1], "execution">> \in receipts
         /\ ~account.enabled
         /\ account.owner = op[1]

(* A known operation is answered with its receipt and changes nothing.     *)
Apply(op) ==
  IF op \notin receipts /\ CanApply(op)
    THEN /\ receipts' = receipts \cup {op}
         /\ account' = IF op[2] = "execution"
                         THEN [enabled |-> FALSE, owner |-> op[1]]
                         ELSE [enabled |-> TRUE, owner |-> NoOwner]
    ELSE UNCHANGED labVars

LabTypeOK ==
  /\ account \in [enabled : BOOLEAN, owner : LabActions \cup {NoOwner}]
  /\ receipts \subseteq LabOps

(* The account is disabled exactly while one action holds it, and that     *)
(* action is the one whose disable, but not whose restore, was applied:    *)
(* restoring somebody else's action, or disabling twice, is impossible.    *)
OwnerHoldsAccount ==
  /\ account.enabled <=> account.owner = NoOwner
  /\ \A a \in LabActions :
       account.owner = a <=> /\ <<a, "execution">> \in receipts
                             /\ <<a, "rollback">> \notin receipts
  /\ \A a \in LabActions :
       <<a, "rollback">> \in receipts => <<a, "execution">> \in receipts
=============================================================================
