------------------------ MODULE BudgetLedgerOdometer ------------------------
(***************************************************************************)
(* The budget ledger seen as a PrivacyOdometer: the claims are its         *)
(* reservations, and the counters are not looked at.                       *)
(***************************************************************************)
EXTENDS BudgetLedger

(* What a request claims: what it reserved until it is consumed, and then  *)
(* what it was charged.                                                    *)
CostOf(r) == IF reservations[r].status = "Consumed" THEN charged[r] ELSE reservations[r].amount

StateOf(r) ==
  CASE reservations[r].status = "None"     -> "unclaimed"
    [] reservations[r].status = "Reserved" -> "open"
    [] reservations[r].status = "Consumed" -> "spent"
    [] reservations[r].status = "Released" -> "returned"

Limits == [a \in AssetKeys |-> budgets[a].total]
Claims ==
  [r \in RequestKeys |->
     [asset |-> reservations[r].assetId, cost |-> CostOf(r), state |-> StateOf(r)]]

Odometer == INSTANCE PrivacyOdometer WITH limit <- Limits, claim <- Claims

(* Every step of the ledger is a step of the odometer: the counters it     *)
(* keeps never admit a claim that the claims themselves would not.         *)
ImplementsOdometer == Odometer!Spec
=============================================================================
