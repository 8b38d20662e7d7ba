-------------------------- MODULE MCBudgetLedger --------------------------
(***************************************************************************)
(* The budget ledger, and the odometer it implements, on a small instance. *)
(* Asset key 0 is the key an empty reservation slot names, so the zero     *)
(* slot and a real budget can be confused here.                            *)
(***************************************************************************)
EXTENDS BudgetLedgerOdometer

MCAssetKeys == {0, 1}
MCAmounts == 0 .. 3
=============================================================================
