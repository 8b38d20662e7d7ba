------------------------- MODULE SettlementAccounts -------------------------
(***************************************************************************)
(* The deployed contracts seen as AtomicSettlement: what the five          *)
(* contracts know of a request, taken together, is its account.            *)
(***************************************************************************)
EXTENDS TrustCircuitSettlement

Nullifiers == {s.nullifier : s \in PublicSignals}

(* A request's account is settled only when every contract says so; any    *)
(* mixture is broken, a state AtomicSettlement does not have.              *)
AccountOf(r) ==
  LET slot == reservations[r] IN
  IF ~ HeldBySettlement(r)
  THEN [state |-> "open", asset |-> 0, amount |-> 0, nullifier |-> 0]
  ELSE [state |-> CASE slot.status = "Reserved" -> "held"
                    [] /\ slot.status = "Consumed"
                       /\ EventsOf(r) # {}
                       /\ expectations[r].verified
                       /\ requests[r].status = "Completed" -> "settled"
                    [] OTHER -> "broken",
        asset |-> slot.assetId,
        amount |-> IF slot.status = "Reserved" THEN slot.amount ELSE charged[r],
        nullifier |-> IF slot.status = "Reserved" THEN 0 ELSE expectations[r].nullifier]

Accounts == [r \in RequestKeys |-> AccountOf(r)]

Account == INSTANCE AtomicSettlement WITH account <- Accounts, burned <- nullifierUsed

(* Whatever anybody calls in between, the contracts take a request's       *)
(* account from open to held to settled, and settle it in one step.        *)
ImplementsAtomicSettlement == Account!Spec
=============================================================================
