--------------------------- MODULE BudgetLedger ---------------------------
(***************************************************************************)
(* contracts/BudgetLedger.sol: the privacy-budget ledger.                  *)
(*                                                                         *)
(* Every asset key has at most one budget, and every request key at most   *)
(* one reservation, for ever: a reservation that was consumed or released  *)
(* keeps its slot.  Anybody may call every function; msg.sender is a       *)
(* parameter of each operation.  A call whose guard fails reverts and      *)
(* changes nothing, so it is not a step.  Solidity 0.8 arithmetic is       *)
(* checked: a subtraction below zero or an addition above MaxUint reverts, *)
(* which is a guard like the others.                                       *)
(*                                                                         *)
(* An operator named Op_Xyz just before Op is a mutated form of Op: a bug  *)
(* under which one of the properties must fail.  No specification uses it. *)
(*                                                                         *)
(* bytes32 keys, addresses and amounts are natural numbers; 0 is the       *)
(* default of every mapping slot, hence also the zero key and address(0).  *)
(***************************************************************************)
EXTENDS Integers, FiniteSets, Functions

CONSTANTS
  AssetKeys,    \* bytes32 asset keys in play, 0 possibly among them
  RequestKeys,  \* bytes32 request keys in play
  Addresses,    \* every address that can be msg.sender
  Amounts,      \* the uint256 amounts callers pass
  MaxUint       \* type(uint256).max

ASSUME LedgerConstants ==
  /\ AssetKeys \subseteq Nat
  /\ Addresses \subseteq Nat \ {0}
  /\ MaxUint \in Nat
  /\ Amounts \subseteq 0 .. MaxUint

ASSUME FiniteRequestKeys == IsFiniteSet(RequestKeys)

VARIABLES
  budgets,       \* mapping(bytes32 => Budget)
  reservations,  \* mapping(bytes32 => Reservation)
  charged        \* request key |-> amount its BudgetConsumed events add up to

ledgerVars == <<budgets, reservations, charged>>

NoBudget == [total |-> 0, reserved |-> 0, used |-> 0, exists |-> FALSE]
NoReservation == [assetId |-> 0, amount |-> 0, reserver |-> 0, status |-> "None"]

Init ==
  /\ budgets = [a \in AssetKeys |-> NoBudget]
  /\ reservations = [r \in RequestKeys |-> NoReservation]
  /\ charged = [r \in RequestKeys |-> 0]

---------------------------------------------------------------------------
(* The operations *)

registerBudget(assetId, totalBudget) ==
  /\ totalBudget # 0
  /\ ~ budgets[assetId].exists
  /\ budgets' = [budgets EXCEPT ![assetId] =
                   [total |-> totalBudget, reserved |-> 0, used |-> 0, exists |-> TRUE]]
  /\ UNCHANGED <<reservations, charged>>

remaining_IgnoresUsed(assetId) == budgets[assetId].total - budgets[assetId].reserved

remaining_IgnoresReserved(assetId) == budgets[assetId].total - budgets[assetId].used

remaining(assetId) ==
  budgets[assetId].total - budgets[assetId].reserved - budgets[assetId].used

ReserveAllowed_ZeroAmount(assetId, requestId, amount) ==
  /\ budgets[assetId].exists
  /\ reservations[requestId].status = "None"
  /\ amount <= remaining(assetId)

ReserveAllowed_Again(assetId, requestId, amount) ==
  /\ budgets[assetId].exists
  /\ amount # 0
  /\ amount <= remaining(assetId)

(* What reserveBudget requires before it touches the budget's counters. *)
ReserveAllowed(assetId, requestId, amount) ==
  /\ budgets[assetId].exists
  /\ amount # 0
  /\ reservations[requestId].status = "None"
  /\ amount <= remaining(assetId)

reserveBudget(sender, assetId, requestId, amount) ==
  /\ ReserveAllowed(assetId, requestId, amount)
  /\ budgets[assetId].reserved + amount <= MaxUint
  /\ budgets' = [budgets EXCEPT ![assetId].reserved = @ + amount]
  /\ reservations' = [reservations EXCEPT ![requestId] =
                        [assetId |-> assetId, amount |-> amount,
                         reserver |-> sender, status |-> "Reserved"]]
  /\ UNCHANGED charged

HoldsReservation_AnyCaller(sender, assetId, requestId) ==
  /\ budgets[assetId].exists
  /\ reservations[requestId].assetId = assetId
  /\ reservations[requestId].status = "Reserved"

(* The guards consumeBudget and releaseBudget share. *)
HoldsReservation(sender, assetId, requestId) ==
  /\ budgets[assetId].exists
  /\ reservations[requestId].assetId = assetId
  /\ reservations[requestId].status = "Reserved"
  /\ reservations[requestId].reserver = sender

ConsumeAllowed_AnyAmount(sender, assetId, requestId, actualAmount) ==
  /\ HoldsReservation(sender, assetId, requestId)
  /\ actualAmount # 0

(* What consumeBudget requires before it touches the budget's counters. *)
ConsumeAllowed(sender, assetId, requestId, actualAmount) ==
  /\ HoldsReservation(sender, assetId, requestId)
  /\ actualAmount # 0
  /\ actualAmount <= reservations[requestId].amount

consumeBudget_KeepsRemainder(sender, assetId, requestId, actualAmount) ==
  /\ ConsumeAllowed(sender, assetId, requestId, actualAmount)
  /\ actualAmount <= budgets[assetId].reserved
  /\ budgets[assetId].used + actualAmount <= MaxUint
  /\ budgets' = [budgets EXCEPT ![assetId].reserved = @ - actualAmount,
                                ![assetId].used = @ + actualAmount]
  /\ reservations' = [reservations EXCEPT ![requestId].status = "Consumed"]
  /\ charged' = [charged EXCEPT ![requestId] = @ + actualAmount]

consumeBudget(sender, assetId, requestId, actualAmount) ==
  LET amount == reservations[requestId].amount IN
  /\ ConsumeAllowed(sender, assetId, requestId, actualAmount)
  /\ amount <= budgets[assetId].reserved
  /\ budgets[assetId].used + actualAmount <= MaxUint
  /\ budgets' = [budgets EXCEPT ![assetId].reserved = @ - amount,
                                ![assetId].used = @ + actualAmount]
  /\ reservations' = [reservations EXCEPT ![requestId].status = "Consumed"]
  /\ charged' = [charged EXCEPT ![requestId] = @ + actualAmount]

releaseBudget(sender, assetId, requestId) ==
  LET amount == reservations[requestId].amount IN
  /\ HoldsReservation(sender, assetId, requestId)
  /\ amount <= budgets[assetId].reserved
  /\ budgets' = [budgets EXCEPT ![assetId].reserved = @ - amount]
  /\ reservations' = [reservations EXCEPT ![requestId].status = "Released"]
  /\ UNCHANGED charged

(* Any transaction that reaches the ledger from the address sender. *)
LedgerCall(sender) ==
  \E a \in AssetKeys :
    \/ \E t \in Amounts : registerBudget(a, t)
    \/ \E r \in RequestKeys, n \in Amounts : reserveBudget(sender, a, r, n)
    \/ \E r \in RequestKeys, n \in Amounts : consumeBudget(sender, a, r, n)
    \/ \E r \in RequestKeys : releaseBudget(sender, a, r)

Next == \E sender \in Addresses : LedgerCall(sender)

Spec == Init /\ [][Next]_ledgerVars

---------------------------------------------------------------------------
(* Correctness *)

Statuses == {"None", "Reserved", "Consumed", "Released"}

LedgerTypes ==
  /\ budgets \in [AssetKeys -> [total : Nat, reserved : Nat, used : Nat, exists : BOOLEAN]]
  /\ reservations \in [RequestKeys -> [assetId : Nat, amount : Nat,
                                       reserver : Addresses \cup {0}, status : Statuses]]
  /\ charged \in [RequestKeys -> Nat]

BudgetShape(a) ==
  IF budgets[a].exists THEN budgets[a].total \in 1 .. MaxUint
                       ELSE budgets[a] = NoBudget

ReservationShape(r) ==
  IF reservations[r].status = "None"
  THEN reservations[r] = NoReservation
  ELSE /\ reservations[r].assetId \in AssetKeys
       /\ budgets[reservations[r].assetId].exists
       /\ reservations[r].amount > 0
       /\ reservations[r].reserver \in Addresses

(* A slot is either the zero slot or one the guards let through: a budget  *)
(* exists exactly when its total is not zero, and a reservation that was   *)
(* made names a budget that exists, a positive amount and a real caller.   *)
LedgerTypeOK ==
  /\ LedgerTypes
  /\ \A a \in AssetKeys : BudgetShape(a)
  /\ \A r \in RequestKeys : ReservationShape(r)

(* What the ledger's views, the scripts' invariant checks and the tests    *)
(* rely on: reserved and used together never exceed the asset's total, in  *)
(* whatever order reservations are made, consumed and released.            *)
Solvency ==
  \A a \in AssetKeys : budgets[a].reserved + budgets[a].used <= budgets[a].total

(* A request is charged once, by its own consumed reservation, and never   *)
(* more than that reservation held.                                        *)
ChargedWithinReservation ==
  \A r \in RequestKeys :
    IF reservations[r].status = "Consumed"
    THEN charged[r] \in 1 .. reservations[r].amount
    ELSE charged[r] = 0

Outstanding(a) ==
  {r \in RequestKeys : reservations[r].status = "Reserved" /\ reservations[r].assetId = a}

Spenders(a) ==
  {r \in RequestKeys : reservations[r].status = "Consumed" /\ reservations[r].assetId = a}

Held == [r \in RequestKeys |-> reservations[r].amount]

(* The two running counters of a budget agree with the reservations they   *)
(* summarise: reserved is the sum of the outstanding ones and used the sum *)
(* of what consumed ones were charged; the unused part of a consumed       *)
(* reservation is neither.                                                 *)
CountersOf(a) ==
  /\ budgets[a].reserved = SumFunctionOnSet(Held, Outstanding(a))
  /\ budgets[a].used = SumFunctionOnSet(charged, Spenders(a))

CountersMatchReservations == \A a \in AssetKeys : CountersOf(a)

(* No holder is ever locked out by arithmetic: when the explicit checks of *)
(* consumeBudget or releaseBudget pass, the checked subtraction and        *)
(* addition behind them cannot revert.                                     *)
ArithmeticNeverReverts ==
  \A s \in Addresses, r \in RequestKeys :
    LET a == reservations[r].assetId IN
    (a \in AssetKeys /\ HoldsReservation(s, a, r)) =>
      /\ reservations[r].amount <= budgets[a].reserved
      /\ budgets[a].used + reservations[r].amount <= MaxUint

(* A request key is used up by its first reservation: the amount, asset    *)
(* and holder never change again, the status only goes from Reserved to    *)
(* Consumed or Released and then stays, and no budget is ever resized,     *)
(* removed or given back what was spent.                                   *)
SlotEvolves(r) ==
  LET old == reservations[r]
      new == reservations'[r] IN
  \/ new = old
  \/ old.status = "None" /\ new.status = "Reserved"
  \/ /\ old.status = "Reserved"
     /\ \E s \in {"Consumed", "Released"} : new = [old EXCEPT !.status = s]

BudgetEvolves(a) ==
  budgets[a].exists =>
    /\ budgets'[a].exists
    /\ budgets'[a].total = budgets[a].total
    /\ budgets'[a].used >= budgets[a].used

LedgerHistory ==
  [][/\ \A r \in RequestKeys : SlotEvolves(r)
     /\ \A a \in AssetKeys : BudgetEvolves(a)]_ledgerVars
=============================================================================
