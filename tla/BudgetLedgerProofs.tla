------------------------ MODULE BudgetLedgerProofs ------------------------
(***************************************************************************)
(* Theorems of the budget ledger for any sets of keys, callers and amounts.*)
(* The inductive invariant is LedgerInv: the shape of the slots, solvency, *)
(* the charge of every request and the two sums behind every budget's      *)
(* counters.  Solvency does not need the sums, because the checked         *)
(* subtraction of consumeBudget is a guard; that this guard never fails,   *)
(* and that the ledger implements the odometer, does.                      *)
(***************************************************************************)
EXTENDS BudgetLedgerOdometer, FiniteSums, TLAPS

LedgerInv ==
  LedgerTypeOK /\ Solvency /\ ChargedWithinReservation /\ CountersMatchReservations

---------------------------------------------------------------------------
(* The counters.  The sums change by one request at most in every call.    *)

(* The sums of a budget are over finite sets of natural numbers.           *)
LEMMA SummandsAreFinite ==
  ASSUME LedgerTypes, NEW a
  PROVE  /\ IsFiniteSet(Outstanding(a)) /\ Outstanding(a) \in SUBSET RequestKeys
         /\ IsFiniteSet(Spenders(a)) /\ Spenders(a) \in SUBSET RequestKeys
         /\ \A q \in RequestKeys : Held[q] = reservations[q].amount
         /\ \A q \in RequestKeys : Held[q] \in Nat /\ charged[q] \in Nat
BY FiniteRequestKeys, FS_Subset DEF Outstanding, Spenders, Held, LedgerTypes

(* A call that leaves a budget and its requests alone leaves its sums.     *)
LEMMA CountersKept ==
  ASSUME LedgerTypes, NEW a \in AssetKeys, CountersOf(a),
         budgets'[a].reserved = budgets[a].reserved, budgets'[a].used = budgets[a].used,
         Outstanding(a)' = Outstanding(a), Spenders(a)' = Spenders(a),
         \A q \in Outstanding(a) : reservations'[q].amount = reservations[q].amount,
         \A q \in Spenders(a) : charged'[q] = charged[q]
  PROVE  CountersOf(a)'
<1>1. SumFunctionOnSet(Held', Outstanding(a)) = SumFunctionOnSet(Held, Outstanding(a))
  <2>1. \A q \in Outstanding(a) : Held'[q] = Held[q]
    BY SummandsAreFinite DEF Held
  <2>. QED
    BY <2>1, SummandsAreFinite, SumDependsOnValues
<1>2. SumFunctionOnSet(charged', Spenders(a)) = SumFunctionOnSet(charged, Spenders(a))
  BY SummandsAreFinite, SumDependsOnValues
<1>. QED
  BY <1>1, <1>2 DEF CountersOf

(* A new budget has no reservations yet: a reservation names a budget that *)
(* exists.                                                                 *)
LEMMA RegisterKeepsCounters ==
  ASSUME LedgerTypeOK, CountersMatchReservations,
         NEW a \in AssetKeys, NEW t \in Amounts, registerBudget(a, t)
  PROVE  CountersMatchReservations'
<1>. SUFFICES ASSUME NEW b \in AssetKeys PROVE CountersOf(b)'
  BY DEF CountersMatchReservations
<1>1. Outstanding(b)' = Outstanding(b) /\ Spenders(b)' = Spenders(b)
  BY DEF registerBudget, Outstanding, Spenders
<1>2. CASE b = a
  <2>1. Outstanding(a) = {} /\ Spenders(a) = {}
    BY DEF registerBudget, Outstanding, Spenders, LedgerTypeOK, ReservationShape
  <2>2. budgets'[a].reserved = 0 /\ budgets'[a].used = 0
    BY DEF registerBudget, LedgerTypeOK, LedgerTypes
  <2>. QED
    BY <1>1, <1>2, <2>1, <2>2, SumEmpty DEF CountersOf
<1>3. CASE b # a
  <2>1. budgets'[b] = budgets[b] /\ UNCHANGED <<reservations, charged>>
    BY <1>3 DEF registerBudget, LedgerTypeOK, LedgerTypes
  <2>2. LedgerTypes /\ CountersOf(b)
    BY DEF LedgerTypeOK, CountersMatchReservations
  <2>. QED
    BY <1>1, <2>1, <2>2, CountersKept
<1>. QED
  BY <1>2, <1>3

(* A reservation enters the sum of its budget with the amount that is      *)
(* added to reserved.                                                      *)
LEMMA ReserveKeepsCounters ==
  ASSUME LedgerTypeOK, CountersMatchReservations, NEW s \in Addresses, NEW a \in AssetKeys,
         NEW r \in RequestKeys, NEW n \in Nat, reserveBudget(s, a, r, n)
  PROVE  CountersMatchReservations'
<1>. SUFFICES ASSUME NEW b \in AssetKeys PROVE CountersOf(b)'
  BY DEF CountersMatchReservations
<1>1. reservations[r].status = "None" /\ LedgerTypes /\ CountersOf(b)
  BY DEF reserveBudget, ReserveAllowed, LedgerTypeOK, CountersMatchReservations
<1>2. /\ reservations'[r] = [assetId |-> a, amount |-> n, reserver |-> s, status |-> "Reserved"]
      /\ \A q \in RequestKeys \ {r} : reservations'[q] = reservations[q]
      /\ charged' = charged
  BY <1>1 DEF reserveBudget, LedgerTypes
<1>3. Spenders(b)' = Spenders(b)
  BY <1>1, <1>2 DEF Spenders
<1>4. CASE b = a
  <2>1. Outstanding(a)' = Outstanding(a) \cup {r} /\ r \notin Outstanding(a)
    BY <1>1, <1>2 DEF Outstanding
  <2>2. budgets'[a].reserved = budgets[a].reserved + n /\ budgets'[a].used = budgets[a].used
    BY <1>1 DEF reserveBudget, LedgerTypes
  <2>3. Held'[r] = n /\ \A q \in RequestKeys \ {r} : Held'[q] = Held[q]
    BY <1>2 DEF Held
  <2>4. \A q \in Outstanding(a) : q # r /\ Held'[q] = Held[q] /\ Held'[q] \in Nat
    BY <1>1, <2>1, <2>3, SummandsAreFinite
  <2>5. SumFunctionOnSet(Held', Outstanding(a) \cup {r}) = SumFunctionOnSet(Held', Outstanding(a)) + n
    BY <1>1, <2>1, <2>3, <2>4, SummandsAreFinite, SumAdd
  <2>6. SumFunctionOnSet(Held', Outstanding(a)) = SumFunctionOnSet(Held, Outstanding(a))
    BY <1>1, <2>4, SummandsAreFinite, SumDependsOnValues
  <2>. QED
    BY <1>1, <1>2, <1>3, <1>4, <2>1, <2>2, <2>5, <2>6 DEF CountersOf
<1>5. CASE b # a
  <2>1. budgets'[b] = budgets[b]
    BY <1>1, <1>5 DEF reserveBudget, LedgerTypes
  <2>2. Outstanding(b)' = Outstanding(b) /\ r \notin Outstanding(b)
    BY <1>1, <1>2, <1>5 DEF Outstanding
  <2>3. \A q \in Outstanding(b) : reservations'[q] = reservations[q]
    BY <1>1, <1>2, <2>2, SummandsAreFinite
  <2>. QED
    BY <1>1, <1>2, <1>3, <2>1, <2>2, <2>3, CountersKept
<1>. QED
  BY <1>4, <1>5

(* A call that ends the reservation r of asset a: what it held leaves      *)
(* reserved.                                                               *)
LEMMA EndedReservation ==
  ASSUME LedgerTypes, CountersMatchReservations, NEW a \in AssetKeys, NEW r \in RequestKeys,
         reservations[r].assetId = a, reservations[r].status = "Reserved",
         NEW to \in {"Consumed", "Released"},
         reservations' = [reservations EXCEPT ![r].status = to]
  PROVE  /\ \A b \in AssetKeys :
              Outstanding(b)' = IF b = a THEN Outstanding(b) \ {r} ELSE Outstanding(b)
         /\ Held' = Held
         /\ SumFunctionOnSet(Held, Outstanding(a) \ {r}) = budgets[a].reserved - reservations[r].amount
         /\ reservations[r].amount <= budgets[a].reserved
<1>1. /\ reservations'[r].status = to /\ reservations'[r].assetId = a
      /\ reservations'[r].amount = reservations[r].amount
      /\ \A q \in RequestKeys \ {r} : reservations'[q] = reservations[q]
  BY DEF LedgerTypes
<1>2. \A b \in AssetKeys :
        Outstanding(b)' = IF b = a THEN Outstanding(b) \ {r} ELSE Outstanding(b)
  BY <1>1 DEF Outstanding
<1>3. Held' = Held
  BY <1>1 DEF Held
<1>4. r \in Outstanding(a)
  BY DEF Outstanding
<1>. DEFINE rest == SumFunctionOnSet(Held, Outstanding(a) \ {r})
<1>5. budgets[a].reserved = reservations[r].amount + rest
  BY <1>4, SummandsAreFinite, SumRemove DEF CountersMatchReservations, CountersOf
<1>6. rest \in Nat /\ reservations[r].amount \in Nat
  <2>1. IsFiniteSet(Outstanding(a) \ {r}) /\ \A q \in Outstanding(a) \ {r} : Held[q] \in Nat
    BY SummandsAreFinite, FS_RemoveElement
  <2>. QED
    BY <2>1, SumIsNat DEF LedgerTypes
<1>7. rest = budgets[a].reserved - reservations[r].amount /\ reservations[r].amount <= budgets[a].reserved
  <2>. HIDE DEF rest
  <2>. QED
    BY <1>5, <1>6
<1>. QED
  BY <1>2, <1>3, <1>7

(* A consumed reservation leaves the outstanding ones and is charged what  *)
(* is added to used, whatever it held beyond that.                         *)
LEMMA ConsumeKeepsCounters ==
  ASSUME LedgerTypeOK, ChargedWithinReservation, CountersMatchReservations,
         NEW s \in Addresses, NEW a \in AssetKeys, NEW r \in RequestKeys, NEW n \in Nat,
         consumeBudget(s, a, r, n)
  PROVE  CountersMatchReservations'
<1>. SUFFICES ASSUME NEW b \in AssetKeys PROVE CountersOf(b)'
  BY DEF CountersMatchReservations
<1>1. /\ LedgerTypes /\ CountersOf(b)
      /\ reservations[r].assetId = a /\ reservations[r].status = "Reserved"
      /\ reservations' = [reservations EXCEPT ![r].status = "Consumed"]
  BY DEF consumeBudget, ConsumeAllowed, HoldsReservation, LedgerTypeOK, CountersMatchReservations
<1>2. /\ Outstanding(b)' = IF b = a THEN Outstanding(b) \ {r} ELSE Outstanding(b)
      /\ Held' = Held
      /\ SumFunctionOnSet(Held, Outstanding(a) \ {r}) = budgets[a].reserved - reservations[r].amount
  BY <1>1, EndedReservation
<1>3. charged[r] = 0
  BY <1>1 DEF ChargedWithinReservation
<1>4. charged'[r] = n /\ \A q \in RequestKeys \ {r} : charged'[q] = charged[q]
  BY <1>1, <1>3 DEF consumeBudget, LedgerTypes
<1>5. Spenders(b)' = (IF b = a THEN Spenders(b) \cup {r} ELSE Spenders(b)) /\ r \notin Spenders(b)
  BY <1>1 DEF Spenders, LedgerTypes
<1>6. SumFunctionOnSet(charged', Spenders(b)) = SumFunctionOnSet(charged, Spenders(b))
  BY <1>1, <1>4, <1>5, SummandsAreFinite, SumDependsOnValues
<1>7. CASE b = a
  <2>1. /\ budgets'[a].reserved = budgets[a].reserved - reservations[r].amount
        /\ budgets'[a].used = budgets[a].used + n
    BY <1>1 DEF consumeBudget, LedgerTypes
  <2>2. \A q \in Spenders(a) : charged'[q] \in Nat
    BY <1>1, <1>4, <1>5, <1>7, SummandsAreFinite
  <2>3. SumFunctionOnSet(charged', Spenders(a) \cup {r}) = SumFunctionOnSet(charged', Spenders(a)) + n
    BY <1>1, <1>4, <1>5, <1>7, <2>2, SummandsAreFinite, SumAdd
  <2>. QED
    BY <1>1, <1>2, <1>5, <1>6, <1>7, <2>1, <2>3 DEF CountersOf
<1>8. CASE b # a
  <2>1. budgets'[b] = budgets[b]
    BY <1>1, <1>8 DEF consumeBudget, LedgerTypes
  <2>. QED
    BY <1>1, <1>2, <1>5, <1>6, <1>8, <2>1 DEF CountersOf
<1>. QED
  BY <1>7, <1>8

(* A released reservation only leaves the outstanding ones.                *)
LEMMA ReleaseKeepsCounters ==
  ASSUME LedgerTypeOK, CountersMatchReservations,
         NEW s \in Addresses, NEW a \in AssetKeys, NEW r \in RequestKeys, releaseBudget(s, a, r)
  PROVE  CountersMatchReservations'
<1>. SUFFICES ASSUME NEW b \in AssetKeys PROVE CountersOf(b)'
  BY DEF CountersMatchReservations
<1>1. /\ LedgerTypes /\ CountersOf(b)
      /\ reservations[r].assetId = a /\ reservations[r].status = "Reserved"
      /\ reservations' = [reservations EXCEPT ![r].status = "Released"]
      /\ charged' = charged
  BY DEF releaseBudget, HoldsReservation, LedgerTypeOK, CountersMatchReservations
<1>2. /\ Outstanding(b)' = IF b = a THEN Outstanding(b) \ {r} ELSE Outstanding(b)
      /\ Held' = Held
      /\ SumFunctionOnSet(Held, Outstanding(a) \ {r}) = budgets[a].reserved - reservations[r].amount
  BY <1>1, EndedReservation
<1>3. Spenders(b)' = Spenders(b)
  BY <1>1 DEF Spenders, LedgerTypes
<1>4. /\ budgets'[a].reserved = budgets[a].reserved - reservations[r].amount
      /\ budgets'[a].used = budgets[a].used
      /\ b # a => budgets'[b] = budgets[b]
  BY <1>1 DEF releaseBudget, LedgerTypes
<1>. QED
  BY <1>1, <1>2, <1>3, <1>4 DEF CountersOf

---------------------------------------------------------------------------
(* The other conjuncts.                                                    *)

(* The empty ledger satisfies the invariant.                               *)
LEMMA LedgerInit == Init => LedgerInv
<1>. SUFFICES ASSUME Init PROVE LedgerInv
  OBVIOUS
<1>1. LedgerTypeOK /\ Solvency /\ ChargedWithinReservation
  BY LedgerConstants
     DEF Init, LedgerTypeOK, LedgerTypes, BudgetShape, ReservationShape, Solvency,
         ChargedWithinReservation, NoBudget, NoReservation, Statuses
<1>2. ASSUME NEW a \in AssetKeys PROVE CountersOf(a)
  <2>1. Outstanding(a) = {} /\ Spenders(a) = {}
    BY DEF Init, Outstanding, Spenders, NoReservation
  <2>. QED
    BY <2>1, SumEmpty DEF Init, NoBudget, CountersOf
<1>. QED
  BY <1>1, <1>2 DEF LedgerInv, CountersMatchReservations

(* registerBudget opens a budget in an empty slot, with nothing reserved.  *)
LEMMA RegisterPreserves ==
  ASSUME LedgerInv, NEW a \in AssetKeys, NEW t \in Amounts, registerBudget(a, t)
  PROVE  LedgerInv'
<1>1. LedgerTypeOK'
  <2>1. LedgerTypes'
    BY LedgerConstants
       DEF LedgerInv, LedgerTypeOK, LedgerTypes, registerBudget, Statuses
  <2>2. ASSUME NEW b \in AssetKeys PROVE BudgetShape(b)'
    <3>1. budgets'[a].exists /\ budgets'[a].total \in 1 .. MaxUint
      BY LedgerConstants DEF LedgerInv, LedgerTypeOK, LedgerTypes, registerBudget
    <3>2. b # a => budgets'[b] = budgets[b]
      BY DEF LedgerInv, LedgerTypeOK, LedgerTypes, registerBudget
    <3>. QED
      BY <3>1, <3>2 DEF LedgerInv, LedgerTypeOK, BudgetShape, NoBudget
  <2>3. ASSUME NEW q \in RequestKeys PROVE ReservationShape(q)'
    BY LedgerConstants
       DEF LedgerInv, LedgerTypeOK, LedgerTypes, ReservationShape, NoReservation,
           registerBudget
  <2>. QED
    BY <2>1, <2>2, <2>3 DEF LedgerTypeOK
<1>2. Solvency'
  BY LedgerConstants DEF LedgerInv, LedgerTypeOK, LedgerTypes, Solvency, registerBudget
<1>3. ChargedWithinReservation'
  BY DEF LedgerInv, ChargedWithinReservation, registerBudget
<1>4. CountersMatchReservations'
  BY RegisterKeepsCounters DEF LedgerInv
<1>. QED
  BY <1>1, <1>2, <1>3, <1>4 DEF LedgerInv

(* reserveBudget takes from what remains. The amount need not be one the   *)
(* users pass: the settlement contract passes the epsilon of a request.    *)
LEMMA ReservePreserves ==
  ASSUME LedgerInv, NEW s \in Addresses, NEW a \in AssetKeys, NEW r \in RequestKeys,
         NEW n \in Nat, reserveBudget(s, a, r, n)
  PROVE  LedgerInv'
<1>1. LedgerTypeOK'
  <2>1. LedgerTypes'
    BY LedgerConstants
       DEF LedgerInv, LedgerTypeOK, LedgerTypes, reserveBudget, ReserveAllowed, Statuses
  <2>2. ASSUME NEW b \in AssetKeys PROVE BudgetShape(b)'
    <3>1. budgets'[a].exists = budgets[a].exists /\ budgets'[a].total = budgets[a].total
      BY LedgerConstants DEF LedgerInv, LedgerTypeOK, LedgerTypes, reserveBudget
    <3>2. b # a => budgets'[b] = budgets[b]
      BY DEF LedgerInv, LedgerTypeOK, LedgerTypes, reserveBudget
    <3>3. budgets[a].exists
      BY DEF reserveBudget, ReserveAllowed
    <3>. QED
      BY <3>1, <3>2, <3>3 DEF LedgerInv, LedgerTypeOK, BudgetShape, NoBudget
  <2>3. ASSUME NEW q \in RequestKeys PROVE ReservationShape(q)'
    BY LedgerConstants
       DEF LedgerInv, LedgerTypeOK, LedgerTypes, ReservationShape, NoReservation,
           reserveBudget, ReserveAllowed
  <2>. QED
    BY <2>1, <2>2, <2>3 DEF LedgerTypeOK
<1>2. Solvency'
  BY LedgerConstants
     DEF LedgerInv, LedgerTypeOK, LedgerTypes, Solvency, reserveBudget, ReserveAllowed, remaining
<1>3. ChargedWithinReservation'
  BY LedgerConstants
     DEF LedgerInv, LedgerTypeOK, LedgerTypes, ChargedWithinReservation, reserveBudget, ReserveAllowed
<1>4. CountersMatchReservations'
  BY ReserveKeepsCounters DEF LedgerInv
<1>. QED
  BY <1>1, <1>2, <1>3, <1>4 DEF LedgerInv

(* consumeBudget moves at most the reserved amount to used; the checked    *)
(* subtraction keeps reserved a natural number.                            *)
LEMMA ConsumePreserves ==
  ASSUME LedgerInv, NEW s \in Addresses, NEW a \in AssetKeys, NEW r \in RequestKeys,
         NEW n \in Nat, consumeBudget(s, a, r, n)
  PROVE  LedgerInv'
<1>1. LedgerTypeOK'
  <2>1. LedgerTypes'
    <3>1. /\ reservations[r].amount \in Nat /\ budgets[a].reserved \in Nat
          /\ budgets[a].used \in Nat /\ charged[r] \in Nat
      BY DEF LedgerInv, LedgerTypeOK, LedgerTypes
    <3>2. PICK left \in Nat, used \in Nat :
            /\ left = budgets[a].reserved - reservations[r].amount
            /\ used = budgets[a].used + n
      BY <3>1 DEF consumeBudget
    <3>3. budgets' \in [AssetKeys ->
                         [total : Nat, reserved : Nat, used : Nat, exists : BOOLEAN]]
      <4>1. budgets' = [budgets EXCEPT ![a].reserved = left, ![a].used = used]
        BY <3>2 DEF consumeBudget
      <4>. QED
        BY <4>1 DEF LedgerInv, LedgerTypeOK, LedgerTypes
    <3>4. reservations' \in [RequestKeys -> [assetId : Nat, amount : Nat,
                                reserver : Addresses \cup {0}, status : Statuses]]
      BY DEF LedgerInv, LedgerTypeOK, LedgerTypes, consumeBudget, Statuses
    <3>5. charged' \in [RequestKeys -> Nat]
      BY <3>1 DEF LedgerInv, LedgerTypeOK, LedgerTypes, consumeBudget
    <3>. QED
      BY <3>3, <3>4, <3>5 DEF LedgerTypes
  <2>2. ASSUME NEW b \in AssetKeys PROVE BudgetShape(b)'
    <3>1. budgets'[a].exists = budgets[a].exists /\ budgets'[a].total = budgets[a].total
      BY LedgerConstants DEF LedgerInv, LedgerTypeOK, LedgerTypes, consumeBudget
    <3>2. b # a => budgets'[b] = budgets[b]
      BY DEF LedgerInv, LedgerTypeOK, LedgerTypes, consumeBudget
    <3>3. budgets[a].exists
      BY DEF consumeBudget, ConsumeAllowed, HoldsReservation
    <3>. QED
      BY <3>1, <3>2, <3>3 DEF LedgerInv, LedgerTypeOK, BudgetShape, NoBudget
  <2>3. ASSUME NEW q \in RequestKeys PROVE ReservationShape(q)'
    BY LedgerConstants
       DEF LedgerInv, LedgerTypeOK, LedgerTypes, ReservationShape, NoReservation,
           consumeBudget, ConsumeAllowed, HoldsReservation
  <2>. QED
    BY <2>1, <2>2, <2>3 DEF LedgerTypeOK
<1>2. Solvency'
  BY LedgerConstants
     DEF LedgerInv, LedgerTypeOK, LedgerTypes, Solvency, consumeBudget, ConsumeAllowed, HoldsReservation
<1>3. ChargedWithinReservation'
  BY LedgerConstants
     DEF LedgerInv, LedgerTypeOK, LedgerTypes, ChargedWithinReservation, consumeBudget, ConsumeAllowed,
         HoldsReservation
<1>4. CountersMatchReservations'
  BY ConsumeKeepsCounters DEF LedgerInv
<1>. QED
  BY <1>1, <1>2, <1>3, <1>4 DEF LedgerInv

(* releaseBudget only lowers reserved.                                     *)
LEMMA ReleasePreserves ==
  ASSUME LedgerInv, NEW s \in Addresses, NEW a \in AssetKeys, NEW r \in RequestKeys,
         releaseBudget(s, a, r)
  PROVE  LedgerInv'
<1>1. LedgerTypeOK'
  <2>1. LedgerTypes'
    <3>1. PICK left \in Nat : left = budgets[a].reserved - reservations[r].amount
      BY DEF LedgerInv, LedgerTypeOK, LedgerTypes, releaseBudget
    <3>2. budgets' \in [AssetKeys ->
                         [total : Nat, reserved : Nat, used : Nat, exists : BOOLEAN]]
      <4>1. budgets' = [budgets EXCEPT ![a].reserved = left]
        BY <3>1 DEF releaseBudget
      <4>. QED
        BY <4>1 DEF LedgerInv, LedgerTypeOK, LedgerTypes
    <3>3. reservations' \in [RequestKeys -> [assetId : Nat, amount : Nat,
                                reserver : Addresses \cup {0}, status : Statuses]]
      BY DEF LedgerInv, LedgerTypeOK, LedgerTypes, releaseBudget, Statuses
    <3>4. charged' \in [RequestKeys -> Nat]
      BY DEF LedgerInv, LedgerTypeOK, LedgerTypes, releaseBudget
    <3>. QED
      BY <3>2, <3>3, <3>4 DEF LedgerTypes
  <2>2. ASSUME NEW b \in AssetKeys PROVE BudgetShape(b)'
    <3>1. budgets'[a].exists = budgets[a].exists /\ budgets'[a].total = budgets[a].total
      BY LedgerConstants DEF LedgerInv, LedgerTypeOK, LedgerTypes, releaseBudget
    <3>2. b # a => budgets'[b] = budgets[b]
      BY DEF LedgerInv, LedgerTypeOK, LedgerTypes, releaseBudget
    <3>3. budgets[a].exists
      BY DEF releaseBudget, HoldsReservation
    <3>. QED
      BY <3>1, <3>2, <3>3 DEF LedgerInv, LedgerTypeOK, BudgetShape, NoBudget
  <2>3. ASSUME NEW q \in RequestKeys PROVE ReservationShape(q)'
    BY LedgerConstants
       DEF LedgerInv, LedgerTypeOK, LedgerTypes, ReservationShape, NoReservation,
           releaseBudget, HoldsReservation
  <2>. QED
    BY <2>1, <2>2, <2>3 DEF LedgerTypeOK
<1>2. Solvency'
  BY LedgerConstants
     DEF LedgerInv, LedgerTypeOK, LedgerTypes, Solvency, releaseBudget, HoldsReservation
<1>3. ChargedWithinReservation'
  BY LedgerConstants
     DEF LedgerInv, LedgerTypeOK, LedgerTypes, ChargedWithinReservation, releaseBudget, HoldsReservation
<1>4. CountersMatchReservations'
  BY ReleaseKeepsCounters DEF LedgerInv
<1>. QED
  BY <1>1, <1>2, <1>3, <1>4 DEF LedgerInv

(* Every transaction that reaches the ledger preserves the invariant.      *)
LEMMA CallPreserves ==
  ASSUME LedgerInv, NEW s \in Addresses, LedgerCall(s)
  PROVE  LedgerInv'
BY RegisterPreserves, ReservePreserves, ConsumePreserves, ReleasePreserves, LedgerConstants
   DEF LedgerCall

(* The invariant reads nothing but the ledger.                             *)
LEMMA StutterPreserves == LedgerInv /\ UNCHANGED ledgerVars => LedgerInv'
<1>. SUFFICES ASSUME LedgerInv, UNCHANGED ledgerVars PROVE LedgerInv'
  OBVIOUS
<1>1. LedgerTypeOK' /\ Solvency' /\ ChargedWithinReservation'
  BY DEF ledgerVars, LedgerInv, LedgerTypeOK, LedgerTypes, BudgetShape, ReservationShape,
         Solvency, ChargedWithinReservation
<1>2. CountersMatchReservations'
  BY DEF ledgerVars, LedgerInv, CountersMatchReservations, CountersOf, Held, Outstanding, Spenders
<1>. QED
  BY <1>1, <1>2 DEF LedgerInv

(* The invariant is inductive.                                             *)
LEMMA LedgerInvariance == Spec => []LedgerInv
<1>1. LedgerInv /\ [Next]_ledgerVars => LedgerInv'
  BY CallPreserves, StutterPreserves DEF Next
<1>. QED
  BY <1>1, LedgerInit, PTL DEF Spec

(* Slots keep their shape: a budget exists exactly when its total was set, *)
(* and a reservation that was made names a budget that exists, a positive  *)
(* amount and a real caller.                                               *)
THEOREM LedgerTypeCorrect == Spec => []LedgerTypeOK
BY LedgerInvariance, PTL DEF LedgerInv

(* Reserved and used together never exceed the total of any asset, so the  *)
(* subtraction in remaining and getBudget never reverts.                   *)
THEOREM LedgerSolvency == Spec => []Solvency
BY LedgerInvariance, PTL DEF LedgerInv

(* A request is charged at most once and at most what it reserved.         *)
THEOREM LedgerCharges == Spec => []ChargedWithinReservation
BY LedgerInvariance, PTL DEF LedgerInv

(* The running counters of every budget are the sums of the outstanding    *)
(* reservations and of the charges.                                        *)
THEOREM LedgerCounters == Spec => []CountersMatchReservations
BY LedgerInvariance, PTL DEF LedgerInv

(* What is outstanding is covered by reserved, and reserved and used by    *)
(* the total: the checked arithmetic behind the guards cannot revert.      *)
LEMMA CoveredByCounters ==
  ASSUME LedgerInv, NEW r \in RequestKeys, NEW a \in AssetKeys,
         reservations[r].assetId = a, reservations[r].status = "Reserved"
  PROVE  /\ reservations[r].amount <= budgets[a].reserved
         /\ budgets[a].used + reservations[r].amount <= MaxUint
<1>1. r \in Outstanding(a) /\ LedgerTypes
  BY DEF Outstanding, LedgerInv, LedgerTypeOK
<1>2. reservations[r].amount <= budgets[a].reserved
  <2>1. Held[r] <= SumFunctionOnSet(Held, Outstanding(a))
    BY <1>1, SummandsAreFinite, SumBoundsValue
  <2>. QED
    BY <1>1, <2>1, SummandsAreFinite DEF LedgerInv, CountersMatchReservations, CountersOf
<1>3. /\ budgets[a].used \in Nat /\ budgets[a].reserved \in Nat /\ reservations[r].amount \in Nat
      /\ budgets[a].reserved + budgets[a].used <= budgets[a].total
  BY <1>1 DEF LedgerTypes, LedgerInv, Solvency
<1>4. budgets[a].total \in 0 .. MaxUint
  BY LedgerConstants DEF LedgerInv, LedgerTypeOK, BudgetShape, NoBudget
<1>. QED
  BY <1>2, <1>3, <1>4, LedgerConstants

(* No holder of a reservation is locked out by the checked subtraction or  *)
(* addition of consumeBudget and releaseBudget.                            *)
THEOREM LedgerArithmetic == Spec => []ArithmeticNeverReverts
<1>1. LedgerInv => ArithmeticNeverReverts
  BY CoveredByCounters DEF ArithmeticNeverReverts, HoldsReservation
<1>. QED
  BY <1>1, LedgerInvariance, PTL

---------------------------------------------------------------------------
(* Reservation keys are used once, and budgets are never resized.          *)

(* No single call rewrites a slot that was used or a budget that exists.   *)
LEMMA CallEvolves ==
  ASSUME LedgerInv, NEW s \in Addresses, LedgerCall(s)
  PROVE  /\ \A r \in RequestKeys : SlotEvolves(r)
         /\ \A a \in AssetKeys : BudgetEvolves(a)
<1>1. ASSUME NEW a \in AssetKeys, NEW t \in Amounts, registerBudget(a, t)
      PROVE  /\ \A r \in RequestKeys : SlotEvolves(r)
             /\ \A b \in AssetKeys : BudgetEvolves(b)
  BY <1>1 DEF registerBudget, SlotEvolves, BudgetEvolves, LedgerInv, LedgerTypeOK, LedgerTypes, ReservationShape
<1>2. ASSUME NEW a \in AssetKeys, NEW r \in RequestKeys, NEW n \in Amounts,
             reserveBudget(s, a, r, n)
      PROVE  /\ \A q \in RequestKeys : SlotEvolves(q)
             /\ \A b \in AssetKeys : BudgetEvolves(b)
  BY <1>2 DEF reserveBudget, ReserveAllowed, SlotEvolves, BudgetEvolves, LedgerInv, LedgerTypeOK, LedgerTypes, ReservationShape
<1>3. ASSUME NEW a \in AssetKeys, NEW r \in RequestKeys, NEW n \in Amounts,
             consumeBudget(s, a, r, n)
      PROVE  /\ \A q \in RequestKeys : SlotEvolves(q)
             /\ \A b \in AssetKeys : BudgetEvolves(b)
  BY <1>3, LedgerConstants
     DEF consumeBudget, ConsumeAllowed, HoldsReservation, SlotEvolves, BudgetEvolves,
         LedgerInv, LedgerTypeOK, LedgerTypes, ReservationShape
<1>4. ASSUME NEW a \in AssetKeys, NEW r \in RequestKeys, releaseBudget(s, a, r)
      PROVE  /\ \A q \in RequestKeys : SlotEvolves(q)
             /\ \A b \in AssetKeys : BudgetEvolves(b)
  BY <1>4 DEF releaseBudget, HoldsReservation, SlotEvolves, BudgetEvolves, LedgerInv, LedgerTypeOK, LedgerTypes, ReservationShape
<1>. QED
  BY <1>1, <1>2, <1>3, <1>4 DEF LedgerCall

(* A reservation key is used up by its first reservation and its slot only *)
(* moves forward; a budget is never resized and never un-spent.            *)
THEOREM LedgerHistoryHolds == Spec => LedgerHistory
<1>1. LedgerInv /\ [Next]_ledgerVars =>
        [/\ \A r \in RequestKeys : SlotEvolves(r)
         /\ \A a \in AssetKeys : BudgetEvolves(a)]_ledgerVars
  BY CallEvolves DEF Next
<1>. QED
  BY <1>1, LedgerInvariance, PTL DEF Spec, LedgerHistory

---------------------------------------------------------------------------
(* The ledger implements the odometer.                                     *)

(* The odometer's sum is the ledger's.                                     *)
LEMMA SameSum ==
  ASSUME NEW f, NEW S
  PROVE  Odometer!SumFunctionOnSet(f, S) = SumFunctionOnSet(f, S)
BY SumIsChosen
   DEF Odometer!SumFunctionOnSet, Odometer!FoldFunctionOnSet, Odometer!MapThenFoldSet, Adds, Chosen

(* The load the odometer adds up over the claims is what the counters say. *)
LEMMA LoadIsCounted ==
  ASSUME LedgerInv, NEW a \in AssetKeys
  PROVE  Odometer!Load(a) = budgets[a].reserved + budgets[a].used
<1>. DEFINE cost == [r \in RequestKeys |-> Claims[r].cost]
<1>1. LedgerTypes /\ CountersOf(a)
  BY DEF LedgerInv, LedgerTypeOK, CountersMatchReservations
<1>2. Odometer!Counted(a) = Outstanding(a) \cup Spenders(a)
  BY <1>1 DEF Odometer!Counted, Claims, StateOf, Outstanding, Spenders, LedgerTypes, Statuses
<1>3. Outstanding(a) \cap Spenders(a) = {}
  BY DEF Outstanding, Spenders
<1>4. /\ \A r \in Outstanding(a) : cost[r] = Held[r] /\ cost[r] \in Nat
      /\ \A r \in Spenders(a) : cost[r] = charged[r] /\ cost[r] \in Nat
  BY <1>1, SummandsAreFinite DEF Claims, CostOf, Outstanding, Spenders
<1>5. /\ SumFunctionOnSet(cost, Outstanding(a)) = SumFunctionOnSet(Held, Outstanding(a))
      /\ SumFunctionOnSet(cost, Spenders(a)) = SumFunctionOnSet(charged, Spenders(a))
  BY <1>1, <1>4, SummandsAreFinite, SumDependsOnValues
<1>6. SumFunctionOnSet(cost, Outstanding(a) \cup Spenders(a)) =
        SumFunctionOnSet(cost, Outstanding(a)) + SumFunctionOnSet(cost, Spenders(a))
  BY <1>1, <1>3, <1>4, SummandsAreFinite, SumUnion
<1>. QED
  BY <1>1, <1>2, <1>5, <1>6, SameSum DEF Odometer!Load, CountersOf

(* What a claim is in each state of its reservation.                       *)
LEMMA ClaimsByStatus ==
  ASSUME LedgerTypeOK, NEW r \in RequestKeys
  PROVE  /\ reservations[r].status = "None" => Claims[r] = Odometer!Unclaimed
         /\ reservations[r].status = "Reserved" =>
              Claims[r] = [asset |-> reservations[r].assetId, cost |-> reservations[r].amount,
                           state |-> "open"]
         /\ reservations[r].status = "Consumed" =>
              Claims[r] = [asset |-> reservations[r].assetId, cost |-> charged[r],
                           state |-> "spent"]
         /\ reservations[r].status = "Released" =>
              Claims[r] = [asset |-> reservations[r].assetId, cost |-> reservations[r].amount,
                           state |-> "returned"]
<1>1. reservations[r].status = "None" => Claims[r] = Odometer!Unclaimed
  BY DEF Claims, CostOf, StateOf, Odometer!Unclaimed, LedgerTypeOK, ReservationShape, NoReservation
<1>2. reservations[r].status = "Reserved" =>
        Claims[r] = [asset |-> reservations[r].assetId, cost |-> reservations[r].amount,
                     state |-> "open"]
  BY DEF Claims, CostOf, StateOf
<1>3. reservations[r].status = "Consumed" =>
        Claims[r] = [asset |-> reservations[r].assetId, cost |-> charged[r], state |-> "spent"]
  BY DEF Claims, CostOf, StateOf
<1>4. reservations[r].status = "Released" =>
        Claims[r] = [asset |-> reservations[r].assetId, cost |-> reservations[r].amount,
                     state |-> "returned"]
  BY DEF Claims, CostOf, StateOf
<1>. QED
  BY <1>1, <1>2, <1>3, <1>4

(* Claims of requests a call leaves alone are left alone.                  *)
LEMMA OtherClaims ==
  ASSUME NEW r \in RequestKeys, reservations'[r] = reservations[r], charged'[r] = charged[r]
  PROVE  Claims'[r] = Claims[r]
BY DEF Claims, CostOf, StateOf

(* The empty ledger is the empty odometer.                                 *)
LEMMA OdometerInit == Init => Odometer!Init
<1>. SUFFICES ASSUME Init PROVE Odometer!Init
  OBVIOUS
<1>1. LedgerTypeOK
  BY LedgerInit DEF LedgerInv
<1>2. \A r \in RequestKeys : Claims[r] = Odometer!Unclaimed
  BY <1>1, ClaimsByStatus DEF Init, NoReservation
<1>3. Limits = [a \in AssetKeys |-> 0]
  BY DEF Init, Limits, NoBudget
<1>. QED
  BY <1>2, <1>3 DEF Odometer!Init, Claims

(* registerBudget sets a limit.                                            *)
LEMMA RegisterSetsLimit ==
  ASSUME LedgerInv, NEW a \in AssetKeys, NEW t \in Amounts, registerBudget(a, t)
  PROVE  Odometer!SetLimit(a, t) /\ t \in Odometer!Costs
<1>1. LedgerTypeOK /\ LedgerTypes
  BY DEF LedgerInv, LedgerTypeOK
<1>2. Limits[a] = 0
  BY <1>1 DEF registerBudget, Limits, LedgerTypeOK, BudgetShape, NoBudget
<1>3. Limits' = [Limits EXCEPT ![a] = t]
  BY <1>1 DEF registerBudget, Limits, LedgerTypes
<1>4. Claims' = Claims
  BY DEF registerBudget, Claims, CostOf, StateOf
<1>5. t \in Odometer!Costs
  BY DEF registerBudget, Odometer!Costs
<1>. QED
  BY <1>2, <1>3, <1>4, <1>5 DEF Odometer!SetLimit

(* reserveBudget admits a claim: what it checks against the counters is    *)
(* what the odometer checks against the claims.                            *)
LEMMA ReserveAdmits ==
  ASSUME LedgerInv, NEW s \in Addresses, NEW a \in AssetKeys, NEW r \in RequestKeys,
         NEW n \in Amounts, reserveBudget(s, a, r, n)
  PROVE  Odometer!Admit(r, a, n) /\ n \in Odometer!Costs
<1>1. LedgerTypeOK /\ LedgerTypes /\ n \in Nat
  BY LedgerConstants DEF LedgerInv, LedgerTypeOK
<1>2. LedgerInv'
  BY <1>1, ReservePreserves
<1>3. /\ reservations[r].status = "None" /\ n # 0 /\ n <= remaining(a)
      /\ reservations' = [reservations EXCEPT ![r] = [assetId |-> a, amount |-> n,
                                                     reserver |-> s, status |-> "Reserved"]]
      /\ charged' = charged
  BY DEF reserveBudget, ReserveAllowed
<1>4. Claims[r] = Odometer!Unclaimed
  BY <1>1, <1>3, ClaimsByStatus
<1>5. Odometer!Load(a) + n <= Limits[a]
  <2>1. /\ budgets[a].reserved \in Nat /\ budgets[a].used \in Nat /\ budgets[a].total \in Nat
        /\ Limits[a] = budgets[a].total
    BY <1>1 DEF LedgerTypes, Limits
  <2>. QED
    BY <1>1, <1>3, <2>1, LoadIsCounted DEF remaining
<1>6. Claims' = [Claims EXCEPT ![r] = [asset |-> a, cost |-> n, state |-> "open"]]
  <2>1. /\ reservations'[r].status = "Reserved"
        /\ reservations'[r].assetId = a /\ reservations'[r].amount = n
        /\ \A q \in RequestKeys \ {r} : reservations'[q] = reservations[q]
    BY <1>1, <1>3 DEF LedgerTypes
  <2>2. Claims'[r] = [asset |-> a, cost |-> n, state |-> "open"]
    BY <2>1 DEF Claims, CostOf, StateOf
  <2>3. \A q \in RequestKeys \ {r} : Claims'[q] = Claims[q]
    BY <1>3, <2>1, OtherClaims
  <2>. QED
    BY <2>2, <2>3 DEF Claims
<1>7. Limits' = Limits
  BY <1>1 DEF reserveBudget, Limits, LedgerTypes
<1>. QED
  BY <1>3, <1>4, <1>5, <1>6, <1>7 DEF Odometer!Admit, Odometer!Costs

(* consumeBudget spends an open claim for what it charges.                 *)
LEMMA ConsumeSpends ==
  ASSUME LedgerInv, NEW s \in Addresses, NEW a \in AssetKeys, NEW r \in RequestKeys,
         NEW n \in Amounts, consumeBudget(s, a, r, n)
  PROVE  Odometer!Spend(r, n) /\ n \in Odometer!Costs
<1>1. LedgerTypeOK /\ LedgerTypes /\ n \in Nat
  BY LedgerConstants DEF LedgerInv, LedgerTypeOK
<1>2. /\ reservations[r].status = "Reserved" /\ n # 0 /\ n <= reservations[r].amount
      /\ reservations' = [reservations EXCEPT ![r].status = "Consumed"]
      /\ charged' = [charged EXCEPT ![r] = @ + n]
  BY DEF consumeBudget, ConsumeAllowed, HoldsReservation
<1>3. Claims[r].state = "open" /\ Claims[r].cost = reservations[r].amount
  <2>1. Claims[r] = [asset |-> reservations[r].assetId, cost |-> reservations[r].amount,
                     state |-> "open"]
    BY <1>1, <1>2, ClaimsByStatus
  <2>. QED
    BY <2>1
<1>4. charged[r] = 0
  BY <1>2 DEF LedgerInv, ChargedWithinReservation
<1>5. Claims' = [Claims EXCEPT ![r].cost = n, ![r].state = "spent"]
  <2>1. /\ reservations'[r].status = "Consumed"
        /\ reservations'[r].assetId = reservations[r].assetId /\ charged'[r] = n
        /\ \A q \in RequestKeys \ {r} :
             reservations'[q] = reservations[q] /\ charged'[q] = charged[q]
    BY <1>1, <1>2, <1>4 DEF LedgerTypes
  <2>2. Claims'[r] = [asset |-> reservations[r].assetId, cost |-> n, state |-> "spent"]
    BY <2>1 DEF Claims, CostOf, StateOf
  <2>3. \A q \in RequestKeys \ {r} : Claims'[q] = Claims[q]
    BY <2>1, OtherClaims
  <2>. QED
    BY <2>2, <2>3 DEF Claims
<1>6. Limits' = Limits
  BY <1>1 DEF consumeBudget, Limits, LedgerTypes
<1>. QED
  BY <1>2, <1>3, <1>5, <1>6 DEF Odometer!Spend, Odometer!Costs

(* releaseBudget returns an open claim.                                    *)
LEMMA ReleaseReturns ==
  ASSUME LedgerInv, NEW s \in Addresses, NEW a \in AssetKeys, NEW r \in RequestKeys,
         releaseBudget(s, a, r)
  PROVE  Odometer!Return(r)
<1>1. LedgerTypeOK /\ LedgerTypes
  BY DEF LedgerInv, LedgerTypeOK
<1>2. /\ reservations[r].status = "Reserved"
      /\ reservations' = [reservations EXCEPT ![r].status = "Released"]
      /\ charged' = charged
  BY DEF releaseBudget, HoldsReservation
<1>3. Claims[r] = [asset |-> reservations[r].assetId, cost |-> reservations[r].amount,
                   state |-> "open"]
  BY <1>1, <1>2, ClaimsByStatus
<1>4. Claims' = [Claims EXCEPT ![r].state = "returned"]
  <2>1. /\ reservations'[r].status = "Released"
        /\ reservations'[r].assetId = reservations[r].assetId
        /\ reservations'[r].amount = reservations[r].amount
        /\ \A q \in RequestKeys \ {r} : reservations'[q] = reservations[q]
    BY <1>1, <1>2 DEF LedgerTypes
  <2>2. Claims'[r] = [asset |-> reservations[r].assetId, cost |-> reservations[r].amount,
                      state |-> "returned"]
    BY <2>1 DEF Claims, CostOf, StateOf
  <2>3. Claims[r].asset = reservations[r].assetId /\ Claims[r].cost = reservations[r].amount
    BY <1>3
  <2>4. \A q \in RequestKeys \ {r} : Claims'[q] = Claims[q]
    BY <1>2, <2>1, OtherClaims
  <2>. QED
    BY <2>2, <2>3, <2>4 DEF Claims
<1>5. Limits' = Limits
  BY <1>1 DEF releaseBudget, Limits, LedgerTypes
<1>. QED
  BY <1>3, <1>4, <1>5 DEF Odometer!Return

(* Every ledger behaves like an odometer that admits a claim only when all *)
(* claims, added up one by one, stay within the limit.                     *)
THEOREM LedgerImplementsOdometer == Spec => ImplementsOdometer
<1>1. ASSUME LedgerInv, NEW s \in Addresses, LedgerCall(s) PROVE Odometer!Next
  <2>1. PICK a \in AssetKeys : LedgerCall(s)!(a)
    BY <1>1 DEF LedgerCall
  <2>2. ASSUME NEW t \in Amounts, registerBudget(a, t) PROVE Odometer!Next
    BY <1>1, <2>2, RegisterSetsLimit DEF Odometer!Next
  <2>3. ASSUME NEW r \in RequestKeys, NEW n \in Amounts, reserveBudget(s, a, r, n)
        PROVE  Odometer!Next
    BY <1>1, <2>3, ReserveAdmits DEF Odometer!Next
  <2>4. ASSUME NEW r \in RequestKeys, NEW n \in Amounts, consumeBudget(s, a, r, n)
        PROVE  Odometer!Next
    BY <1>1, <2>4, ConsumeSpends DEF Odometer!Next
  <2>5. ASSUME NEW r \in RequestKeys, releaseBudget(s, a, r) PROVE Odometer!Next
    BY <1>1, <2>5, ReleaseReturns DEF Odometer!Next
  <2>. QED
    BY <2>1, <2>2, <2>3, <2>4, <2>5
<1>2. UNCHANGED ledgerVars => UNCHANGED Odometer!odometerVars
  BY DEF ledgerVars, Odometer!odometerVars, Limits, Claims, CostOf, StateOf
<1>3. LedgerInv /\ [Next]_ledgerVars => [Odometer!Next]_(Odometer!odometerVars)
  BY <1>1, <1>2 DEF Next
<1>. QED
  BY <1>3, OdometerInit, LedgerInvariance, PTL DEF Spec, ImplementsOdometer, Odometer!Spec
=============================================================================
