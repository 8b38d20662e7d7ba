-------------------------- MODULE PrivacyOdometer --------------------------
(***************************************************************************)
(* What the budget ledger promises, without its counters.  Every asset has *)
(* a limit fixed once.  The claims on it are kept one by one; a claim is   *)
(* open, spent (for some cost up to what it claimed) or returned, and a    *)
(* new one is admitted only while everything claimed and spent, added up   *)
(* over the claims themselves, stays within the limit.                     *)
(***************************************************************************)
EXTENDS Integers, Functions

CONSTANTS AssetKeys, RequestKeys, Amounts

VARIABLES
  limit,  \* asset |-> its limit, 0 while it has none
  claim   \* request |-> [asset, cost, state]

odometerVars == <<limit, claim>>

Unclaimed == [asset |-> 0, cost |-> 0, state |-> "unclaimed"]

Costs == Amounts \ {0}

Counted(a) == {r \in RequestKeys : claim[r].asset = a /\ claim[r].state \in {"open", "spent"}}

Load(a) == SumFunctionOnSet([r \in RequestKeys |-> claim[r].cost], Counted(a))

Init ==
  /\ limit = [a \in AssetKeys |-> 0]
  /\ claim = [r \in RequestKeys |-> Unclaimed]

SetLimit(a, n) ==
  /\ limit[a] = 0
  /\ limit' = [limit EXCEPT ![a] = n]
  /\ UNCHANGED claim

Admit(r, a, n) ==
  /\ claim[r] = Unclaimed
  /\ Load(a) + n <= limit[a]
  /\ claim' = [claim EXCEPT ![r] = [asset |-> a, cost |-> n, state |-> "open"]]
  /\ UNCHANGED limit

Spend(r, n) ==
  /\ claim[r].state = "open"
  /\ n <= claim[r].cost
  /\ claim' = [claim EXCEPT ![r].cost = n, ![r].state = "spent"]
  /\ UNCHANGED limit

Return(r) ==
  /\ claim[r].state = "open"
  /\ claim' = [claim EXCEPT ![r].state = "returned"]
  /\ UNCHANGED limit

Next ==
  \/ \E a \in AssetKeys, n \in Costs : SetLimit(a, n)
  \/ \E r \in RequestKeys, a \in AssetKeys, n \in Costs : Admit(r, a, n)
  \/ \E r \in RequestKeys, n \in Costs : Spend(r, n)
  \/ \E r \in RequestKeys : Return(r)

Spec == Init /\ [][Next]_odometerVars
=============================================================================
