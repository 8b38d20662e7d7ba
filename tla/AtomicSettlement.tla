------------------------- MODULE AtomicSettlement -------------------------
(***************************************************************************)
(* What a consumer and a data owner may rely on.  The account of a request *)
(* is open until budget is held for it, and is closed by one step that     *)
(* charges it at most what was held, burns a nullifier nobody used before  *)
(* and delivers the result; there is nothing in between and no way back.   *)
(* Nullifiers may also be burned outside any account.                      *)
(***************************************************************************)
EXTENDS Naturals

CONSTANTS AssetKeys, RequestKeys, Amounts, Nullifiers

VARIABLES account, burned

accountVars == <<account, burned>>

Open == [state |-> "open", asset |-> 0, amount |-> 0, nullifier |-> 0]

Init ==
  /\ account = [r \in RequestKeys |-> Open]
  /\ burned = {}

Hold(r, a, n) ==
  /\ account[r] = Open
  /\ account' = [account EXCEPT ![r] =
                    [state |-> "held", asset |-> a, amount |-> n, nullifier |-> 0]]
  /\ UNCHANGED burned

Close(r, cost, nullifier) ==
  /\ account[r].state = "held"
  /\ nullifier \notin burned
  /\ account' = [account EXCEPT ![r] =
                    [state |-> "settled", asset |-> @.asset, amount |-> cost,
                     nullifier |-> nullifier]]
  /\ burned' = burned \cup {nullifier}

Burn(nullifier) ==
  /\ nullifier \notin burned
  /\ burned' = burned \cup {nullifier}
  /\ UNCHANGED account

Next ==
  \/ \E r \in RequestKeys, a \in AssetKeys, n \in Amounts : Hold(r, a, n)
  \/ \E r \in RequestKeys, nullifier \in Nullifiers :
       \E cost \in 1 .. account[r].amount : Close(r, cost, nullifier)
  \/ \E nullifier \in Nullifiers : Burn(nullifier)

Spec == Init /\ [][Next]_accountVars
=============================================================================
