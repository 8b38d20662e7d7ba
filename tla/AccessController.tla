------------------------- MODULE AccessController -------------------------
(***************************************************************************)
(* contracts/AccessController.sol: the life of an access request.          *)
(* Anybody may approve, reject or complete any request; a request key      *)
(* belongs to whoever asks first, and the asset it names need not exist.   *)
(* purposeHash and reasonHash are only logged and left out.                *)
(***************************************************************************)
EXTENDS Naturals

CONSTANTS
  AssetKeys, RequestKeys, Addresses,
  ConsumerIds,  \* the uint256 consumer-ID fields callers pass
  PolicyHashes, Versions,
  Functions,    \* the uint32 function ids callers pass
  Amounts       \* the uint256 epsilons callers pass

VARIABLE requests  \* mapping(bytes32 => AccessRequest)

NoRequest ==
  [assetId |-> 0, consumer |-> 0, consumerIdField |-> 0, policyHash |-> 0,
   policyVersion |-> 0, functionId |-> 0, epsilonRequested |-> 0, status |-> "None"]

Init == requests = [r \in RequestKeys |-> NoRequest]

newRequest(sender, r, a, cid, policy, version, function, eps) ==
  /\ eps # 0
  /\ requests[r].status = "None"
  /\ requests' = [requests EXCEPT ![r] =
                    [assetId |-> a, consumer |-> sender, consumerIdField |-> cid,
                     policyHash |-> policy, policyVersion |-> version,
                     functionId |-> function, epsilonRequested |-> eps,
                     status |-> "Pending"]]

(* An address is the number uint160(address). *)
requestAccess(sender, r, a, eps) == newRequest(sender, r, a, sender, 0, 1, 0, eps)

requestAccessV2(sender, r, a, cid, policy, version, function, eps) ==
  /\ cid # 0
  /\ version # 0
  /\ function \in {1, 2}
  /\ newRequest(sender, r, a, cid, policy, version, function, eps)

moveRequest(r, from, to) ==
  /\ requests[r].status = from
  /\ requests' = [requests EXCEPT ![r].status = to]

approveRequest(r) == moveRequest(r, "Pending", "Approved")

rejectRequest(r) == moveRequest(r, "Pending", "Rejected")

completeRequest(r) == moveRequest(r, "Approved", "Completed")

AccessCall(sender) ==
  \E r \in RequestKeys :
    \/ \E a \in AssetKeys, e \in Amounts : requestAccess(sender, r, a, e)
    \/ \E a \in AssetKeys, e \in Amounts, c \in ConsumerIds, p \in PolicyHashes,
          v \in Versions, f \in Functions : requestAccessV2(sender, r, a, c, p, v, f, e)
    \/ approveRequest(r)
    \/ rejectRequest(r)
    \/ completeRequest(r)

RequestStatuses == {"None", "Pending", "Approved", "Rejected", "Completed"}

AccessTypeOK ==
  requests \in [RequestKeys ->
    [assetId : Nat, consumer : Nat, consumerIdField : Nat, policyHash : Nat,
     policyVersion : Nat, functionId : Nat, epsilonRequested : Nat,
     status : RequestStatuses]]
=============================================================================
