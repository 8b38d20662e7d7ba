--------------------------- MODULE DataRegistry ---------------------------
(***************************************************************************)
(* contracts/DataRegistry.sol: who owns an asset and under which policy it *)
(* may be used.  An asset key belongs to whoever registers it first; there *)
(* is no function that updates, transfers or deactivates an asset.         *)
(* metadataHash is only logged and left out.                               *)
(***************************************************************************)
EXTENDS Naturals

CONSTANTS
  AssetKeys,  \* bytes32 asset keys
  Addresses,  \* every address that can be msg.sender
  DataHashes, PolicyHashes,  \* the bytes32 hashes callers pass
  Versions    \* the uint64 policy versions callers pass

VARIABLE assets  \* mapping(bytes32 => Asset)

NoAsset ==
  [owner |-> 0, dataHash |-> 0, policyHash |-> 0, policyVersion |-> 0, active |-> FALSE]

Init == assets = [a \in AssetKeys |-> NoAsset]

registerAssetChecked(sender, assetId, dataHash, policyHash, policyVersion) ==
  /\ assets[assetId].owner = 0
  /\ assets' = [assets EXCEPT ![assetId] =
                  [owner |-> sender, dataHash |-> dataHash, policyHash |-> policyHash,
                   policyVersion |-> policyVersion, active |-> TRUE]]

registerAsset(sender, assetId, dataHash, policyHash) ==
  registerAssetChecked(sender, assetId, dataHash, policyHash, 1)

registerAssetV2(sender, assetId, dataHash, policyHash, policyVersion) ==
  /\ policyVersion # 0
  /\ registerAssetChecked(sender, assetId, dataHash, policyHash, policyVersion)

(* getAsset reverts for an asset nobody registered. *)
AssetFound(assetId) == assets[assetId].owner # 0

RegistryCall(sender) ==
  \E a \in AssetKeys, d \in DataHashes, p \in PolicyHashes :
    \/ registerAsset(sender, a, d, p)
    \/ \E v \in Versions : registerAssetV2(sender, a, d, p, v)

RegistryTypeOK ==
  assets \in [AssetKeys -> [owner : Nat, dataHash : Nat, policyHash : Nat,
                            policyVersion : Nat, active : BOOLEAN]]
=============================================================================
