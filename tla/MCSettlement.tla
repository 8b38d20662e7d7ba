--------------------------- MODULE MCSettlement ---------------------------
(***************************************************************************)
(* The deployed contracts on small instances.  User 1 deploys and          *)
(* provides, user 2 consumes; the settlement contract is address 9.  The   *)
(* field has seven elements, so request keys 1 and 8 have the same public  *)
(* signal.                                                                 *)
(***************************************************************************)
EXTENDS SettlementAccounts, Sequences

(* An injective numbering of contexts and nonces below the field size.     *)
MCPoseidon(context, nonce) ==
  LET digits == Append(context, nonce)
      number[i \in 0 .. Len(digits)] == IF i = 0 THEN 0 ELSE number[i - 1] * 7 + digits[i]
  IN  1 + number[Len(digits)]

Circuit == INSTANCE ComplianceCircuit

MCDataHashes == {5}
MCPolicyHashes == {0, 3}
MCEvidenceHashes == {4, 11}
TwinPolicyHashes == {3}
TwinEvidenceHashes == {4}

(* Expectations for the consumer's COUNT request on asset 1, whose         *)
(* attestation expires one second in.                                      *)
MCExpectationInputs ==
  [requestId : {1}, assetId : {1}, consumerId : {2}, policyHash : {0, 3}, policyVersion : {1},
   functionId : {0, 1}, evidence : {4}, maxEpsilon : {0, 2}, expiresAtUnixMs : {1000}]

Contexts ==
  [requestId : {1}, assetId : {1}, consumerId : {2}, policyHash : {0, 3}, policyVersion : {1},
   functionId : {0, 1}, evidence : {4}, epsilonCost : {0, 1, 2}]

Proof(c, nullifier) ==
  [requestId |-> c.requestId, assetId |-> c.assetId, consumerId |-> c.consumerId,
   policyHash |-> c.policyHash, policyVersion |-> c.policyVersion,
   functionId |-> c.functionId, evidence |-> c.evidence, epsilonCost |-> c.epsilonCost,
   nullifier |-> nullifier]

(* The nullifier of each context under each nonce, and 7, which belongs to *)
(* none of them.                                                           *)
MCPublicSignals ==
  {Proof(c, MCPoseidon(Circuit!Context(c), n)) : c \in Contexts, n \in Nonces}
    \cup {Proof(c, 7) : c \in Contexts}

(* Two requests whose contexts are the same but for keys that the field    *)
(* cannot tell apart.                                                      *)
TwinExpectationInputs ==
  [requestId : {1}, assetId : {1}, consumerId : {2}, policyHash : {3},
   policyVersion : {1}, functionId : {1}, evidence : {4}, maxEpsilon : {1},
   expiresAtUnixMs : {1000}]

TwinContexts ==
  [requestId : {1}, assetId : {1}, consumerId : {2}, policyHash : {3},
   policyVersion : {1}, functionId : {1}, evidence : {4}, epsilonCost : {1}]

TwinPublicSignals ==
  {Proof(c, MCPoseidon(Circuit!Context(c), n)) : c \in TwinContexts, n \in Nonces}

(* An audit event that claims a settlement which need not have happened.   *)
MCForeignRecords ==
  {[settlement |-> [requestKey |-> 1, assetKey |-> 1, consumer |-> 2,
                    privacyCostFixed |-> 1, nullifier |-> 7, evidence |-> 4],
    consumerIdField |-> 2, policyHash |-> 3, policyVersion |-> 1, functionId |-> 1]}

MCStageRecords == {[requestId |-> 1, assetId |-> 1, stage |-> "Registered"]}

(* PROTOCOL.md, "Phase 7 settlement projection", on proof verification,    *)
(* budget consumption, nullifier update, request completion and audit      *)
(* emission: a proof is accepted for a request the settlement contract     *)
(* holds budget for only by settling it.                                   *)
VerifiedOnlyBySettling ==
  \A r \in RequestKeys :
    (expectations[r].verified /\ HeldBySettlement(r)) => EventsOf(r) # {}

(* PROTOCOL.md, same section, on signal 7, actual_privacy_cost_fixed: each *)
(* signal matches the registered context, so the cost that is charged is   *)
(* the cost that was registered with the expectation.                      *)
ChargedAsRegistered ==
  \A e \in settled : e.privacyCostFixed = expectations[e.requestKey].maxEpsilon
=============================================================================
