------------------------- MODULE ComplianceCircuit -------------------------
(***************************************************************************)
(* zk/circuits/compliance_check.circom: the relation a Groth16 proof shows *)
(* of its public signals.  Signals are elements of the scalar field, here  *)
(* the integers modulo SCALAR_FIELD.  resultHash, transcriptHash and       *)
(* attestationDigest are bound, compared and logged the same way all along *)
(* the pipeline; the one signal evidence stands for the three.             *)
(*                                                                         *)
(* A proof exists exactly when some private witness satisfies the relation *)
(* (completeness and soundness of Groth16).  Poseidon is an injective      *)
(* function of the ten context signals and the secret nonce (its collision *)
(* resistance).                                                            *)
(***************************************************************************)
EXTENDS Naturals

CONSTANTS
  SCALAR_FIELD,     \* the BN254 group order
  Nonces,           \* the secretNonce values provers draw
  Poseidon(_, _)    \* context, secretNonce |-> nullifier

(* The public signals but the nullifier, in the order of the two Poseidon  *)
(* context limbs.                                                          *)
Context(s) ==
  <<s.requestId, s.assetId, s.consumerId, s.policyHash, s.policyVersion,
    s.functionId, s.evidence, s.epsilonCost>>

ComplianceCheck_FreeNullifier(s, w) ==
  /\ s.policyHash = w.allowedPolicyHash
  /\ s.epsilonCost <= w.maxBudget
  /\ s.policyVersion > 0
  /\ s.functionId \in {1, 2}

(* R1-R4.  R5 folds private policy fields into a value nothing constrains. *)
(* The 64-bit range of R3 is left out: versions here are far below it, and *)
(* a relation without it admits more proofs, not fewer.                    *)
ComplianceCheck(s, w) ==
  /\ s.policyHash = w.allowedPolicyHash
  /\ s.epsilonCost <= w.maxBudget
  /\ s.policyVersion > 0
  /\ s.functionId \in {1, 2}
  /\ s.nullifier = Poseidon(Context(s), w.secretNonce)

(* The verifier refuses a signal outside the field; a Poseidon image is in *)
(* it by construction, and is numbered apart from the field here.          *)
InField(s) == \A i \in DOMAIN s \ {"nullifier"} : s[i] < SCALAR_FIELD

Field == 0 .. SCALAR_FIELD - 1

Witnesses == [allowedPolicyHash : Field, maxBudget : Field, secretNonce : Nonces]

(* Phase7Groth16Verifier.verifyProof for the best proof of s there is. *)
verifyProof(s) == InField(s) /\ \E w \in Witnesses : ComplianceCheck(s, w)
=============================================================================
