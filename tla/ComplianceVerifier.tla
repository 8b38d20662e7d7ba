------------------------ MODULE ComplianceVerifier ------------------------
(***************************************************************************)
(* contracts/ComplianceVerifier.sol: the expected context of each request, *)
(* registered by the owner, and the proofs accepted against it.            *)
(*                                                                         *)
(* submitCompliance is open to every caller, the settlement contract among *)
(* them.  Keys are reduced modulo SCALAR_FIELD before they are compared    *)
(* with signals, so two request keys can have the same signals.  The block *)
(* timestamp is in seconds, the expiry of an attestation in milliseconds.  *)
(***************************************************************************)
EXTENDS Integers, ComplianceCircuit

CONSTANTS
  RequestKeys, Addresses, NewOwners,
  ExpectationInputs,  \* the ExpectationInput structs the owner passes
  PublicSignals       \* the public-signal vectors callers pass

VARIABLES
  expectations,    \* mapping(bytes32 => Expectation)
  nullifierUsed,   \* {n : nullifierUsed[n]}
  verifierOwner,   \* owner
  timestamp        \* block.timestamp, read only here

verifierVars == <<expectations, nullifierUsed, verifierOwner>>

NoExpectation ==
  [requestId |-> 0, assetId |-> 0, consumerId |-> 0, policyHash |-> 0,
   policyVersion |-> 0, functionId |-> 0, evidence |-> 0, maxEpsilon |-> 0,
   expiresAtUnixMs |-> 0, registered |-> FALSE, verified |-> FALSE,
   epsilonUsed |-> 0, nullifier |-> 0]

Init(deployer) ==
  /\ expectations = [r \in RequestKeys |-> NoExpectation]
  /\ nullifierUsed = {}
  /\ verifierOwner = deployer

ContextFields ==
  {"requestId", "assetId", "consumerId", "policyHash", "policyVersion", "functionId",
   "evidence"}

registerExpectation(sender, requestKey, input) ==
  /\ sender = verifierOwner
  /\ ~ expectations[requestKey].registered
  /\ input.requestId = requestKey % SCALAR_FIELD
  /\ \A f \in ContextFields : input[f] < SCALAR_FIELD
  /\ input.policyVersion # 0
  /\ input.functionId \in {1, 2}
  /\ input.maxEpsilon # 0
  /\ expectations' = [expectations EXCEPT ![requestKey] =
       [requestId |-> input.requestId, assetId |-> input.assetId,
        consumerId |-> input.consumerId, policyHash |-> input.policyHash,
        policyVersion |-> input.policyVersion, functionId |-> input.functionId,
        evidence |-> input.evidence, maxEpsilon |-> input.maxEpsilon,
        expiresAtUnixMs |-> input.expiresAtUnixMs, registered |-> TRUE,
        verified |-> FALSE, epsilonUsed |-> 0, nullifier |-> 0]]
  /\ UNCHANGED <<nullifierUsed, verifierOwner>>

NotStale_Seconds(requestKey) == timestamp <= expectations[requestKey].expiresAtUnixMs

NotStale(requestKey) == timestamp * 1000 <= expectations[requestKey].expiresAtUnixMs

FreshNullifier_Unchecked(n) == n \in Nat

FreshNullifier(n) == n \notin nullifierUsed

(* _match on every context signal. *)
MatchesExpectation(requestKey, s) ==
  \A f \in ContextFields : s[f] = expectations[requestKey][f]

submitCompliance(requestKey, s) ==
  /\ expectations[requestKey].registered
  /\ ~ expectations[requestKey].verified
  /\ s.requestId = requestKey % SCALAR_FIELD
  /\ MatchesExpectation(requestKey, s)
  /\ s.epsilonCost # 0
  /\ s.epsilonCost <= expectations[requestKey].maxEpsilon
  /\ NotStale(requestKey)
  /\ FreshNullifier(s.nullifier)
  /\ verifyProof(s)
  /\ nullifierUsed' = nullifierUsed \cup {s.nullifier}
  /\ expectations' = [expectations EXCEPT ![requestKey].verified = TRUE,
                                          ![requestKey].epsilonUsed = s.epsilonCost,
                                          ![requestKey].nullifier = s.nullifier]
  /\ UNCHANGED verifierOwner

transferOwnership(sender, newOwner) ==
  /\ sender = verifierOwner
  /\ verifierOwner' = newOwner
  /\ UNCHANGED <<expectations, nullifierUsed>>

VerifierCall(sender) ==
  \/ \E r \in RequestKeys, i \in ExpectationInputs : registerExpectation(sender, r, i)
  \/ \E r \in RequestKeys, s \in PublicSignals : submitCompliance(r, s)
  \/ \E a \in NewOwners : transferOwnership(sender, a)

VerifierTypeOK ==
  /\ expectations \in [RequestKeys ->
       [requestId : Nat, assetId : Nat, consumerId : Nat, policyHash : Nat,
        policyVersion : Nat, functionId : Nat, evidence : Nat, maxEpsilon : Nat,
        expiresAtUnixMs : Nat, registered : BOOLEAN, verified : BOOLEAN,
        epsilonUsed : Nat, nullifier : Nat]]
  /\ nullifierUsed \subseteq Nat
  /\ verifierOwner \in Addresses \cup NewOwners
=============================================================================
