----------------------- MODULE TrustCircuitSettlement -----------------------
(***************************************************************************)
(* contracts/TrustCircuitSettlement.sol with the five contracts it calls,  *)
(* as deployed together.  A transaction is atomic, and a revert in any     *)
(* contract undoes all of it: settle is one action, the conjunction of its *)
(* own guards and of the operations it calls, which fail or happen as one. *)
(*                                                                         *)
(* The other contracts stay open to direct calls from every user, in any   *)
(* order with the settlement's own transactions.                           *)
(***************************************************************************)
EXTENDS Integers, FiniteSets, Functions

CONSTANTS
  AssetKeys, RequestKeys,
  Users,           \* externally owned accounts, the possible tx senders
  Deployer,        \* the user who deploys the contracts, their first owner
  Settlement,      \* the address of the settlement contract
  NewOwners,       \* the addresses ownership may be transferred to
  DataHashes, PolicyHashes, Versions, Functions, ConsumerIds,
  EvidenceHashes,  \* the bytes32 evidence digests callers of settle pass
  Amounts, MaxUint,
  SCALAR_FIELD, Nonces, Poseidon(_, _),
  ExpectationInputs, PublicSignals,
  StageRecords, ForeignRecords,
  MaxTime          \* bound on block.timestamp

Addresses == Users \cup {Settlement}

ASSUME SettlementConstants ==
  /\ AssetKeys \subseteq Nat /\ RequestKeys \subseteq Nat
  /\ Users \subseteq Nat \ {0}
  /\ Settlement \in Nat \ {0} /\ Settlement \notin Users
  /\ Deployer \in Users /\ NewOwners \subseteq Nat
  /\ DataHashes \subseteq Nat /\ PolicyHashes \subseteq Nat /\ Versions \subseteq Nat
  /\ Functions \subseteq Nat /\ ConsumerIds \subseteq Nat /\ EvidenceHashes \subseteq Nat
  /\ MaxUint \in Nat /\ Amounts \subseteq 0 .. MaxUint
  /\ SCALAR_FIELD \in Nat \ {0} /\ MaxTime \in Nat
  /\ PublicSignals \subseteq
       [requestId : Nat, assetId : Nat, consumerId : Nat, policyHash : Nat,
        policyVersion : Nat, functionId : Nat, evidence : Nat, epsilonCost : Nat,
        nullifier : Nat]
  /\ ExpectationInputs \subseteq
       [requestId : Nat, assetId : Nat, consumerId : Nat, policyHash : Nat,
        policyVersion : Nat, functionId : Nat, evidence : Nat, maxEpsilon : Nat,
        expiresAtUnixMs : Nat]

ASSUME RequestKeysFinite == IsFiniteSet(RequestKeys)

VARIABLES
  assets, requests, budgets, reservations, charged,
  expectations, nullifierUsed, verifierOwner,
  auditLog, stageLog,
  owner,      \* of the settlement contract
  settled,    \* its RequestSettled events
  timestamp   \* block.timestamp

Registry == INSTANCE DataRegistry
Access == INSTANCE AccessController
Ledger == INSTANCE BudgetLedger
Verifier == INSTANCE ComplianceVerifier
Audit == INSTANCE AuditLedger

ledgerVars == <<budgets, reservations, charged>>
verifierVars == <<expectations, nullifierUsed, verifierOwner>>
auditVars == <<auditLog, stageLog>>
settlementVars == <<owner, settled>>
vars == <<assets, requests, ledgerVars, verifierVars, auditVars, settlementVars, timestamp>>

Init ==
  /\ Registry!Init
  /\ Access!Init
  /\ Ledger!Init
  /\ Verifier!Init(Deployer)
  /\ Audit!Init
  /\ owner = Deployer
  /\ settled = {}
  /\ timestamp = 0

---------------------------------------------------------------------------
(* The settlement contract *)

reserveBudgetForRequest_AnyStatus(sender, requestKey) ==
  LET request == requests[requestKey] IN
  /\ sender = owner
  /\ request.status # "None"
  /\ Ledger!reserveBudget(Settlement, request.assetId, requestKey, request.epsilonRequested)
  /\ UNCHANGED <<assets, requests, verifierVars, auditVars, settlementVars, timestamp>>

reserveBudgetForRequest(sender, requestKey) ==
  LET request == requests[requestKey] IN
  /\ sender = owner
  /\ request.status = "Approved"
  /\ Ledger!reserveBudget(Settlement, request.assetId, requestKey, request.epsilonRequested)
  /\ UNCHANGED <<assets, requests, verifierVars, auditVars, settlementVars, timestamp>>

(* The _match calls of settle: signals 0 to 6, 9 and 10. *)
MatchesRequest(requestKey, evidence, s) ==
  LET request == requests[requestKey]
      asset == assets[request.assetId] IN
  /\ s.requestId = requestKey % SCALAR_FIELD
  /\ s.assetId = request.assetId % SCALAR_FIELD
  /\ s.consumerId = request.consumerIdField
  /\ s.policyHash = asset.policyHash % SCALAR_FIELD
  /\ s.policyVersion = asset.policyVersion
  /\ s.functionId = request.functionId
  /\ s.evidence = evidence.digest % SCALAR_FIELD

SettleAllowed_UnknownPolicy(sender, requestKey, evidence, s) ==
  LET request == requests[requestKey]
      asset == assets[request.assetId] IN
  /\ request.status = "Approved"
  /\ request.consumer = sender
  /\ Registry!AssetFound(request.assetId)
  /\ asset.dataHash = evidence.dataHash
  /\ MatchesRequest(requestKey, evidence, s)
  /\ s.epsilonCost <= request.epsilonRequested

(* What settle checks before it calls the other contracts. *)
SettleAllowed(sender, requestKey, evidence, s) ==
  LET request == requests[requestKey]
      asset == assets[request.assetId] IN
  /\ request.status = "Approved"
  /\ request.consumer = sender
  /\ Registry!AssetFound(request.assetId)
  /\ asset.active
  /\ asset.dataHash = evidence.dataHash
  /\ asset.policyHash = request.policyHash
  /\ asset.policyVersion = request.policyVersion
  /\ MatchesRequest(requestKey, evidence, s)
  /\ s.epsilonCost <= request.epsilonRequested

RequestSettled(requestKey, evidence, s) ==
  [requestKey |-> requestKey, assetKey |-> requests[requestKey].assetId,
   consumer |-> requests[requestKey].consumer, privacyCostFixed |-> s.epsilonCost,
   nullifier |-> s.nullifier, evidence |-> evidence.digest]

(* The arguments of recordSettlement: the event's, and the request context. *)
SettlementRecord(requestKey, evidence, s) ==
  LET request == requests[requestKey] IN
  [settlement |-> RequestSettled(requestKey, evidence, s),
   consumerIdField |-> request.consumerIdField, policyHash |-> request.policyHash,
   policyVersion |-> request.policyVersion, functionId |-> request.functionId]

settle_ConsumesFullReservation(sender, requestKey, evidence, s) ==
  LET assetId == requests[requestKey].assetId IN
  /\ SettleAllowed(sender, requestKey, evidence, s)
  /\ Verifier!submitCompliance(requestKey, s)
  /\ Ledger!consumeBudget(Settlement, assetId, requestKey, requests[requestKey].epsilonRequested)
  /\ Access!completeRequest(requestKey)
  /\ Audit!recordSettlement(SettlementRecord(requestKey, evidence, s))
  /\ settled' = settled \cup {RequestSettled(requestKey, evidence, s)}
  /\ UNCHANGED <<assets, owner, timestamp>>

settle_KeepsReservation(sender, requestKey, evidence, s) ==
  /\ SettleAllowed(sender, requestKey, evidence, s)
  /\ Verifier!submitCompliance(requestKey, s)
  /\ Access!completeRequest(requestKey)
  /\ Audit!recordSettlement(SettlementRecord(requestKey, evidence, s))
  /\ settled' = settled \cup {RequestSettled(requestKey, evidence, s)}
  /\ UNCHANGED <<assets, ledgerVars, owner, timestamp>>

settle(sender, requestKey, evidence, s) ==
  LET assetId == requests[requestKey].assetId IN
  /\ SettleAllowed(sender, requestKey, evidence, s)
  /\ Verifier!submitCompliance(requestKey, s)
  /\ Ledger!consumeBudget(Settlement, assetId, requestKey, s.epsilonCost)
  /\ Access!completeRequest(requestKey)
  /\ Audit!recordSettlement(SettlementRecord(requestKey, evidence, s))
  /\ settled' = settled \cup {RequestSettled(requestKey, evidence, s)}
  /\ UNCHANGED <<assets, owner, timestamp>>

transferOwnership(sender, newOwner) ==
  /\ sender = owner
  /\ owner' = newOwner
  /\ UNCHANGED <<assets, requests, ledgerVars, verifierVars, auditVars, settled, timestamp>>

Evidences == [dataHash : DataHashes, digest : EvidenceHashes]

Settling ==
  \E u \in Users, r \in RequestKeys, e \in Evidences, s \in PublicSignals : settle(u, r, e, s)

Reserving == \E u \in Users, r \in RequestKeys : reserveBudgetForRequest(u, r)

HandOver == \E u \in Users, n \in NewOwners : transferOwnership(u, n)

---------------------------------------------------------------------------
(* Direct calls of the other contracts, and the passing of blocks *)

RegistryCall ==
  /\ \E u \in Users : Registry!RegistryCall(u)
  /\ UNCHANGED <<requests, ledgerVars, verifierVars, auditVars, settlementVars, timestamp>>

AccessCall ==
  /\ \E u \in Users : Access!AccessCall(u)
  /\ UNCHANGED <<assets, ledgerVars, verifierVars, auditVars, settlementVars, timestamp>>

LedgerCall ==
  /\ \E u \in Users : Ledger!LedgerCall(u)
  /\ UNCHANGED <<assets, requests, verifierVars, auditVars, settlementVars, timestamp>>

VerifierCall ==
  /\ \E u \in Users : Verifier!VerifierCall(u)
  /\ UNCHANGED <<assets, requests, ledgerVars, auditVars, settlementVars, timestamp>>

AuditCall ==
  /\ Audit!AuditCall
  /\ UNCHANGED <<assets, requests, ledgerVars, verifierVars, settlementVars, timestamp>>

Tick ==
  /\ timestamp < MaxTime
  /\ timestamp' = timestamp + 1
  /\ UNCHANGED <<assets, requests, ledgerVars, verifierVars, auditVars, settlementVars>>

Next ==
  \/ Settling \/ Reserving \/ HandOver
  \/ RegistryCall \/ AccessCall \/ LedgerCall \/ VerifierCall \/ AuditCall
  \/ Tick

Spec == Init /\ [][Next]_vars

---------------------------------------------------------------------------
(* Correctness *)

TypeOK ==
  /\ Registry!RegistryTypeOK
  /\ Access!AccessTypeOK
  /\ Ledger!LedgerTypeOK
  /\ Verifier!VerifierTypeOK
  /\ owner \in Users \cup NewOwners
  /\ timestamp \in 0 .. MaxTime

EventsOf(r) == {e \in settled : e.requestKey = r}

HeldBySettlement(r) == reservations[r].reserver = Settlement

(* Budget the settlement contract holds was held for an approved request:  *)
(* it is the request's own asset and the whole epsilon it asked for, and   *)
(* stays so while anybody may move the request on.                         *)
HeldAsApproved ==
  \A r \in RequestKeys : HeldBySettlement(r) =>
    /\ requests[r].status \in {"Approved", "Completed"}
    /\ reservations[r].assetId = requests[r].assetId
    /\ reservations[r].amount = requests[r].epsilonRequested

(* The parts of a settlement, spread over five contracts, are there        *)
(* together or not at all: a RequestSettled event means the proof was      *)
(* accepted, its cost charged to the reservation the settlement contract   *)
(* held, the request completed and the audit record written, all with the  *)
(* same cost and nullifier; and that reservation is consumed only so.      *)
AllOrNothing ==
  /\ \A e \in settled :
       LET r == e.requestKey IN
       /\ HeldBySettlement(r) /\ reservations[r].status = "Consumed"
       /\ reservations[r].assetId = e.assetKey
       /\ charged[r] = e.privacyCostFixed
       /\ expectations[r].verified
       /\ expectations[r].epsilonUsed = e.privacyCostFixed
       /\ expectations[r].nullifier = e.nullifier
       /\ requests[r].status = "Completed" /\ requests[r].consumer = e.consumer
       /\ \E l \in auditLog : l.record.settlement = e
  /\ \A r \in RequestKeys :
       (HeldBySettlement(r) /\ reservations[r].status = "Consumed")
         => \E e \in settled : EventsOf(r) = {e}

(* A used nullifier belongs to exactly one verified request, and it is the *)
(* Poseidon image of that request's own context and cost: no proof serves  *)
(* two requests, even two whose keys are equal modulo SCALAR_FIELD, and no *)
(* request is refused because an unrelated one was verified first.         *)
NullifiersAccountedFor ==
  LET Verified == {r \in RequestKeys : expectations[r].verified} IN
  /\ nullifierUsed = {expectations[r].nullifier : r \in Verified}
  /\ \A q, r \in Verified : expectations[q].nullifier = expectations[r].nullifier => q = r
  /\ \A r \in Verified : \E n \in Nonces :
       expectations[r].nullifier =
         Poseidon(<<r % SCALAR_FIELD, expectations[r].assetId, expectations[r].consumerId,
                    expectations[r].policyHash, expectations[r].policyVersion,
                    expectations[r].functionId, expectations[r].evidence,
                    expectations[r].epsilonUsed>>, n)

(* What the settlement contract reports as spent on an asset is covered by *)
(* what the ledger counts as used, within the total.                       *)
ReportedSpendWithinBudget ==
  \A a \in AssetKeys :
    LET spent == SumFunctionOnSet([e \in settled |-> e.privacyCostFixed],
                                  {e \in settled : e.assetKey = a}) IN
    spent <= budgets[a].used /\ budgets[a].used <= budgets[a].total

(* A settlement was made before its attestation expired: block time in     *)
(* seconds, as the audit record stamps it, against an expiry in            *)
(* milliseconds.                                                           *)
SettledWhileFresh ==
  \A e \in settled : \E l \in auditLog :
    /\ l.record.settlement = e
    /\ l.timestamp * 1000 <= expectations[e.requestKey].expiresAtUnixMs

(* What was settled was asked for by name under the policy the registry    *)
(* holds for the asset, and with a function the circuit knows: a request   *)
(* made with the first version of requestAccess, which binds no function,  *)
(* is never settled although it can be approved, reserved for and          *)
(* completed.                                                              *)
SettledUnderAssetPolicy ==
  \A e \in settled :
    LET request == requests[e.requestKey]
        expected == expectations[e.requestKey] IN
    /\ assets[e.assetKey].policyHash = request.policyHash
    /\ assets[e.assetKey].policyVersion = request.policyVersion
    /\ request.functionId \in {1, 2} /\ expected.functionId = request.functionId
    /\ expected.consumerId = request.consumerIdField
    /\ expected.evidence = e.evidence % SCALAR_FIELD

(* The settlement contract never gives a reservation back and nobody else  *)
(* can: what it holds for a request leaves the state Reserved only in the  *)
(* transaction that settles that request.                                  *)
HeldUntilSettled ==
  [][\A r \in RequestKeys :
       (HeldBySettlement(r) /\ reservations[r].status = "Reserved") =>
         \/ reservations'[r] = reservations[r]
         \/ EventsOf(r) = {} /\ EventsOf(r)' # {}]_vars
=============================================================================
