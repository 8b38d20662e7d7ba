-------------------- MODULE TrustCircuitSettlementProofs --------------------
(***************************************************************************)
(* Theorems of the composed contracts for any sets of keys, users, inputs  *)
(* and proofs, any field size and any Poseidon function.                   *)
(*                                                                         *)
(* The argument is rely and guarantee.  OutsideStep says what the calls    *)
(* that do not go through the settlement contract may do to what it        *)
(* relies on; every such call is an outside step, and outside steps keep   *)
(* each part of the invariant.  The two transactions of the settlement     *)
(* contract that touch requests are then taken one by one.                 *)
(***************************************************************************)
EXTENDS SettlementAccounts, FiniteSums, TLAPS

LedgerProofs == INSTANCE BudgetLedgerProofs

LedgerInv == LedgerProofs!LedgerInv

(* The assumptions of the ledger's theorems hold of the ledger deployed    *)
(* here.                                                                   *)
LEMMA LedgerConstantsHold ==
  /\ LedgerProofs!LedgerConstants /\ LedgerProofs!FiniteRequestKeys
  /\ Users \subseteq Addresses /\ Settlement \in Addresses
BY SettlementConstants, RequestKeysFinite
DEF LedgerProofs!LedgerConstants, LedgerProofs!FiniteRequestKeys, IsFiniteSet,
    LedgerProofs!IsFiniteSet, Addresses

RequestsNameAssets ==
  \A r \in RequestKeys :
    requests[r].status # "None" => requests[r].assetId \in AssetKeys

VerifiedIsRegistered ==
  \A r \in RequestKeys : expectations[r].verified => expectations[r].registered

EventsNameRequests ==
  \A e \in settled : /\ e.requestKey \in RequestKeys
                     /\ assets[e.assetKey].owner # 0

TypeInv ==
  /\ Registry!RegistryTypeOK
  /\ Access!AccessTypeOK
  /\ Verifier!VerifierTypeOK
  /\ owner \in Users \cup NewOwners
  /\ timestamp \in 0 .. MaxTime
  /\ RequestsNameAssets
  /\ VerifiedIsRegistered
  /\ LedgerInv

IInv ==
  /\ TypeInv
  /\ EventsNameRequests
  /\ HeldAsApproved
  /\ AllOrNothing
  /\ NullifiersAccountedFor
  /\ SettledUnderAssetPolicy
  /\ SettledWhileFresh

---------------------------------------------------------------------------
(* What calls from outside may do *)

RequestMoves(r) ==
  \/ requests[r].status = "None"
  \/ \E status \in Access!RequestStatuses :
       /\ requests'[r] = [requests[r] EXCEPT !.status = status]
       /\ requests[r].status = "Completed" => status = "Completed"
       /\ requests[r].status = "Approved" => status \in {"Approved", "Completed"}

OutsideStep ==
  /\ \A a \in AssetKeys : assets[a].owner # 0 => assets'[a] = assets[a]
  /\ \A r \in RequestKeys : RequestMoves(r)
  /\ \A r \in RequestKeys : (HeldBySettlement(r) \/ HeldBySettlement(r)') =>
       reservations'[r] = reservations[r] /\ charged'[r] = charged[r]
  /\ \A r \in RequestKeys : expectations[r].verified => expectations'[r] = expectations[r]
  /\ auditLog \subseteq auditLog'
  /\ settled' = settled

(* Registering an asset touches no asset that has an owner.                *)
LEMMA RegistryIsOutside ==
  ASSUME TypeInv, RegistryCall
  PROVE  OutsideStep
<1>1. ASSUME NEW r \in RequestKeys PROVE RequestMoves(r)
  BY DEF RegistryCall, RequestMoves, TypeInv, Access!AccessTypeOK
<1>2. \A a \in AssetKeys : assets[a].owner # 0 => assets'[a] = assets[a]
  BY DEF RegistryCall, Registry!RegistryCall, Registry!registerAsset,
         Registry!registerAssetV2, Registry!registerAssetChecked, TypeInv,
         Registry!RegistryTypeOK
<1>. QED
  BY <1>1, <1>2 DEF RegistryCall, OutsideStep, HeldBySettlement, ledgerVars, verifierVars,
                    auditVars, settlementVars

(* Whoever calls the access controller, a request only moves forward.      *)
LEMMA AccessIsOutside ==
  ASSUME TypeInv, AccessCall
  PROVE  OutsideStep
<1>1. ASSUME NEW r \in RequestKeys PROVE RequestMoves(r)
  <2>1. PICK u \in Users : Access!AccessCall(u)
    BY DEF AccessCall
  <2>2. PICK q \in RequestKeys : Access!AccessCall(u)!(q)
    BY <2>1 DEF Access!AccessCall
  <2>3. requests' = [requests EXCEPT ![q] = requests'[q]]
    BY <2>2 DEF Access!AccessCall, Access!requestAccess, Access!requestAccessV2, Access!newRequest,
           Access!approveRequest, Access!rejectRequest, Access!completeRequest,
           Access!moveRequest, TypeInv, Access!AccessTypeOK
  <2>. QED
    BY <2>2, <2>3
    DEF Access!requestAccess, Access!requestAccessV2, Access!newRequest,
           Access!approveRequest, Access!rejectRequest, Access!completeRequest,
           Access!moveRequest, TypeInv, Access!AccessTypeOK, RequestMoves, Access!RequestStatuses
<1>. QED
  BY <1>1 DEF AccessCall, OutsideStep, HeldBySettlement, ledgerVars, verifierVars,
              auditVars, settlementVars

(* A user can neither make a reservation in the settlement contract's name *)
(* nor finish one it made.                                                 *)
LEMMA LedgerIsOutside ==
  ASSUME TypeInv, LedgerCall
  PROVE  OutsideStep
<1>1. ASSUME NEW r \in RequestKeys PROVE RequestMoves(r)
  BY DEF LedgerCall, RequestMoves, TypeInv, Access!AccessTypeOK
<1>2. ASSUME NEW r \in RequestKeys, HeldBySettlement(r) \/ HeldBySettlement(r)'
      PROVE  reservations'[r] = reservations[r] /\ charged'[r] = charged[r]
  <2>1. PICK u \in Users, a \in AssetKeys : Ledger!LedgerCall(u)!(a)
    BY DEF LedgerCall, Ledger!LedgerCall
  <2>2. /\ u # Settlement /\ u # 0
        /\ reservations = [q \in RequestKeys |-> reservations[q]]
        /\ charged = [q \in RequestKeys |-> charged[q]]
    BY SettlementConstants
    DEF TypeInv, LedgerInv, LedgerProofs!LedgerInv, LedgerProofs!LedgerTypeOK,
        LedgerProofs!LedgerTypes
  <2>3. ASSUME NEW t \in Amounts, Ledger!registerBudget(a, t)
        PROVE  reservations'[r] = reservations[r] /\ charged'[r] = charged[r]
    BY <2>3 DEF Ledger!registerBudget
  <2>4. ASSUME NEW q \in RequestKeys, NEW n \in Amounts, Ledger!reserveBudget(u, a, q, n)
        PROVE  reservations'[r] = reservations[r] /\ charged'[r] = charged[r]
    <3>1. q # r
      <4>1. reservations'[q].reserver = u
        BY <2>2, <2>4 DEF Ledger!reserveBudget
      <4>2. reservations[q].reserver = 0
        BY <2>4 DEF Ledger!reserveBudget, Ledger!ReserveAllowed, TypeInv, LedgerInv,
               LedgerProofs!LedgerInv, LedgerProofs!LedgerTypeOK,
               LedgerProofs!ReservationShape, LedgerProofs!NoReservation
      <4>. QED
        BY <1>2, <2>2, <4>1, <4>2, SettlementConstants DEF HeldBySettlement
    <3>. QED
      BY <2>2, <2>4, <3>1 DEF Ledger!reserveBudget
  <2>5. ASSUME NEW q \in RequestKeys, NEW n \in Amounts, Ledger!consumeBudget(u, a, q, n)
        PROVE  reservations'[r] = reservations[r] /\ charged'[r] = charged[r]
    <3>1. /\ reservations[q].reserver = u
          /\ reservations'[q].reserver = u
          /\ \A p \in RequestKeys \ {q} : /\ reservations'[p] = reservations[p]
                                          /\ charged'[p] = charged[p]
      BY <2>2, <2>5
      DEF Ledger!consumeBudget, Ledger!ConsumeAllowed, Ledger!HoldsReservation, TypeInv,
          LedgerInv, LedgerProofs!LedgerInv, LedgerProofs!LedgerTypeOK, LedgerProofs!LedgerTypes
    <3>. QED
      BY <1>2, <2>2, <3>1 DEF HeldBySettlement
  <2>6. ASSUME NEW q \in RequestKeys, Ledger!releaseBudget(u, a, q)
        PROVE  reservations'[r] = reservations[r] /\ charged'[r] = charged[r]
    <3>1. /\ reservations[q].reserver = u
          /\ reservations'[q].reserver = u
          /\ charged' = charged
          /\ \A p \in RequestKeys \ {q} : reservations'[p] = reservations[p]
      BY <2>2, <2>6
      DEF Ledger!releaseBudget, Ledger!HoldsReservation, TypeInv,
          LedgerInv, LedgerProofs!LedgerInv, LedgerProofs!LedgerTypeOK, LedgerProofs!LedgerTypes
    <3>. QED
      BY <1>2, <2>2, <3>1 DEF HeldBySettlement
  <2>. QED
    BY <2>1, <2>3, <2>4, <2>5, <2>6
<1>. QED
  BY <1>1, <1>2 DEF LedgerCall, OutsideStep, verifierVars, auditVars, settlementVars

(* The verifier never touches an expectation it has verified.              *)
LEMMA VerifierIsOutside ==
  ASSUME TypeInv, VerifierCall
  PROVE  OutsideStep
<1>1. ASSUME NEW r \in RequestKeys PROVE RequestMoves(r)
  BY DEF VerifierCall, RequestMoves, TypeInv, Access!AccessTypeOK
<1>2. ASSUME NEW r \in RequestKeys, expectations[r].verified
      PROVE  expectations'[r] = expectations[r]
  BY <1>2
  DEF VerifierCall, Verifier!VerifierCall, Verifier!registerExpectation,
      Verifier!submitCompliance, Verifier!transferOwnership, TypeInv, VerifiedIsRegistered,
      Verifier!VerifierTypeOK
<1>. QED
  BY <1>1, <1>2 DEF VerifierCall, OutsideStep, HeldBySettlement, ledgerVars, auditVars,
                    settlementVars

(* The other steps: an audit event of anybody's, a new owner, a new block. *)
LEMMA OthersAreOutside ==
  ASSUME TypeInv, AuditCall \/ HandOver \/ Tick \/ UNCHANGED vars
  PROVE  OutsideStep
<1>1. ASSUME NEW r \in RequestKeys PROVE RequestMoves(r)
  BY DEF AuditCall, HandOver, transferOwnership, Tick, vars, RequestMoves, TypeInv,
         Access!AccessTypeOK
<1>2. auditLog \subseteq auditLog'
  BY DEF AuditCall, Audit!AuditCall, Audit!recordAudit, Audit!recordSettlement, HandOver,
         transferOwnership, Tick, vars, auditVars
<1>. QED
  BY <1>1, <1>2 DEF AuditCall, HandOver, transferOwnership, Tick, vars, OutsideStep,
                    HeldBySettlement, ledgerVars, verifierVars, auditVars, settlementVars

---------------------------------------------------------------------------
(* Outside steps keep the invariant *)

(* A request that has status keeps everything but the status.              *)
LEMMA OutsideKeepsRequests ==
  ASSUME TypeInv, OutsideStep, NEW r \in RequestKeys, requests[r].status # "None"
  PROVE  /\ requests'[r].assetId = requests[r].assetId
         /\ requests'[r].consumer = requests[r].consumer
         /\ requests'[r].consumerIdField = requests[r].consumerIdField
         /\ requests'[r].policyHash = requests[r].policyHash
         /\ requests'[r].policyVersion = requests[r].policyVersion
         /\ requests'[r].functionId = requests[r].functionId
         /\ requests'[r].epsilonRequested = requests[r].epsilonRequested
         /\ requests[r].status = "Completed" => requests'[r].status = "Completed"
         /\ requests[r].status = "Approved" =>
              requests'[r].status \in {"Approved", "Completed"}
<1>1. PICK status \in Access!RequestStatuses :
        /\ requests'[r] = [requests[r] EXCEPT !.status = status]
        /\ requests[r].status = "Completed" => status = "Completed"
        /\ requests[r].status = "Approved" => status \in {"Approved", "Completed"}
  BY DEF OutsideStep, RequestMoves
<1>2. requests[r] \in [assetId : Nat, consumer : Nat, consumerIdField : Nat, policyHash : Nat,
                      policyVersion : Nat, functionId : Nat, epsilonRequested : Nat,
                      status : Access!RequestStatuses]
  BY DEF TypeInv, Access!AccessTypeOK
<1>. QED
  BY <1>1, <1>2

(* What is held for a request stays what was approved for it.              *)
LEMMA OutsideKeepsHeld ==
  ASSUME TypeInv, HeldAsApproved, OutsideStep
  PROVE  HeldAsApproved'
<1>. SUFFICES ASSUME NEW r \in RequestKeys, HeldBySettlement(r)'
              PROVE  /\ requests'[r].status \in {"Approved", "Completed"}
                     /\ reservations'[r].assetId = requests'[r].assetId
                     /\ reservations'[r].amount = requests'[r].epsilonRequested
  BY DEF HeldAsApproved
<1>1. reservations'[r] = reservations[r] /\ HeldBySettlement(r)
  BY DEF OutsideStep, HeldBySettlement
<1>2. /\ requests[r].status \in {"Approved", "Completed"}
      /\ reservations[r].assetId = requests[r].assetId
      /\ reservations[r].amount = requests[r].epsilonRequested
  BY <1>1 DEF HeldAsApproved
<1>. QED
  BY <1>1, <1>2, OutsideKeepsRequests

(* The parts of a settlement that is there stay there, and no call from    *)
(* outside makes one part of a settlement.                                 *)
LEMMA OutsideKeepsAllOrNothing ==
  ASSUME TypeInv, EventsNameRequests, HeldAsApproved, AllOrNothing, OutsideStep
  PROVE  AllOrNothing'
<1>1. ASSUME NEW e \in settled, NEW r, r = e.requestKey
      PROVE  /\ HeldBySettlement(r)' /\ reservations'[r].status = "Consumed"
             /\ reservations'[r].assetId = e.assetKey
             /\ charged'[r] = e.privacyCostFixed
             /\ expectations'[r].verified
             /\ expectations'[r].epsilonUsed = e.privacyCostFixed
             /\ expectations'[r].nullifier = e.nullifier
             /\ requests'[r].status = "Completed" /\ requests'[r].consumer = e.consumer
             /\ \E l \in auditLog' : l.record.settlement = e
  <2>1. r \in RequestKeys
    BY <1>1 DEF EventsNameRequests
  <2>2. /\ HeldBySettlement(r) /\ reservations[r].status = "Consumed"
        /\ reservations[r].assetId = e.assetKey
        /\ charged[r] = e.privacyCostFixed
        /\ expectations[r].verified
        /\ expectations[r].epsilonUsed = e.privacyCostFixed
        /\ expectations[r].nullifier = e.nullifier
        /\ requests[r].status = "Completed" /\ requests[r].consumer = e.consumer
        /\ \E l \in auditLog : l.record.settlement = e
    BY <1>1 DEF AllOrNothing
  <2>3. /\ reservations'[r] = reservations[r] /\ charged'[r] = charged[r]
        /\ expectations'[r] = expectations[r] /\ auditLog \subseteq auditLog'
    BY <2>1, <2>2 DEF OutsideStep
  <2>4. requests'[r].status = "Completed" /\ requests'[r].consumer = requests[r].consumer
    BY <2>1, <2>2, OutsideKeepsRequests
  <2>. QED
    BY <2>2, <2>3, <2>4 DEF HeldBySettlement
<1>2. ASSUME NEW r \in RequestKeys, HeldBySettlement(r)', reservations'[r].status = "Consumed"
      PROVE  \E e \in settled' : EventsOf(r)' = {e}
  <2>1. HeldBySettlement(r) /\ reservations[r].status = "Consumed" /\ settled' = settled
    BY <1>2 DEF OutsideStep, HeldBySettlement
  <2>. QED
    BY <2>1 DEF AllOrNothing, EventsOf
<1>3. settled' = settled
  BY DEF OutsideStep
<1>. QED
  BY <1>1, <1>2, <1>3 DEF AllOrNothing

(* Assets and verified expectations are frozen, and requests keep their    *)
(* terms.                                                                  *)
LEMMA OutsideKeepsPolicy ==
  ASSUME TypeInv, EventsNameRequests, HeldAsApproved, AllOrNothing, SettledUnderAssetPolicy,
         OutsideStep
  PROVE  EventsNameRequests' /\ SettledUnderAssetPolicy'
<1>. SUFFICES ASSUME NEW e \in settled
     PROVE  LET request == requests'[e.requestKey]
                expected == expectations'[e.requestKey] IN
            /\ e.requestKey \in RequestKeys
            /\ assets'[e.assetKey].owner # 0
            /\ assets'[e.assetKey].policyHash = request.policyHash
            /\ assets'[e.assetKey].policyVersion = request.policyVersion
            /\ request.functionId \in {1, 2} /\ expected.functionId = request.functionId
            /\ expected.consumerId = request.consumerIdField
            /\ expected.evidence = e.evidence % SCALAR_FIELD
  BY DEF OutsideStep, EventsNameRequests, SettledUnderAssetPolicy
<1>1. e.requestKey \in RequestKeys /\ assets[e.assetKey].owner # 0
  BY DEF EventsNameRequests
<1>2. /\ requests[e.requestKey].status = "Completed"
      /\ expectations[e.requestKey].verified
      /\ HeldBySettlement(e.requestKey)
      /\ reservations[e.requestKey].assetId = e.assetKey
  BY DEF AllOrNothing
<1>3. e.assetKey \in AssetKeys
  BY <1>1, <1>2 DEF HeldAsApproved, TypeInv, RequestsNameAssets
<1>4. /\ assets'[e.assetKey] = assets[e.assetKey]
      /\ expectations'[e.requestKey] = expectations[e.requestKey]
  BY <1>1, <1>2, <1>3 DEF OutsideStep
<1>5. /\ requests'[e.requestKey].policyHash = requests[e.requestKey].policyHash
      /\ requests'[e.requestKey].policyVersion = requests[e.requestKey].policyVersion
      /\ requests'[e.requestKey].functionId = requests[e.requestKey].functionId
      /\ requests'[e.requestKey].consumerIdField = requests[e.requestKey].consumerIdField
  BY <1>1, <1>2, OutsideKeepsRequests
<1>. QED
  BY <1>1, <1>4, <1>5 DEF SettledUnderAssetPolicy

(* The expiry of a verified expectation and the audit log survive outside  *)
(* calls.                                                                  *)
LEMMA OutsideKeepsFresh ==
  ASSUME EventsNameRequests, AllOrNothing, SettledWhileFresh, OutsideStep
  PROVE  SettledWhileFresh'
<1>. SUFFICES ASSUME NEW e \in settled
     PROVE  \E l \in auditLog' :
              /\ l.record.settlement = e
              /\ l.timestamp * 1000 <= expectations'[e.requestKey].expiresAtUnixMs
  BY DEF OutsideStep, SettledWhileFresh
<1>1. expectations'[e.requestKey] = expectations[e.requestKey]
  BY DEF OutsideStep, EventsNameRequests, AllOrNothing
<1>2. PICK l \in auditLog :
        /\ l.record.settlement = e
        /\ l.timestamp * 1000 <= expectations[e.requestKey].expiresAtUnixMs
  BY DEF SettledWhileFresh
<1>. QED
  BY <1>1, <1>2 DEF OutsideStep

---------------------------------------------------------------------------
(* The verifier *)

VerifierInv == Verifier!VerifierTypeOK /\ VerifiedIsRegistered /\ NullifiersAccountedFor

(* The owner cannot re-register a request that was verified.               *)
LEMMA RegisterExpectationPreserves ==
  ASSUME VerifierInv, NEW u \in Users, NEW k \in RequestKeys, NEW i \in ExpectationInputs,
         Verifier!registerExpectation(u, k, i)
  PROVE  VerifierInv'
<1>1. ~ expectations[k].registered /\ ~ expectations[k].verified
  BY DEF VerifierInv, VerifiedIsRegistered, Verifier!registerExpectation
<1>2. Verifier!VerifierTypeOK'
  BY SettlementConstants
  DEF VerifierInv, Verifier!VerifierTypeOK, Verifier!registerExpectation
<1>3. /\ ~ expectations'[k].verified
      /\ \A r \in RequestKeys \ {k} : expectations'[r] = expectations[r]
  BY DEF VerifierInv, Verifier!VerifierTypeOK, Verifier!registerExpectation
<1>4. VerifiedIsRegistered'
  BY <1>3 DEF VerifierInv, VerifiedIsRegistered
<1>5. NullifiersAccountedFor'
  <2>1. {r \in RequestKeys : expectations'[r].verified}
          = {r \in RequestKeys : expectations[r].verified}
    BY <1>1, <1>3
  <2>2. \A r \in RequestKeys : expectations[r].verified => expectations'[r] = expectations[r]
    BY <1>1, <1>3
  <2>3. nullifierUsed' = nullifierUsed
    BY DEF Verifier!registerExpectation
  <2>. QED
    BY <2>1, <2>2, <2>3 DEF VerifierInv, NullifiersAccountedFor
<1>. QED
  BY <1>2, <1>4, <1>5 DEF VerifierInv

(* An accepted proof uses a nullifier nobody used, the Poseidon image of   *)
(* the request's own context.                                              *)
LEMMA SubmitPreserves ==
  ASSUME VerifierInv, NEW k \in RequestKeys, NEW s \in PublicSignals,
         Verifier!submitCompliance(k, s)
  PROVE  VerifierInv'
<1>1. ~ expectations[k].verified /\ expectations[k].registered
  BY DEF Verifier!submitCompliance
<1>2. s.epsilonCost \in Nat /\ s.nullifier \in Nat
  BY SettlementConstants
<1>3. Verifier!VerifierTypeOK'
  <2>. DEFINE Slot ==
         [requestId : Nat, assetId : Nat, consumerId : Nat, policyHash : Nat,
          policyVersion : Nat, functionId : Nat, evidence : Nat, maxEpsilon : Nat,
          expiresAtUnixMs : Nat, registered : BOOLEAN, verified : BOOLEAN,
          epsilonUsed : Nat, nullifier : Nat]
              new == [expectations[k] EXCEPT !.verified = TRUE,
                        !.epsilonUsed = s.epsilonCost, !.nullifier = s.nullifier]
  <2>1. expectations \in [RequestKeys -> Slot]
    BY DEF VerifierInv, Verifier!VerifierTypeOK
  <2>2. expectations' = [expectations EXCEPT ![k] = new]
    BY <2>1 DEF Verifier!submitCompliance
  <2>3. new \in Slot
    BY <1>2, <2>1
  <2>4. expectations' \in [RequestKeys -> Slot]
    <3>. HIDE DEF Slot, new
    <3>. QED
      BY <2>1, <2>2, <2>3
  <2>5. nullifierUsed' \subseteq Nat /\ verifierOwner' \in Addresses \cup NewOwners
    BY <1>2 DEF VerifierInv, Verifier!VerifierTypeOK, Verifier!submitCompliance
  <2>. QED
    BY <2>4, <2>5 DEF Verifier!VerifierTypeOK
<1>4. /\ expectations'[k] = [expectations[k] EXCEPT !.verified = TRUE,
                              !.epsilonUsed = s.epsilonCost, !.nullifier = s.nullifier]
      /\ expectations[k] \in
           [requestId : Nat, assetId : Nat, consumerId : Nat, policyHash : Nat,
            policyVersion : Nat, functionId : Nat, evidence : Nat, maxEpsilon : Nat,
            expiresAtUnixMs : Nat, registered : BOOLEAN, verified : BOOLEAN,
            epsilonUsed : Nat, nullifier : Nat]
      /\ \A r \in RequestKeys \ {k} : expectations'[r] = expectations[r]
  BY DEF VerifierInv, Verifier!VerifierTypeOK, Verifier!submitCompliance
<1>5. /\ expectations'[k].verified /\ expectations'[k].registered
      /\ expectations'[k].nullifier = s.nullifier
      /\ expectations'[k].epsilonUsed = s.epsilonCost
      /\ expectations'[k].assetId = expectations[k].assetId
      /\ expectations'[k].consumerId = expectations[k].consumerId
      /\ expectations'[k].policyHash = expectations[k].policyHash
      /\ expectations'[k].policyVersion = expectations[k].policyVersion
      /\ expectations'[k].functionId = expectations[k].functionId
      /\ expectations'[k].evidence = expectations[k].evidence
  BY <1>1, <1>4
<1>6. VerifiedIsRegistered'
  BY <1>4, <1>5 DEF VerifierInv, VerifiedIsRegistered
<1>. DEFINE Verified == {r \in RequestKeys : expectations[r].verified}
            Image(r, e, n) ==
              Poseidon(<<r % SCALAR_FIELD, e.assetId, e.consumerId, e.policyHash,
                         e.policyVersion, e.functionId, e.evidence, e.epsilonUsed>>, n)
<1>7. Verified' = Verified \cup {k} /\ k \notin Verified
  BY <1>1, <1>4, <1>5
<1>8. /\ nullifierUsed = {expectations[r].nullifier : r \in Verified}
      /\ \A q, r \in Verified : expectations[q].nullifier = expectations[r].nullifier => q = r
      /\ \A r \in Verified :
           \E n \in Nonces : expectations[r].nullifier = Image(r, expectations[r], n)
  BY DEF VerifierInv, NullifiersAccountedFor
<1>9. nullifierUsed' = nullifierUsed \cup {s.nullifier} /\ s.nullifier \notin nullifierUsed
  BY DEF Verifier!submitCompliance, Verifier!FreshNullifier
<1>10. \A r \in Verified : expectations'[r] = expectations[r]
  BY <1>4, <1>7
<1>11. nullifierUsed' = {expectations'[r].nullifier : r \in Verified'}
  BY <1>5, <1>7, <1>8, <1>9, <1>10
<1>12. \A q, r \in Verified' : expectations'[q].nullifier = expectations'[r].nullifier => q = r
  BY <1>5, <1>7, <1>8, <1>9, <1>10
<1>13. \E n \in Nonces : expectations'[k].nullifier = Image(k, expectations'[k], n)
  <2>1. PICK w \in Verifier!Witnesses : Verifier!ComplianceCheck(s, w)
    BY DEF Verifier!submitCompliance, Verifier!verifyProof
  <2>2. w.secretNonce \in Nonces
    BY <2>1 DEF Verifier!Witnesses
  <2>3. s.nullifier = Poseidon(Verifier!Context(s), w.secretNonce)
    BY <2>1 DEF Verifier!ComplianceCheck
  <2>4. /\ s.requestId = k % SCALAR_FIELD /\ s.assetId = expectations'[k].assetId
        /\ s.consumerId = expectations'[k].consumerId
        /\ s.policyHash = expectations'[k].policyHash
        /\ s.policyVersion = expectations'[k].policyVersion
        /\ s.functionId = expectations'[k].functionId
        /\ s.evidence = expectations'[k].evidence
    BY <1>5 DEF Verifier!submitCompliance, Verifier!MatchesExpectation, Verifier!ContextFields
  <2>5. s.nullifier = Image(k, expectations'[k], w.secretNonce)
    BY <1>5, <2>3, <2>4 DEF Verifier!Context
  <2>. QED
    BY <1>5, <2>2, <2>5
<1>14. \A r \in Verified' :
         \E n \in Nonces : expectations'[r].nullifier = Image(r, expectations'[r], n)
  BY <1>7, <1>8, <1>10, <1>13
<1>15. NullifiersAccountedFor'
  BY <1>11, <1>12, <1>14 DEF NullifiersAccountedFor
<1>. QED
  BY <1>3, <1>6, <1>15 DEF VerifierInv

(* Every direct call of the verifier preserves its invariant.              *)
LEMMA VerifierCallPreserves ==
  ASSUME VerifierInv, VerifierCall
  PROVE  VerifierInv'
<1>1. PICK u \in Users : Verifier!VerifierCall(u)
  BY DEF VerifierCall
<1>2. ASSUME NEW n \in NewOwners, Verifier!transferOwnership(u, n) PROVE VerifierInv'
  BY <1>2, SettlementConstants
  DEF VerifierInv, Verifier!VerifierTypeOK, VerifiedIsRegistered, NullifiersAccountedFor,
      Verifier!transferOwnership, Addresses
<1>. QED
  BY <1>1, <1>2, RegisterExpectationPreserves, SubmitPreserves DEF Verifier!VerifierCall

(* The verifier's invariant reads nothing but the verifier.                *)
LEMMA VerifierIdle ==
  ASSUME VerifierInv, UNCHANGED verifierVars
  PROVE  VerifierInv'
BY DEF VerifierInv, Verifier!VerifierTypeOK, VerifiedIsRegistered, NullifiersAccountedFor,
       verifierVars

---------------------------------------------------------------------------
(* The other contracts *)

(* An asset slot is filled with a caller, two hashes and a version.        *)
LEMMA RegistryCallPreserves ==
  ASSUME Registry!RegistryTypeOK, RegistryCall
  PROVE  Registry!RegistryTypeOK'
<1>1. PICK u \in Nat, a \in AssetKeys, d \in Nat, p \in Nat, v \in Nat :
        Registry!registerAssetChecked(u, a, d, p, v)
  <2>1. PICK u \in Users, a \in AssetKeys, d \in DataHashes, p \in PolicyHashes :
          \/ Registry!registerAsset(u, a, d, p)
          \/ \E v \in Versions : Registry!registerAssetV2(u, a, d, p, v)
    BY DEF RegistryCall, Registry!RegistryCall
  <2>2. \E v \in Nat : Registry!registerAssetChecked(u, a, d, p, v)
    BY <2>1, SettlementConstants DEF Registry!registerAsset, Registry!registerAssetV2
  <2>. QED
    BY <2>2, SettlementConstants
<1>. QED
  BY <1>1 DEF Registry!registerAssetChecked, Registry!RegistryTypeOK

AccessInv == Access!AccessTypeOK /\ RequestsNameAssets

(* A new request names an asset key and starts Pending.                    *)
LEMMA NewRequestPreserves ==
  ASSUME AccessInv, NEW u \in Nat, NEW r \in RequestKeys, NEW a \in AssetKeys, NEW c \in Nat,
         NEW p \in Nat, NEW v \in Nat, NEW f \in Nat, NEW n \in Nat,
         Access!newRequest(u, r, a, c, p, v, f, n)
  PROVE  AccessInv'
<1>1. Access!AccessTypeOK'
  BY SettlementConstants
  DEF AccessInv, Access!AccessTypeOK, Access!RequestStatuses, Access!newRequest
<1>2. RequestsNameAssets'
  BY DEF AccessInv, Access!AccessTypeOK, RequestsNameAssets, Access!newRequest
<1>. QED
  BY <1>1, <1>2 DEF AccessInv

(* A request that moves on keeps its asset and never returns to None.      *)
LEMMA MoveRequestPreserves ==
  ASSUME AccessInv, NEW r \in RequestKeys, NEW from \in Access!RequestStatuses \ {"None"},
         NEW to \in Access!RequestStatuses, Access!moveRequest(r, from, to)
  PROVE  AccessInv'
<1>1. Access!AccessTypeOK'
  BY DEF AccessInv, Access!AccessTypeOK, Access!RequestStatuses, Access!moveRequest
<1>2. RequestsNameAssets'
  BY DEF AccessInv, Access!AccessTypeOK, RequestsNameAssets, Access!moveRequest
<1>. QED
  BY <1>1, <1>2 DEF AccessInv

(* Every direct call of the access controller preserves its invariant.     *)
LEMMA AccessCallPreserves ==
  ASSUME AccessInv, AccessCall
  PROVE  AccessInv'
<1>1. PICK u \in Users, r \in RequestKeys : Access!AccessCall(u)!(r)
  BY DEF AccessCall, Access!AccessCall
<1>2. u \in Nat /\ AssetKeys \subseteq Nat /\ ConsumerIds \subseteq Nat
      /\ PolicyHashes \subseteq Nat /\ Versions \subseteq Nat /\ Functions \subseteq Nat
      /\ Amounts \subseteq Nat
  BY SettlementConstants
<1>3. ASSUME NEW a \in AssetKeys, NEW n \in Amounts, Access!requestAccess(u, r, a, n)
      PROVE  AccessInv'
  BY <1>2, <1>3, NewRequestPreserves DEF Access!requestAccess
<1>4. ASSUME NEW a \in AssetKeys, NEW n \in Amounts, NEW c \in ConsumerIds,
             NEW p \in PolicyHashes, NEW v \in Versions, NEW f \in Functions,
             Access!requestAccessV2(u, r, a, c, p, v, f, n)
      PROVE  AccessInv'
  BY <1>2, <1>4, NewRequestPreserves DEF Access!requestAccessV2
<1>5. ASSUME Access!approveRequest(r) \/ Access!rejectRequest(r) \/ Access!completeRequest(r)
      PROVE  AccessInv'
  BY <1>5, MoveRequestPreserves
  DEF Access!approveRequest, Access!rejectRequest, Access!completeRequest,
      Access!RequestStatuses
<1>. QED
  BY <1>1, <1>3, <1>4, <1>5

(* The ledger's own theorem, for the calls users make.                     *)
LEMMA LedgerCallPreserves ==
  ASSUME LedgerInv, LedgerCall
  PROVE  LedgerInv'
<1>1. PICK u \in Users : Ledger!LedgerCall(u)
  BY DEF LedgerCall
<1>2. LedgerProofs!LedgerCall(u)
  BY <1>1
  DEF Ledger!LedgerCall, LedgerProofs!LedgerCall, Ledger!registerBudget,
      LedgerProofs!registerBudget, Ledger!reserveBudget, LedgerProofs!reserveBudget,
      Ledger!ReserveAllowed, LedgerProofs!ReserveAllowed, Ledger!consumeBudget,
      LedgerProofs!consumeBudget, Ledger!ConsumeAllowed, LedgerProofs!ConsumeAllowed,
      Ledger!HoldsReservation, LedgerProofs!HoldsReservation, Ledger!releaseBudget,
      LedgerProofs!releaseBudget, Ledger!remaining, LedgerProofs!remaining
<1>. QED
  BY <1>2, LedgerConstantsHold, LedgerProofs!CallPreserves DEF LedgerInv

(* The ledger's invariant reads nothing but the ledger.                    *)
LEMMA LedgerIdle ==
  ASSUME LedgerInv, UNCHANGED ledgerVars
  PROVE  LedgerInv'
BY LedgerConstantsHold, LedgerProofs!StutterPreserves
DEF LedgerInv, ledgerVars, LedgerProofs!ledgerVars

---------------------------------------------------------------------------
(* Calls that do not go through settle or reserveBudgetForRequest *)

OutsideAction ==
  \/ RegistryCall \/ AccessCall \/ LedgerCall \/ VerifierCall \/ AuditCall
  \/ HandOver \/ Tick \/ UNCHANGED vars

(* Everything but the two transactions below preserves the whole           *)
(* invariant.                                                              *)
LEMMA OutsidePreserves ==
  ASSUME IInv, OutsideAction
  PROVE  IInv'
<1>. USE DEF IInv
<1>1. OutsideStep
  BY RegistryIsOutside, AccessIsOutside, LedgerIsOutside, VerifierIsOutside, OthersAreOutside
  DEF OutsideAction
<1>2. /\ HeldAsApproved' /\ AllOrNothing' /\ EventsNameRequests' /\ SettledUnderAssetPolicy'
      /\ SettledWhileFresh'
  BY <1>1, OutsideKeepsHeld, OutsideKeepsAllOrNothing, OutsideKeepsPolicy, OutsideKeepsFresh
<1>3. Registry!RegistryTypeOK'
  <2>1. RegistryCall \/ UNCHANGED assets
    BY DEF OutsideAction, AccessCall, LedgerCall, VerifierCall, AuditCall, HandOver,
           transferOwnership, Tick, vars
  <2>2. UNCHANGED assets => Registry!RegistryTypeOK'
    BY DEF TypeInv, Registry!RegistryTypeOK
  <2>. QED
    BY <2>1, <2>2, RegistryCallPreserves DEF TypeInv
<1>4. AccessInv'
  <2>1. AccessCall \/ UNCHANGED requests
    BY DEF OutsideAction, RegistryCall, LedgerCall, VerifierCall, AuditCall, HandOver,
           transferOwnership, Tick, vars
  <2>2. AccessInv
    BY DEF TypeInv, AccessInv
  <2>3. UNCHANGED requests => AccessInv'
    BY <2>2 DEF AccessInv, Access!AccessTypeOK, RequestsNameAssets
  <2>. QED
    BY <2>1, <2>2, <2>3, AccessCallPreserves
<1>5. LedgerInv'
  <2>1. LedgerCall \/ UNCHANGED ledgerVars
    BY DEF OutsideAction, RegistryCall, AccessCall, VerifierCall, AuditCall, HandOver,
           transferOwnership, Tick, vars
  <2>. QED
    BY <2>1, LedgerCallPreserves, LedgerIdle DEF TypeInv
<1>6. VerifierInv'
  <2>1. VerifierCall \/ UNCHANGED verifierVars
    BY DEF OutsideAction, RegistryCall, AccessCall, LedgerCall, AuditCall, HandOver,
           transferOwnership, Tick, vars
  <2>2. VerifierInv
    BY DEF TypeInv, VerifierInv
  <2>. QED
    BY <2>1, <2>2, VerifierCallPreserves, VerifierIdle
<1>7. owner' \in Users \cup NewOwners /\ timestamp' \in 0 .. MaxTime
  BY SettlementConstants
  DEF TypeInv, OutsideAction, RegistryCall, AccessCall, LedgerCall, VerifierCall, AuditCall,
      HandOver, transferOwnership, Tick, vars, settlementVars
<1>. QED
  BY <1>2, <1>3, <1>4, <1>5, <1>6, <1>7 DEF TypeInv, AccessInv, VerifierInv

---------------------------------------------------------------------------
(* reserveBudgetForRequest *)

(* A reservation the settlement contract makes is for an approved          *)
(* request, and for a slot no event, and no earlier reservation, has       *)
(* used.                                                                   *)
LEMMA ReservingPreserves ==
  ASSUME IInv, Reserving
  PROVE  IInv'
<1>. USE DEF IInv
<1>1. PICK u \in Users, k \in RequestKeys : reserveBudgetForRequest(u, k)
  BY DEF Reserving
<1>2. /\ requests[k].status = "Approved"
      /\ Ledger!reserveBudget(Settlement, requests[k].assetId, k, requests[k].epsilonRequested)
      /\ UNCHANGED <<assets, requests, verifierVars, auditVars, settlementVars, timestamp>>
  BY <1>1 DEF reserveBudgetForRequest
<1>3. requests[k].assetId \in AssetKeys /\ requests[k].epsilonRequested \in Nat
  BY <1>2 DEF TypeInv, RequestsNameAssets, Access!AccessTypeOK
<1>4. LedgerInv'
  <2>1. LedgerProofs!reserveBudget(Settlement, requests[k].assetId, k,
                                   requests[k].epsilonRequested)
    BY <1>2
    DEF Ledger!reserveBudget, LedgerProofs!reserveBudget, Ledger!ReserveAllowed,
        LedgerProofs!ReserveAllowed, Ledger!remaining, LedgerProofs!remaining
  <2>. QED
    BY <1>3, <2>1, LedgerConstantsHold, LedgerProofs!ReservePreserves DEF TypeInv, LedgerInv
<1>5. TypeInv'
  BY <1>2, <1>4
  DEF TypeInv, Registry!RegistryTypeOK, Access!AccessTypeOK, Verifier!VerifierTypeOK,
      RequestsNameAssets, VerifiedIsRegistered, verifierVars, settlementVars
<1>6. /\ ~ HeldBySettlement(k)
      /\ reservations[k].status = "None"
      /\ reservations'[k].assetId = requests[k].assetId
      /\ reservations'[k].amount = requests[k].epsilonRequested
      /\ reservations'[k].status = "Reserved"
      /\ \A r \in RequestKeys \ {k} : reservations'[r] = reservations[r]
      /\ charged' = charged
  BY <1>2, SettlementConstants
  DEF Ledger!reserveBudget, Ledger!ReserveAllowed, TypeInv, LedgerInv, HeldBySettlement,
      LedgerProofs!LedgerInv, LedgerProofs!LedgerTypeOK, LedgerProofs!LedgerTypes,
      LedgerProofs!ReservationShape, LedgerProofs!NoReservation
<1>7. HeldAsApproved'
  BY <1>2, <1>6 DEF HeldAsApproved, HeldBySettlement
<1>8. AllOrNothing'
  <2>1. \A e \in settled : e.requestKey \in RequestKeys \ {k}
    BY <1>6 DEF EventsNameRequests, AllOrNothing
  <2>2. \A r \in RequestKeys : (HeldBySettlement(r)' /\ reservations'[r].status = "Consumed")
          => r # k /\ HeldBySettlement(r) /\ reservations[r].status = "Consumed"
    BY <1>6 DEF HeldBySettlement
  <2>3. \A e \in settled : LET r == e.requestKey IN
         /\ HeldBySettlement(r)' /\ reservations'[r] = reservations[r]
         /\ charged'[r] = charged[r] /\ expectations' = expectations /\ requests' = requests
         /\ auditLog' = auditLog
    BY <1>2, <1>6, <2>1 DEF AllOrNothing, HeldBySettlement, verifierVars, auditVars
  <2>4. settled' = settled
    BY <1>2 DEF settlementVars
  <2>. QED
    BY <2>2, <2>3, <2>4 DEF AllOrNothing, EventsOf
<1>9. /\ EventsNameRequests' /\ NullifiersAccountedFor' /\ SettledUnderAssetPolicy'
      /\ SettledWhileFresh'
  BY <1>2
  DEF EventsNameRequests, NullifiersAccountedFor, SettledUnderAssetPolicy,
      SettledWhileFresh, verifierVars, auditVars, settlementVars
<1>. QED
  BY <1>5, <1>7, <1>8, <1>9

---------------------------------------------------------------------------
(* settle *)

(* What a settlement finds and what it leaves behind, contract by contract.*)
LEMMA SettleEffects ==
  ASSUME IInv, NEW u \in Users, NEW k \in RequestKeys, NEW evidence \in Evidences,
         NEW s \in PublicSignals, settle(u, k, evidence, s)
  PROVE  /\ reservations[k].status = "Reserved" /\ HeldBySettlement(k)
         /\ reservations' = [reservations EXCEPT ![k].status = "Consumed"]
         /\ charged' = [charged EXCEPT ![k] = s.epsilonCost]
         /\ requests[k].status = "Approved"
         /\ requests' = [requests EXCEPT ![k].status = "Completed"]
         /\ ~ expectations[k].verified
         /\ Verifier!submitCompliance(k, s)
         /\ settled' = settled \cup {RequestSettled(k, evidence, s)}
         /\ \A e \in settled : e.requestKey \in RequestKeys \ {k}
         /\ auditLog \subseteq auditLog'
         /\ \E l \in auditLog' : /\ l.record.settlement = RequestSettled(k, evidence, s)
                                /\ l.timestamp = timestamp
         /\ UNCHANGED <<assets, owner, timestamp>>
<1>. USE DEF IInv
<1>1. /\ SettleAllowed(u, k, evidence, s)
      /\ Verifier!submitCompliance(k, s)
      /\ Ledger!consumeBudget(Settlement, requests[k].assetId, k, s.epsilonCost)
      /\ Access!completeRequest(k)
      /\ Audit!recordSettlement(SettlementRecord(k, evidence, s))
      /\ settled' = settled \cup {RequestSettled(k, evidence, s)}
      /\ UNCHANGED <<assets, owner, timestamp>>
  BY DEF settle
<1>2. /\ reservations[k].status = "Reserved" /\ HeldBySettlement(k)
      /\ reservations' = [reservations EXCEPT ![k].status = "Consumed"]
  BY <1>1 DEF Ledger!consumeBudget, Ledger!ConsumeAllowed, Ledger!HoldsReservation,
              HeldBySettlement
<1>3. charged' = [charged EXCEPT ![k] = s.epsilonCost]
  <2>1. charged[k] = 0 /\ s.epsilonCost \in Nat
    BY <1>2, SettlementConstants
    DEF TypeInv, LedgerInv, LedgerProofs!LedgerInv, LedgerProofs!ChargedWithinReservation
  <2>2. charged' = [charged EXCEPT ![k] = charged[k] + s.epsilonCost]
    BY <1>1 DEF Ledger!consumeBudget
  <2>3. charged[k] + s.epsilonCost = s.epsilonCost
    BY <2>1
  <2>. QED
    BY <2>2, <2>3, Zenon
<1>4. requests[k].status = "Approved" /\ requests' = [requests EXCEPT ![k].status = "Completed"]
  BY <1>1 DEF Access!completeRequest, Access!moveRequest
<1>5. ~ expectations[k].verified
  BY <1>1 DEF Verifier!submitCompliance
<1>6. \A e \in settled : e.requestKey \in RequestKeys \ {k}
  BY <1>5 DEF EventsNameRequests, AllOrNothing
<1>7. /\ auditLog \subseteq auditLog'
      /\ \E l \in auditLog' : /\ l.record.settlement = RequestSettled(k, evidence, s)
                             /\ l.timestamp = timestamp
  <2>. DEFINE l == [record |-> SettlementRecord(k, evidence, s), timestamp |-> timestamp]
  <2>1. auditLog' = auditLog \cup {l}
    BY <1>1 DEF Audit!recordSettlement
  <2>2. l.record.settlement = RequestSettled(k, evidence, s) /\ l.timestamp = timestamp
    BY DEF SettlementRecord
  <2>. QED
    BY <2>1, <2>2, Zenon
<1>. QED
  BY <1>1, <1>2, <1>3, <1>4, <1>5, <1>6, <1>7

(* settle charges the cost the proof shows, on the asset of the request:   *)
(* the ledger's own lemma applies.                                         *)
LEMMA SettlePreservesLedger ==
  ASSUME TypeInv, NEW u \in Users, NEW k \in RequestKeys, NEW evidence \in Evidences,
         NEW s \in PublicSignals, settle(u, k, evidence, s)
  PROVE  LedgerInv'
<1>1. Ledger!consumeBudget(Settlement, requests[k].assetId, k, s.epsilonCost)
  BY DEF settle
<1>2. LedgerProofs!consumeBudget(Settlement, requests[k].assetId, k, s.epsilonCost)
  BY <1>1
  DEF Ledger!consumeBudget, LedgerProofs!consumeBudget, Ledger!ConsumeAllowed,
      LedgerProofs!ConsumeAllowed, Ledger!HoldsReservation, LedgerProofs!HoldsReservation
<1>3. requests[k].assetId \in AssetKeys /\ s.epsilonCost \in Nat
  BY SettlementConstants DEF settle, SettleAllowed, TypeInv, RequestsNameAssets
<1>. QED
  BY <1>2, <1>3, LedgerConstantsHold, LedgerProofs!ConsumePreserves DEF TypeInv, LedgerInv

(* A settlement adds its event, charge, completed request, accepted proof  *)
(* and audit record together, and disturbs those of no other request.      *)
LEMMA SettlePreservesAllOrNothing ==
  ASSUME IInv, NEW u \in Users, NEW k \in RequestKeys, NEW evidence \in Evidences,
         NEW s \in PublicSignals, settle(u, k, evidence, s)
  PROVE  AllOrNothing' /\ EventsNameRequests'
<1>. USE DEF IInv
<1>. DEFINE event == RequestSettled(k, evidence, s)
<1>1. /\ event.requestKey = k /\ event.assetKey = requests[k].assetId
      /\ event.consumer = requests[k].consumer /\ event.privacyCostFixed = s.epsilonCost
      /\ event.nullifier = s.nullifier
  BY DEF RequestSettled
<1>. HIDE DEF event
<1>2. /\ reservations[k].status = "Reserved" /\ HeldBySettlement(k)
      /\ reservations' = [reservations EXCEPT ![k].status = "Consumed"]
      /\ charged' = [charged EXCEPT ![k] = s.epsilonCost]
      /\ requests' = [requests EXCEPT ![k].status = "Completed"]
      /\ settled' = settled \cup {event}
      /\ \A e \in settled : e.requestKey \in RequestKeys \ {k}
      /\ auditLog \subseteq auditLog'
      /\ \E l \in auditLog' : l.record.settlement = event
      /\ assets' = assets
  BY SettleEffects DEF event
<1>3. /\ expectations'[k].verified /\ expectations'[k].epsilonUsed = s.epsilonCost
      /\ expectations'[k].nullifier = s.nullifier
      /\ \A r \in RequestKeys \ {k} : expectations'[r] = expectations[r]
  BY DEF settle, Verifier!submitCompliance, TypeInv, Verifier!VerifierTypeOK
<1>4. /\ HeldBySettlement(k)' /\ reservations'[k].status = "Consumed"
      /\ reservations'[k].assetId = requests[k].assetId
      /\ \A r \in RequestKeys \ {k} : reservations'[r] = reservations[r]
  <2>1. reservations[k].assetId = requests[k].assetId
    BY <1>2 DEF HeldAsApproved
  <2>. QED
    BY <1>2, <2>1
    DEF HeldBySettlement, TypeInv, LedgerInv, LedgerProofs!LedgerInv,
        LedgerProofs!LedgerTypeOK, LedgerProofs!LedgerTypes
<1>5. charged'[k] = s.epsilonCost /\ \A r \in RequestKeys \ {k} : charged'[r] = charged[r]
  BY <1>2
  DEF TypeInv, LedgerInv, LedgerProofs!LedgerInv, LedgerProofs!LedgerTypeOK,
      LedgerProofs!LedgerTypes
<1>6. /\ requests'[k].status = "Completed" /\ requests'[k].consumer = requests[k].consumer
      /\ \A r \in RequestKeys \ {k} : requests'[r] = requests[r]
  BY <1>2 DEF TypeInv, Access!AccessTypeOK
<1>7. ASSUME NEW e \in settled', NEW r, r = e.requestKey
      PROVE  /\ HeldBySettlement(r)' /\ reservations'[r].status = "Consumed"
             /\ reservations'[r].assetId = e.assetKey
             /\ charged'[r] = e.privacyCostFixed
             /\ expectations'[r].verified
             /\ expectations'[r].epsilonUsed = e.privacyCostFixed
             /\ expectations'[r].nullifier = e.nullifier
             /\ requests'[r].status = "Completed" /\ requests'[r].consumer = e.consumer
             /\ \E l \in auditLog' : l.record.settlement = e
  <2>1. CASE e = event
    BY <1>1, <1>2, <1>3, <1>4, <1>5, <1>6, <1>7, <2>1
  <2>2. CASE e \in settled
    <3>1. r \in RequestKeys \ {k}
      BY <1>2, <1>7, <2>2
    <3>2. /\ HeldBySettlement(r) /\ reservations[r].status = "Consumed"
          /\ reservations[r].assetId = e.assetKey
          /\ charged[r] = e.privacyCostFixed
          /\ expectations[r].verified
          /\ expectations[r].epsilonUsed = e.privacyCostFixed
          /\ expectations[r].nullifier = e.nullifier
          /\ requests[r].status = "Completed" /\ requests[r].consumer = e.consumer
          /\ \E l \in auditLog : l.record.settlement = e
      BY <1>7, <2>2 DEF AllOrNothing
    <3>. QED
      BY <1>2, <1>3, <1>4, <1>5, <1>6, <3>1, <3>2 DEF HeldBySettlement
  <2>. QED
    BY <1>2, <2>1, <2>2
<1>8. ASSUME NEW r \in RequestKeys, HeldBySettlement(r)', reservations'[r].status = "Consumed"
      PROVE  \E e \in settled' : EventsOf(r)' = {e}
  <2>1. CASE r = k
    BY <1>1, <1>2, <2>1 DEF EventsOf
  <2>2. CASE r # k
    <3>1. HeldBySettlement(r) /\ reservations[r].status = "Consumed"
      BY <1>4, <1>8, <2>2 DEF HeldBySettlement
    <3>2. EventsOf(r)' = EventsOf(r)
      BY <1>1, <1>2, <2>2 DEF EventsOf
    <3>. QED
      BY <1>2, <3>1, <3>2 DEF AllOrNothing
  <2>. QED
    BY <2>1, <2>2
<1>9. EventsNameRequests'
  <2>1. assets[event.assetKey].owner # 0
    BY <1>1 DEF settle, SettleAllowed, Registry!AssetFound
  <2>. QED
    BY <1>1, <1>2, <2>1 DEF EventsNameRequests
<1>. QED
  BY <1>7, <1>8, <1>9 DEF AllOrNothing

(* settle compares the request with the registry and the proof with the    *)
(* request before it emits its event.                                      *)
LEMMA SettlePreservesPolicy ==
  ASSUME IInv, NEW u \in Users, NEW k \in RequestKeys, NEW evidence \in Evidences,
         NEW s \in PublicSignals, settle(u, k, evidence, s)
  PROVE  SettledUnderAssetPolicy'
<1>. USE DEF IInv
<1>1. /\ requests' = [requests EXCEPT ![k].status = "Completed"]
      /\ settled' = settled \cup {RequestSettled(k, evidence, s)}
      /\ \A e \in settled : e.requestKey \in RequestKeys \ {k}
      /\ assets' = assets
  BY SettleEffects
<1>2. /\ expectations' = [expectations EXCEPT ![k].verified = TRUE,
                                              ![k].epsilonUsed = s.epsilonCost,
                                              ![k].nullifier = s.nullifier]
      /\ s.functionId = expectations[k].functionId
      /\ s.consumerId = expectations[k].consumerId
      /\ s.evidence = expectations[k].evidence
      /\ Verifier!verifyProof(s)
  BY DEF settle, Verifier!submitCompliance, Verifier!MatchesExpectation, Verifier!ContextFields
<1>3. /\ \A r \in RequestKeys \ {k} : /\ expectations'[r] = expectations[r]
                                     /\ requests'[r] = requests[r]
      /\ requests'[k].policyHash = requests[k].policyHash
      /\ requests'[k].policyVersion = requests[k].policyVersion
      /\ requests'[k].functionId = requests[k].functionId
      /\ requests'[k].consumerIdField = requests[k].consumerIdField
      /\ expectations'[k].functionId = expectations[k].functionId
      /\ expectations'[k].consumerId = expectations[k].consumerId
      /\ expectations'[k].evidence = expectations[k].evidence
  BY <1>1, <1>2 DEF TypeInv, Access!AccessTypeOK, Verifier!VerifierTypeOK
<1>4. s.functionId \in {1, 2}
  BY <1>2 DEF Verifier!verifyProof, Verifier!ComplianceCheck
<1>5. /\ assets[requests[k].assetId].policyHash = requests[k].policyHash
      /\ assets[requests[k].assetId].policyVersion = requests[k].policyVersion
      /\ s.functionId = requests[k].functionId
      /\ s.consumerId = requests[k].consumerIdField
      /\ s.evidence = evidence.digest % SCALAR_FIELD
  BY DEF settle, SettleAllowed, MatchesRequest
<1>. SUFFICES ASSUME NEW e \in settled'
     PROVE  /\ assets[e.assetKey].policyHash = requests'[e.requestKey].policyHash
            /\ assets[e.assetKey].policyVersion = requests'[e.requestKey].policyVersion
            /\ requests'[e.requestKey].functionId \in {1, 2}
            /\ expectations'[e.requestKey].functionId = requests'[e.requestKey].functionId
            /\ expectations'[e.requestKey].consumerId = requests'[e.requestKey].consumerIdField
            /\ expectations'[e.requestKey].evidence = e.evidence % SCALAR_FIELD
  BY <1>1 DEF SettledUnderAssetPolicy
<1>6. CASE e \in settled
  BY <1>1, <1>3, <1>6 DEF SettledUnderAssetPolicy
<1>7. CASE e = RequestSettled(k, evidence, s)
  <2>1. /\ e.requestKey = k /\ e.assetKey = requests[k].assetId
        /\ e.evidence = evidence.digest
    BY <1>7 DEF RequestSettled
  <2>. QED
    BY <1>2, <1>3, <1>4, <1>5, <2>1
<1>. QED
  BY <1>1, <1>6, <1>7

(* submitCompliance compares the expiry with the block time that           *)
(* recordSettlement stamps.                                                *)
LEMMA SettlePreservesFresh ==
  ASSUME IInv, NEW u \in Users, NEW k \in RequestKeys, NEW evidence \in Evidences,
         NEW s \in PublicSignals, settle(u, k, evidence, s)
  PROVE  SettledWhileFresh'
<1>1. /\ settled' = settled \cup {RequestSettled(k, evidence, s)}
      /\ \A e \in settled : e.requestKey \in RequestKeys \ {k}
      /\ auditLog \subseteq auditLog'
      /\ \E l \in auditLog' : /\ l.record.settlement = RequestSettled(k, evidence, s)
                             /\ l.timestamp = timestamp
  BY SettleEffects
<1>2. /\ timestamp * 1000 <= expectations[k].expiresAtUnixMs
      /\ \A r \in RequestKeys : expectations'[r].expiresAtUnixMs = expectations[r].expiresAtUnixMs
  BY DEF settle, Verifier!submitCompliance, Verifier!NotStale, IInv, TypeInv,
         Verifier!VerifierTypeOK
<1>3. RequestSettled(k, evidence, s).requestKey = k
  BY DEF RequestSettled
<1>4. ASSUME NEW e \in settled'
      PROVE  \E l \in auditLog' :
               /\ l.record.settlement = e
               /\ l.timestamp * 1000 <= expectations'[e.requestKey].expiresAtUnixMs
  <2>1. CASE e \in settled
    BY <1>1, <1>2, <2>1 DEF IInv, SettledWhileFresh
  <2>2. CASE e = RequestSettled(k, evidence, s)
    BY <1>1, <1>2, <1>3, <2>2
  <2>. QED
    BY <1>1, <2>1, <2>2
<1>. QED
  BY <1>4 DEF SettledWhileFresh

(* settle preserves the whole invariant.                                   *)
LEMMA SettlingPreserves ==
  ASSUME IInv, Settling
  PROVE  IInv'
<1>1. PICK u \in Users, k \in RequestKeys, evidence \in Evidences, s \in PublicSignals :
        settle(u, k, evidence, s)
  BY DEF Settling
<1>2. /\ reservations' = [reservations EXCEPT ![k].status = "Consumed"]
      /\ requests[k].status = "Approved"
      /\ requests' = [requests EXCEPT ![k].status = "Completed"]
      /\ Verifier!submitCompliance(k, s)
      /\ UNCHANGED <<assets, owner, timestamp>>
  BY <1>1, SettleEffects
<1>3. AccessInv'
  BY <1>2, MoveRequestPreserves
  DEF IInv, TypeInv, AccessInv, Access!moveRequest, Access!RequestStatuses
<1>4. VerifierInv'
  BY <1>2, SubmitPreserves DEF IInv, TypeInv, VerifierInv
<1>5. LedgerInv'
  BY <1>1, SettlePreservesLedger DEF IInv
<1>6. TypeInv'
  BY <1>2, <1>3, <1>4, <1>5 DEF IInv, TypeInv, AccessInv, VerifierInv, Registry!RegistryTypeOK
<1>7. HeldAsApproved'
  <2>1. \A r \in RequestKeys :
          /\ reservations'[r].reserver = reservations[r].reserver
          /\ reservations'[r].assetId = reservations[r].assetId
          /\ reservations'[r].amount = reservations[r].amount
          /\ requests'[r].assetId = requests[r].assetId
          /\ requests'[r].epsilonRequested = requests[r].epsilonRequested
          /\ requests'[r].status = requests[r].status \/ requests'[r].status = "Completed"
    BY <1>2
    DEF IInv, TypeInv, Access!AccessTypeOK, LedgerInv, LedgerProofs!LedgerInv,
        LedgerProofs!LedgerTypeOK, LedgerProofs!LedgerTypes
  <2>. QED
    BY <2>1 DEF IInv, HeldAsApproved, HeldBySettlement
<1>. QED
  BY <1>1, <1>4, <1>6, <1>7, SettlePreservesAllOrNothing, SettlePreservesPolicy,
     SettlePreservesFresh
  DEF IInv, VerifierInv

---------------------------------------------------------------------------
(* The theorems *)

(* The contracts as deployed satisfy the invariant.                        *)
LEMMA InitIInv == Init => IInv
<1>. SUFFICES ASSUME Init PROVE IInv
  OBVIOUS
<1>1. Registry!RegistryTypeOK
  BY DEF Init, Registry!Init, Registry!RegistryTypeOK, Registry!NoAsset
<1>2. Access!AccessTypeOK /\ RequestsNameAssets
  BY DEF Init, Access!Init, Access!AccessTypeOK, Access!NoRequest, Access!RequestStatuses,
         RequestsNameAssets
<1>3. Verifier!VerifierTypeOK /\ VerifiedIsRegistered /\ NullifiersAccountedFor
  <2>1. Verifier!VerifierTypeOK
    BY SettlementConstants
    DEF Init, Verifier!Init, Verifier!VerifierTypeOK, Verifier!NoExpectation, Addresses
  <2>2. \A r \in RequestKeys : ~ expectations[r].verified
    BY DEF Init, Verifier!Init, Verifier!NoExpectation
  <2>3. nullifierUsed = {}
    BY DEF Init, Verifier!Init
  <2>. QED
    BY <2>1, <2>2, <2>3 DEF VerifiedIsRegistered, NullifiersAccountedFor
<1>4. LedgerInv
  <2>1. LedgerProofs!Init
    BY DEF Init, Ledger!Init, LedgerProofs!Init, Ledger!NoBudget, LedgerProofs!NoBudget,
           Ledger!NoReservation, LedgerProofs!NoReservation
  <2>. QED
    BY <2>1, LedgerConstantsHold, LedgerProofs!LedgerInit DEF LedgerInv
<1>5. owner \in Users \cup NewOwners /\ timestamp \in 0 .. MaxTime
  BY SettlementConstants DEF Init
<1>6. settled = {} /\ \A r \in RequestKeys : ~ HeldBySettlement(r)
  BY SettlementConstants DEF Init, Ledger!Init, Ledger!NoReservation, HeldBySettlement
<1>7. /\ EventsNameRequests /\ HeldAsApproved /\ AllOrNothing /\ SettledUnderAssetPolicy
      /\ SettledWhileFresh
  BY <1>6 DEF EventsNameRequests, HeldAsApproved, AllOrNothing, SettledUnderAssetPolicy,
              SettledWhileFresh
<1>. QED
  BY <1>1, <1>2, <1>3, <1>4, <1>5, <1>7 DEF IInv, TypeInv

(* The invariant is inductive.                                             *)
LEMMA Invariance == Spec => []IInv
<1>1. IInv /\ [Next]_vars => IInv'
  BY SettlingPreserves, ReservingPreserves, OutsidePreserves DEF Next, OutsideAction
<1>. QED
  BY <1>1, InitIInv, PTL DEF Spec

(* The slots of all five contracts keep their shape, whoever calls them in *)
(* whatever order, for any sets of keys, users, inputs and proofs.         *)
THEOREM SettlementTypeCorrect == Spec => []TypeOK
<1>1. IInv => TypeOK
  BY DEF IInv, TypeInv, TypeOK, LedgerInv, LedgerProofs!LedgerInv, LedgerProofs!LedgerTypeOK,
         Ledger!LedgerTypeOK, LedgerProofs!LedgerTypes, Ledger!LedgerTypes,
         LedgerProofs!BudgetShape, Ledger!BudgetShape, LedgerProofs!ReservationShape,
         Ledger!ReservationShape, LedgerProofs!NoBudget, Ledger!NoBudget,
         LedgerProofs!NoReservation, Ledger!NoReservation, LedgerProofs!Statuses,
         Ledger!Statuses
<1>. QED
  BY <1>1, Invariance, PTL

(* Budget held by the settlement contract was approved for that request.   *)
THEOREM HeldBudgetWasApproved == Spec => []HeldAsApproved
BY Invariance, PTL DEF IInv

(* A RequestSettled event, the accepted proof, the charge, the completed   *)
(* request and the audit record are there together or not at all.          *)
THEOREM SettlementIsAtomic == Spec => []AllOrNothing
BY Invariance, PTL DEF IInv

(* One used nullifier, one verified request, for any field size and any    *)
(* function Poseidon: injectivity is not needed.                           *)
THEOREM NullifiersAreSpentOnce == Spec => []NullifiersAccountedFor
BY Invariance, PTL DEF IInv

(* No settlement outside the policy the registry holds for the asset.      *)
THEOREM SettledUnderPolicy == Spec => []SettledUnderAssetPolicy
BY Invariance, PTL DEF IInv

(* No settlement after its attestation expired, whatever is registered,    *)
(* verified and logged around it.                                          *)
THEOREM SettledBeforeExpiry == Spec => []SettledWhileFresh
BY Invariance, PTL DEF IInv

(* The ledger's solvency and charges survive the composition, in which the *)
(* amounts come from requests and proofs.                                  *)
THEOREM LedgerSolventInComposition ==
  Spec => [](Ledger!Solvency /\ Ledger!ChargedWithinReservation)
<1>1. IInv => Ledger!Solvency /\ Ledger!ChargedWithinReservation
  BY DEF IInv, TypeInv, LedgerInv, LedgerProofs!LedgerInv, LedgerProofs!Solvency,
         LedgerProofs!ChargedWithinReservation, Ledger!Solvency,
         Ledger!ChargedWithinReservation
<1>. QED
  BY <1>1, Invariance, PTL

(* The sums of the ledger's module are this module's.                      *)
LEMMA SameSum ==
  ASSUME NEW f, NEW S
  PROVE  LedgerProofs!SumFunctionOnSet(f, S) = SumFunctionOnSet(f, S)
BY SumIsChosen
DEF LedgerProofs!SumFunctionOnSet, LedgerProofs!FoldFunctionOnSet,
    LedgerProofs!MapThenFoldSet, Adds, Chosen

(* The events about an asset are numbered by their requests, which the     *)
(* ledger counts among those that spent on that asset, at the same cost.   *)
LEMMA SpendIsCounted ==
  ASSUME IInv, NEW a \in AssetKeys
  PROVE  SumFunctionOnSet([e \in settled |-> e.privacyCostFixed],
                          {e \in settled : e.assetKey = a}) <= budgets[a].used
<1>. DEFINE cost == [e \in settled |-> e.privacyCostFixed]
            events == {e \in settled : e.assetKey = a}
            key == [e \in events |-> e.requestKey]
            spenders == LedgerProofs!Spenders(a)
<1>1. IsFiniteSet(spenders) /\ \A r \in spenders : charged[r] \in Nat
  <2>1. spenders \subseteq RequestKeys
    BY DEF LedgerProofs!Spenders
  <2>. QED
    BY <2>1, RequestKeysFinite, FS_Subset
    DEF IInv, TypeInv, LedgerInv, LedgerProofs!LedgerInv, LedgerProofs!LedgerTypeOK,
        LedgerProofs!LedgerTypes
<1>2. budgets[a].used = SumFunctionOnSet(charged, spenders)
  BY SameSum
  DEF IInv, TypeInv, LedgerInv, LedgerProofs!LedgerInv,
      LedgerProofs!CountersMatchReservations, LedgerProofs!CountersOf
<1>3. \A e \in events : key[e] \in spenders /\ cost[e] = charged[key[e]]
  BY DEF IInv, AllOrNothing, EventsNameRequests, LedgerProofs!Spenders
<1>4. \A e, f \in events : key[e] = key[f] => e = f
  <2>1. ASSUME NEW e \in settled, NEW f \in settled, e.requestKey = f.requestKey PROVE e = f
    <3>1. PICK g \in settled : EventsOf(e.requestKey) = {g}
      BY DEF IInv, AllOrNothing, EventsNameRequests
    <3>. QED
      BY <2>1, <3>1 DEF EventsOf
  <2>. QED
    BY <2>1
<1>5. IsFiniteSet(events)
  <2>1. key \in [events -> spenders]
    BY <1>3
  <2>2. key \in Injection(events, spenders)
    BY <1>4, <2>1 DEF Injection, IsInjective
  <2>. QED
    BY <1>1, <2>2, FS_Injection
<1>6. {key[e] : e \in events} \subseteq spenders
  BY <1>3
<1>. HIDE DEF cost, events, key, spenders
<1>7. SumFunctionOnSet(cost, events) = SumFunctionOnSet(charged, {key[e] : e \in events})
  BY <1>1, <1>3, <1>4, <1>5, SumRenamed
<1>8. SumFunctionOnSet(charged, {key[e] : e \in events}) <= SumFunctionOnSet(charged, spenders)
  BY <1>1, <1>6, SumMonotone
<1>9. SumFunctionOnSet(cost, events) <= budgets[a].used
  BY <1>2, <1>7, <1>8
<1>. QED
  BY <1>9 DEF cost, events

(* The events the settlement contract emits never report more spending on  *)
(* an asset than the ledger counts, which is within the asset's total.     *)
THEOREM ReportedSpendIsCovered == Spec => []ReportedSpendWithinBudget
<1>1. IInv => ReportedSpendWithinBudget
  <2>. SUFFICES ASSUME IInv, NEW a \in AssetKeys
                PROVE  /\ SumFunctionOnSet([e \in settled |-> e.privacyCostFixed],
                                           {e \in settled : e.assetKey = a})
                            <= budgets[a].used
                       /\ budgets[a].used <= budgets[a].total
    BY DEF ReportedSpendWithinBudget
  <2>1. budgets[a].used <= budgets[a].total
    BY DEF IInv, TypeInv, LedgerInv, LedgerProofs!LedgerInv, LedgerProofs!LedgerTypeOK,
           LedgerProofs!LedgerTypes, LedgerProofs!Solvency
  <2>. QED
    BY <2>1, SpendIsCounted
<1>. QED
  BY <1>1, Invariance, PTL

(* What the settlement contract holds for a request leaves the state       *)
(* Reserved only in the step that settles the request.                     *)
THEOREM HeldBudgetIsOnlySettled == Spec => HeldUntilSettled
<1>1. ASSUME IInv, [Next]_vars, NEW r \in RequestKeys, HeldBySettlement(r),
             reservations[r].status = "Reserved"
      PROVE  \/ reservations'[r] = reservations[r]
             \/ EventsOf(r) = {} /\ EventsOf(r)' # {}
  <2>1. CASE OutsideAction
    <3>1. OutsideStep
      BY <1>1, <2>1, RegistryIsOutside, AccessIsOutside, LedgerIsOutside, VerifierIsOutside,
         OthersAreOutside DEF OutsideAction, IInv
    <3>. QED
      BY <1>1, <3>1 DEF OutsideStep
  <2>2. CASE Reserving
    <3>1. PICK u \in Users, k \in RequestKeys : reserveBudgetForRequest(u, k)
      BY <2>2 DEF Reserving
    <3>2. reservations[k].status = "None"
      BY <3>1 DEF reserveBudgetForRequest, Ledger!reserveBudget, Ledger!ReserveAllowed
    <3>3. k # r
      BY <1>1, <3>2
    <3>. QED
      BY <1>1, <3>1, <3>3
      DEF reserveBudgetForRequest, Ledger!reserveBudget, IInv, TypeInv, LedgerInv,
          LedgerProofs!LedgerInv, LedgerProofs!LedgerTypeOK, LedgerProofs!LedgerTypes
  <2>3. CASE Settling
    <3>1. PICK u \in Users, k \in RequestKeys, evidence \in Evidences, s \in PublicSignals :
            settle(u, k, evidence, s)
      BY <2>3 DEF Settling
    <3>2. /\ reservations' = [reservations EXCEPT ![k].status = "Consumed"]
          /\ settled' = settled \cup {RequestSettled(k, evidence, s)}
          /\ \A e \in settled : e.requestKey \in RequestKeys \ {k}
      BY <1>1, <3>1, SettleEffects
    <3>3. RequestSettled(k, evidence, s).requestKey = k
      BY DEF RequestSettled
    <3>4. CASE k = r
      BY <3>2, <3>3, <3>4 DEF EventsOf
    <3>5. CASE k # r
      BY <1>1, <3>2, <3>5
      DEF IInv, TypeInv, LedgerInv, LedgerProofs!LedgerInv, LedgerProofs!LedgerTypeOK,
          LedgerProofs!LedgerTypes
    <3>. QED
      BY <3>4, <3>5
  <2>. QED
    BY <1>1, <2>1, <2>2, <2>3 DEF Next, OutsideAction
<1>2. IInv /\ [Next]_vars =>
        [\A r \in RequestKeys :
           (HeldBySettlement(r) /\ reservations[r].status = "Reserved") =>
             \/ reservations'[r] = reservations[r]
             \/ EventsOf(r) = {} /\ EventsOf(r)' # {}]_vars
  BY <1>1
<1>. QED
  BY <1>2, Invariance, PTL DEF Spec, HeldUntilSettled
---------------------------------------------------------------------------
(* The composed contracts implement atomic settlement *)

(* What the account of a request needs besides the invariant: the amount   *)
(* that is held is one somebody asked for, and the settlement contract     *)
(* never gives a reservation back.                                         *)
AskedForAmounts ==
  \A r \in RequestKeys :
    requests[r].status # "None" => requests[r].epsilonRequested \in Amounts

NeverReleased ==
  \A r \in RequestKeys :
    HeldBySettlement(r) => reservations[r].status \in {"Reserved", "Consumed"}

AccountsInv == IInv /\ AskedForAmounts /\ NeverReleased

(* A request keeps the amount it was made with.                            *)
LEMMA AmountsKept ==
  ASSUME IInv, AskedForAmounts, [Next]_vars
  PROVE  AskedForAmounts'
<1>. USE DEF AskedForAmounts
<1>1. Access!AccessTypeOK
  BY DEF IInv, TypeInv
<1>2. CASE AccessCall
  <2>1. PICK u \in Users : Access!AccessCall(u)
    BY <1>2 DEF AccessCall
  <2>2. PICK r \in RequestKeys : Access!AccessCall(u)!(r)
    BY <2>1 DEF Access!AccessCall
  <2>3. /\ requests'[r].epsilonRequested \in Amounts \/ requests[r].status # "None"
        /\ requests[r].status # "None" =>
             requests'[r].epsilonRequested = requests[r].epsilonRequested
        /\ \A q \in RequestKeys \ {r} : requests'[q] = requests[q]
    BY <1>1, <2>2
    DEF Access!AccessTypeOK, Access!requestAccess, Access!requestAccessV2, Access!newRequest,
        Access!approveRequest, Access!rejectRequest, Access!completeRequest, Access!moveRequest
  <2>. QED
    BY <2>3
<1>3. CASE Settling
  <2>1. PICK u \in Users, k \in RequestKeys, evidence \in Evidences, s \in PublicSignals :
          settle(u, k, evidence, s)
    BY <1>3 DEF Settling
  <2>2. requests[k].status = "Approved" /\ requests' = [requests EXCEPT ![k].status = "Completed"]
    BY <2>1, SettleEffects
  <2>. QED
    BY <1>1, <2>2 DEF Access!AccessTypeOK
<1>4. CASE UNCHANGED requests
  BY <1>4
<1>. QED
  BY <1>2, <1>3, <1>4
  DEF Next, Reserving, reserveBudgetForRequest, HandOver, transferOwnership, RegistryCall,
      LedgerCall, VerifierCall, AuditCall, Tick, vars

(* The settlement contract never calls releaseBudget, and the ledger lets  *)
(* only the holder of a reservation release it.                            *)
LEMMA ReleasedByNobody ==
  ASSUME IInv, NeverReleased, [Next]_vars
  PROVE  NeverReleased'
<1>. USE DEF NeverReleased
<1>1. CASE OutsideAction
  <2>1. OutsideStep
    BY <1>1, RegistryIsOutside, AccessIsOutside, LedgerIsOutside, VerifierIsOutside,
       OthersAreOutside DEF OutsideAction, IInv
  <2>. QED
    BY <2>1 DEF OutsideStep, HeldBySettlement
<1>2. CASE Reserving
  <2>1. PICK u \in Users, k \in RequestKeys : reserveBudgetForRequest(u, k)
    BY <1>2 DEF Reserving
  <2>2. /\ reservations'[k].status = "Reserved"
        /\ \A r \in RequestKeys \ {k} : reservations'[r] = reservations[r]
    BY <2>1
    DEF reserveBudgetForRequest, Ledger!reserveBudget, IInv, TypeInv, LedgerInv,
        LedgerProofs!LedgerInv, LedgerProofs!LedgerTypeOK, LedgerProofs!LedgerTypes
  <2>. QED
    BY <2>2 DEF HeldBySettlement
<1>3. CASE Settling
  <2>1. PICK u \in Users, k \in RequestKeys, evidence \in Evidences, s \in PublicSignals :
          settle(u, k, evidence, s)
    BY <1>3 DEF Settling
  <2>2. reservations' = [reservations EXCEPT ![k].status = "Consumed"]
    BY <2>1, SettleEffects
  <2>3. /\ reservations'[k].status = "Consumed"
        /\ \A r \in RequestKeys \ {k} : reservations'[r] = reservations[r]
    BY <2>2
    DEF IInv, TypeInv, LedgerInv, LedgerProofs!LedgerInv, LedgerProofs!LedgerTypeOK,
        LedgerProofs!LedgerTypes
  <2>. QED
    BY <2>3 DEF HeldBySettlement
<1>. QED
  BY <1>1, <1>2, <1>3 DEF Next, OutsideAction

(* The invariant of the accounts.                                          *)
LEMMA AccountsInvariance == Spec => []AccountsInv
<1>1. Init => AskedForAmounts /\ NeverReleased
  BY SettlementConstants
  DEF Init, Access!Init, Access!NoRequest, Ledger!Init, Ledger!NoReservation,
      HeldBySettlement, AskedForAmounts, NeverReleased
<1>2. AccountsInv /\ [Next]_vars => AskedForAmounts' /\ NeverReleased'
  BY AmountsKept, ReleasedByNobody DEF AccountsInv
<1>3. Init => AccountsInv
  BY <1>1, InitIInv DEF AccountsInv
<1>4. AccountsInv /\ [Next]_vars /\ IInv' => AccountsInv'
  BY <1>2 DEF AccountsInv
<1>. QED
  BY <1>3, <1>4, Invariance, PTL DEF Spec

Held(asset, amount) ==
  [state |-> "held", asset |-> asset, amount |-> amount, nullifier |-> 0]

Settled(asset, cost, nullifier) ==
  [state |-> "settled", asset |-> asset, amount |-> cost, nullifier |-> nullifier]

(* No call from outside touches an account.                                *)
LEMMA OutsideKeepsAccounts ==
  ASSUME AccountsInv, AccountsInv', OutsideStep
  PROVE  Accounts' = Accounts
<1>1. ASSUME NEW r \in RequestKeys PROVE AccountOf(r)' = AccountOf(r)
  <2>1. CASE ~ HeldBySettlement(r) /\ ~ HeldBySettlement(r)'
    BY <2>1 DEF AccountOf
  <2>2. CASE HeldBySettlement(r) \/ HeldBySettlement(r)'
    <3>1. /\ reservations'[r] = reservations[r] /\ charged'[r] = charged[r]
          /\ HeldBySettlement(r) /\ HeldBySettlement(r)'
      BY <2>2 DEF OutsideStep, HeldBySettlement
    <3>2. CASE reservations[r].status = "Reserved"
      BY <3>1, <3>2 DEF AccountOf
    <3>3. CASE reservations[r].status = "Consumed"
      <4>1. PICK e \in settled : EventsOf(r) = {e}
        BY <3>1, <3>3 DEF AccountsInv, IInv, AllOrNothing
      <4>2. e.requestKey = r
        BY <4>1 DEF EventsOf
      <4>3. expectations[r].verified /\ requests[r].status = "Completed"
        BY <4>2 DEF AccountsInv, IInv, AllOrNothing
      <4>4. requests'[r].status = "Completed"
        BY <4>3, OutsideKeepsRequests DEF AccountsInv, IInv
      <4>5. expectations'[r] = expectations[r] /\ EventsOf(r)' = EventsOf(r)
        BY <4>3 DEF OutsideStep, EventsOf
      <4>. QED
        BY <3>1, <4>3, <4>4, <4>5 DEF AccountOf
    <3>. QED
      BY <3>1, <3>2, <3>3 DEF AccountsInv, NeverReleased
  <2>. QED
    BY <2>1, <2>2
<1>. QED
  BY <1>1 DEF Accounts

(* An outside action is a stutter, or burns the nullifier of a proof that  *)
(* somebody sent to the verifier directly.                                 *)
LEMMA OutsideBurns ==
  ASSUME AccountsInv, AccountsInv', OutsideAction
  PROVE  [Account!Next]_(Account!accountVars)
<1>1. OutsideStep
  BY RegistryIsOutside, AccessIsOutside, LedgerIsOutside, VerifierIsOutside, OthersAreOutside
  DEF OutsideAction, AccountsInv, IInv
<1>2. Accounts' = Accounts
  BY <1>1, OutsideKeepsAccounts
<1>3. CASE UNCHANGED nullifierUsed
  BY <1>2, <1>3 DEF Account!accountVars
<1>4. CASE VerifierCall /\ ~ UNCHANGED nullifierUsed
  <2>1. PICK r \in RequestKeys, s \in PublicSignals : Verifier!submitCompliance(r, s)
    BY <1>4
    DEF VerifierCall, Verifier!VerifierCall, Verifier!registerExpectation,
        Verifier!transferOwnership
  <2>2. Account!Burn(s.nullifier)
    BY <1>2, <2>1 DEF Account!Burn, Verifier!submitCompliance, Verifier!FreshNullifier
  <2>. QED
    BY <2>2 DEF Account!Next, Nullifiers
<1>. QED
  BY <1>3, <1>4
  DEF OutsideAction, RegistryCall, AccessCall, LedgerCall, AuditCall, HandOver,
      transferOwnership, Tick, vars, verifierVars

(* reserveBudgetForRequest opens the account it reserves for.              *)
LEMMA ReservingHolds ==
  ASSUME AccountsInv, Reserving
  PROVE  Account!Next
<1>1. PICK u \in Users, k \in RequestKeys : reserveBudgetForRequest(u, k)
  BY DEF Reserving
<1>. DEFINE asset == requests[k].assetId
            amount == requests[k].epsilonRequested
<1>2. asset \in AssetKeys /\ amount \in Amounts
  BY <1>1 DEF reserveBudgetForRequest, AccountsInv, AskedForAmounts, IInv, TypeInv,
              RequestsNameAssets
<1>3. /\ ~ HeldBySettlement(k)
      /\ reservations'[k] = [assetId |-> asset, amount |-> amount,
                             reserver |-> Settlement, status |-> "Reserved"]
      /\ \A r \in RequestKeys \ {k} : reservations'[r] = reservations[r]
      /\ UNCHANGED <<charged, requests, verifierVars, settlementVars>>
  BY <1>1, SettlementConstants
  DEF reserveBudgetForRequest, Ledger!reserveBudget, Ledger!ReserveAllowed, HeldBySettlement,
      AccountsInv, IInv, TypeInv, LedgerInv, LedgerProofs!LedgerInv,
      LedgerProofs!LedgerTypeOK, LedgerProofs!LedgerTypes, LedgerProofs!ReservationShape,
      LedgerProofs!NoReservation
<1>4. AccountOf(k) = Account!Open /\ AccountOf(k)' = Held(asset, amount)
  BY <1>3 DEF AccountOf, Account!Open, HeldBySettlement, Held
<1>5. \A r \in RequestKeys \ {k} : AccountOf(r)' = AccountOf(r)
  BY <1>3 DEF AccountOf, HeldBySettlement, EventsOf, verifierVars, settlementVars
<1>6. Accounts' = [Accounts EXCEPT ![k] = Held(asset, amount)]
  BY <1>4, <1>5 DEF Accounts
<1>7. Account!Hold(k, asset, amount)
  <2>1. Accounts[k] = Account!Open
    BY <1>4 DEF Accounts
  <2>. QED
    BY <1>3, <1>6, <2>1 DEF Account!Hold, Held, verifierVars
<1>. QED
  BY <1>2, <1>7 DEF Account!Next

(* settle closes the account, at the cost and with the nullifier of the    *)
(* proof.                                                                  *)
LEMMA SettlingCloses ==
  ASSUME AccountsInv, AccountsInv', Settling
  PROVE  Account!Next
<1>1. PICK u \in Users, k \in RequestKeys, evidence \in Evidences, s \in PublicSignals :
        settle(u, k, evidence, s)
  BY DEF Settling
<1>. DEFINE asset == reservations[k].assetId
            amount == reservations[k].amount
<1>2. /\ reservations[k].status = "Reserved" /\ HeldBySettlement(k)
      /\ reservations' = [reservations EXCEPT ![k].status = "Consumed"]
      /\ charged' = [charged EXCEPT ![k] = s.epsilonCost]
      /\ requests' = [requests EXCEPT ![k].status = "Completed"]
      /\ settled' = settled \cup {RequestSettled(k, evidence, s)}
      /\ Verifier!submitCompliance(k, s)
  BY <1>1, SettleEffects DEF AccountsInv
<1>3. /\ reservations'[k] = [reservations[k] EXCEPT !.status = "Consumed"]
      /\ charged'[k] = s.epsilonCost
      /\ requests'[k].status = "Completed"
      /\ expectations'[k].verified /\ expectations'[k].nullifier = s.nullifier
      /\ \A r \in RequestKeys \ {k} :
           /\ reservations'[r] = reservations[r] /\ charged'[r] = charged[r]
           /\ requests'[r] = requests[r] /\ expectations'[r] = expectations[r]
  BY <1>2
  DEF AccountsInv, IInv, TypeInv, Access!AccessTypeOK, Verifier!VerifierTypeOK,
      Verifier!submitCompliance, LedgerInv, LedgerProofs!LedgerInv,
      LedgerProofs!LedgerTypeOK, LedgerProofs!LedgerTypes
<1>4. \A r \in RequestKeys \ {k} : EventsOf(r)' = EventsOf(r)
  BY <1>2 DEF EventsOf, RequestSettled
<1>5. RequestSettled(k, evidence, s) \in EventsOf(k)'
  BY <1>2 DEF EventsOf, RequestSettled
<1>6. AccountOf(k) = Held(asset, amount)
  BY <1>2 DEF AccountOf, Held
<1>7. AccountOf(k)' = Settled(asset, s.epsilonCost, s.nullifier)
  <2>1. /\ reservations'[k].status = "Consumed" /\ HeldBySettlement(k)'
        /\ reservations'[k].assetId = asset
    BY <1>2, <1>3
    DEF HeldBySettlement, AccountsInv, IInv, TypeInv, LedgerInv, LedgerProofs!LedgerInv,
        LedgerProofs!LedgerTypeOK, LedgerProofs!LedgerTypes
  <2>. QED
    BY <1>3, <1>5, <2>1 DEF AccountOf, Settled
<1>8. \A r \in RequestKeys \ {k} : AccountOf(r)' = AccountOf(r)
  BY <1>3, <1>4 DEF AccountOf, HeldBySettlement
<1>9. Accounts' = [Accounts EXCEPT ![k] = Settled(asset, s.epsilonCost, s.nullifier)]
  BY <1>7, <1>8 DEF Accounts
<1>10. Accounts[k] = Held(asset, amount)
  BY <1>6 DEF Accounts
<1>11. s.epsilonCost \in 1 .. amount
  <2>1. s.epsilonCost \in Nat /\ amount \in Nat
    BY SettlementConstants
    DEF AccountsInv, IInv, TypeInv, LedgerInv, LedgerProofs!LedgerInv,
        LedgerProofs!LedgerTypeOK, LedgerProofs!LedgerTypes
  <2>2. s.epsilonCost # 0 /\ s.epsilonCost <= amount
    BY <1>1 DEF settle, Ledger!consumeBudget, Ledger!ConsumeAllowed
  <2>. QED
    BY <2>1, <2>2
<1>12. Account!Close(k, s.epsilonCost, s.nullifier)
  <2>1. Accounts[k].asset = asset
    BY <1>10 DEF Held
  <2>2. /\ s.nullifier \notin nullifierUsed
        /\ nullifierUsed' = nullifierUsed \cup {s.nullifier}
    BY <1>2 DEF Verifier!submitCompliance, Verifier!FreshNullifier
  <2>3. Accounts[k].state = "held"
    BY <1>10 DEF Held
  <2>. QED
    BY <1>9, <2>1, <2>2, <2>3 DEF Account!Close, Settled
<1>13. s.epsilonCost \in 1 .. Accounts[k].amount
  BY <1>10, <1>11 DEF Held
<1>. QED
  BY <1>12, <1>13 DEF Account!Next, Nullifiers

(* Every behaviour of the five contracts and their callers is a behaviour  *)
(* of AtomicSettlement: a request's account goes from open to held to      *)
(* settled, each in one step, and settling burns a fresh nullifier.        *)
THEOREM SettlementImplementsAccounts == Spec => ImplementsAtomicSettlement
<1>1. Init => Account!Init
  <2>. SUFFICES ASSUME Init PROVE Account!Init
    OBVIOUS
  <2>1. \A r \in RequestKeys : ~ HeldBySettlement(r)
    BY SettlementConstants DEF Init, Ledger!Init, Ledger!NoReservation, HeldBySettlement
  <2>2. Accounts = [r \in RequestKeys |-> Account!Open]
    BY <2>1 DEF Accounts, AccountOf, Account!Open
  <2>. QED
    BY <2>2 DEF Init, Verifier!Init, Account!Init
<1>2. AccountsInv /\ AccountsInv' /\ [Next]_vars => [Account!Next]_(Account!accountVars)
  BY OutsideBurns, ReservingHolds, SettlingCloses DEF Next, OutsideAction
<1>. QED
  BY <1>1, <1>2, AccountsInvariance, PTL DEF Spec, ImplementsAtomicSettlement, Account!Spec
=============================================================================
