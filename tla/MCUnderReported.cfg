SPECIFICATION Spec
CONSTANTS
  AssetKeys = {1}
  RequestKeys = {1}
  Users = {1, 2}
  Deployer = 1
  Settlement = 9
  NewOwners = {}
  DataHashes <- MCDataHashes
  PolicyHashes <- MCPolicyHashes
  Versions = {1}
  Functions = {1}
  ConsumerIds = {2}
  EvidenceHashes <- MCEvidenceHashes
  Amounts = {0, 1, 2}
  MaxUint = 2
  SCALAR_FIELD = 7
  Nonces = {1}
  Poseidon <- MCPoseidon
  ExpectationInputs <- MCExpectationInputs
  PublicSignals <- MCPublicSignals
  StageRecords = {}
  ForeignRecords = {}
  MaxTime = 2
INVARIANTS
  ChargedAsRegistered
CHECK_DEADLOCK FALSE
