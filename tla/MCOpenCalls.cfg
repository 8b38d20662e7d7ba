SPECIFICATION Spec
CONSTANTS
  AssetKeys = {1}
  RequestKeys = {1}
  Users = {1, 2}
  Deployer = 1
  Settlement = 9
  NewOwners = {1, 2}
  DataHashes <- MCDataHashes
  PolicyHashes <- TwinPolicyHashes
  Versions = {1}
  Functions = {1}
  ConsumerIds = {2}
  EvidenceHashes <- TwinEvidenceHashes
  Amounts = {1}
  MaxUint = 2
  SCALAR_FIELD = 7
  Nonces = {1}
  Poseidon <- MCPoseidon
  ExpectationInputs <- MCExpectationInputs
  PublicSignals <- MCPublicSignals
  StageRecords <- MCStageRecords
  ForeignRecords <- MCForeignRecords
  MaxTime = 2
INVARIANTS
  AllOrNothing
  SettledWhileFresh
CHECK_DEADLOCK FALSE
