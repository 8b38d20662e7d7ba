SPECIFICATION Spec
CONSTANTS
  AssetKeys = {1}
  RequestKeys = {1, 8}
  Users = {2}
  Deployer = 2
  Settlement = 9
  NewOwners = {}
  DataHashes <- MCDataHashes
  PolicyHashes <- TwinPolicyHashes
  Versions = {1}
  Functions = {1}
  ConsumerIds = {2}
  EvidenceHashes <- TwinEvidenceHashes
  Amounts = {1, 2}
  MaxUint = 2
  SCALAR_FIELD = 7
  Nonces = {1, 2}
  Poseidon <- MCPoseidon
  ExpectationInputs <- TwinExpectationInputs
  PublicSignals <- TwinPublicSignals
  StageRecords = {}
  ForeignRecords = {}
  MaxTime = 0
INVARIANTS
  NullifiersAccountedFor
  ReportedSpendWithinBudget
PROPERTIES
  ImplementsAtomicSettlement
CHECK_DEADLOCK FALSE
