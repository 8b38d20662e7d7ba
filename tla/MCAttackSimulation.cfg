SPECIFICATION Spec
CONSTANTS
  Attacks <- OneAttack
  Severities <- RepeatedSeverity
  Trials = 1
  TotalBudget = 10
  HonestEpsilon = 5
  StrictPolicyBlocks = FALSE
  WorkerCounts = {1, 2}
  CheckpointEvery = 3
  DisableCheckpoints = FALSE
  MaxDetected = 1
  MaxRuns = 2
INVARIANTS
  VerdictsIndependentOfSchedule
  StoppedRunKeepsItsRows
  NoTrialAfterReturn
CHECK_DEADLOCK FALSE
