SPECIFICATION Spec
CONSTANTS
  WorkerCounts = {1, 2}
  RequestsPerWorker = 1
  MemoryBudget = 8
  GivenScratch = {}
  RetryPercent = 65
  MinScratch = 1
  AutoReduce = TRUE
  MaxRuns = 2
INVARIANTS
  OneAttemptPerGroup
  MemoryWithinPlan
  ConfigMarksCompletion
PROPERTIES
  EveryWorkloadEnds
CHECK_DEADLOCK FALSE
