SPECIFICATION Spec
CONSTANTS
  WorkerCount = 1
  CallsPerRun = 1
  MaxRuns = 1
INVARIANTS
  EnclaveStaysAlive
CHECK_DEADLOCK FALSE
