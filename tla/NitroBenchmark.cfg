SPECIFICATION Spec
CONSTANTS
  WorkerCount = 2
  CallsPerRun = 2
  MaxRuns = 2
INVARIANTS
  OnlyMeasurementsPublished
  OneHeader
  RunsDoNotOverlap
PROPERTIES
  EveryRunEnds
CHECK_DEADLOCK FALSE
