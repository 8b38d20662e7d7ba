SPECIFICATION Spec
CONSTANTS
  Calls = {c1}
  Variants = {"phase7_bundle", "tee_only", "local_dp_ledger", "run_pipeline"}
  MaxAttestationLifetime = 2
  Timeout = 1
  Deadline = 3
  CliDeadline = 2
  Images = {1, 2}
INVARIANTS
  PipelineTypeOK
  OnlyWholeResults
  NoChildLeftBehind
  StatementOfExecutingEnclave
  EarlierOutputKept
PROPERTIES
  KeyRemoved
  LateExecutionNeverAttached
  EveryCallEnds
CHECK_DEADLOCK FALSE
