SPECIFICATION Spec
CONSTANTS
  Goals = {"all", "vbs", "chain", "audit", "zk", "process", "plot", "aes", "cpabe"}
  BundleCounts = {2, 3}
  RequiredBundles = 2
  MaxRuns = 2
INVARIANTS
  PassMeansFresh
  InventoryCertifies
  DigestCertifies
CHECK_DEADLOCK FALSE
