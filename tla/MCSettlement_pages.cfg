SPECIFICATION FairSpec
CONSTANTS
  MaxLog = 4
  Owner <- OwnersABBB
  ZeroQuota = {}
  Orgs = {"orgA", "orgB"}
  PlatformOrgs = {"orgA"}
  BillingOrgs = {"orgB"}
  Lag = 1
  Overlap = 1
  PageSize = 1
  MaxPages = 2
  RescanMaxPages = 1
  WindowsPerTick = 1
  Retention = 0
  Callers = {"worker"}
  Worker = "worker"
  NodeOf <- OneProcess
  StartTime = 2
  MaxTime = 5
  MaxDelay = 0
  MaxGap = 3
  MaxDensity = 2
  MaxCrashes = 1
INVARIANTS PlatformRowsKept
PROPERTY BackfillCompletes
CHECK_DEADLOCK FALSE
