SPECIFICATION Spec
CONSTANTS
  MaxLog = 2
  Owner <- OwnersB
  ZeroQuota = {}
  Orgs = {"orgB"}
  PlatformOrgs = {}
  BillingOrgs = {"orgB"}
  Lag = 1
  Overlap = 3
  PageSize = 4
  MaxPages = 2
  RescanMaxPages = 1
  WindowsPerTick = 2
  Retention = 0
  Callers = {"worker", "drain"}
  Worker = "worker"
  NodeOf <- OneProcess
  StartTime = 2
  MaxTime = 7
  MaxDelay = 2
  MaxGap = 2
  MaxDensity = 9
  MaxCrashes = 1
INVARIANTS ExactlyOnce NothingLost
CHECK_DEADLOCK FALSE
