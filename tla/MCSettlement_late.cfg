SPECIFICATION Spec
CONSTANTS
  MaxLog = 2
  Owner <- OwnersA
  ZeroQuota = {}
  Orgs = {"orgA"}
  PlatformOrgs = {"orgA"}
  BillingOrgs = {"orgA"}
  Lag = 1
  Overlap = 3
  PageSize = 1
  MaxPages = 1
  RescanMaxPages = 2
  WindowsPerTick = 2
  Retention = 6
  Callers = {"worker", "standby"}
  Worker = "worker"
  NodeOf <- TwoProcesses
  StartTime = 2
  MaxTime = 9
  MaxDelay = 2
  MaxGap = 2
  MaxDensity = 1
  MaxCrashes = 0
INVARIANTS TypeOK ExactlyOnce NothingLost
CHECK_DEADLOCK FALSE
