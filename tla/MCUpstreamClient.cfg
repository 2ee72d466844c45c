SPECIFICATION FairSpec
CONSTANTS
  Requests = {r1, r2, r3}
  Threshold = 2
  MaxRetries = 1
  MaxOutages = 2
  MaxCancels = 2
INVARIANTS TypeOK ProbeOwned
PROPERTIES Recovers CallsReturn
