SPECIFICATION Spec
CONSTANTS
  Procs <- Handlers
  Settler = "settler"
  Ops <- MoneyOps
  Transfers = {t1, t2}
  Amounts = {1, 3}
  Cap = 3
  Triggers = {1, 3}
  LowWatermark = 1
  Billing = TRUE
  Own = 0
  Gift = 0
  Booked = 1
  Unbooked = 0
  MaxSpend = 2
  MaxCall = 2
  Delivery = {"lost"}
  MaxFaults = 1
INVARIANTS TypeOK WindowWithinCap WindowMirrorsBucket
PROPERTIES ReconcileKeepsOwned
