SPECIFICATION FairSpec
CONSTANTS
  Procs <- Handlers
  Settler = "settler"
  Ops <- AllOps
  Transfers = {t1, t2}
  Amounts = {3}
  Cap = 3
  Triggers = {3}
  LowWatermark = 1
  Billing = TRUE
  Own = 0
  Gift = 1
  Booked = 1
  Unbooked = 1
  MaxSpend = 1
  MaxCall = 1
  Delivery = {"lost", "twice", "late"}
  MaxFaults = 1
PROPERTIES BooksSpec OverfundHealed
