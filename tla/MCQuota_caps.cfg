SPECIFICATION FairSpec
CONSTANTS
  Members = {"ann"}
  Teams = {"dev"}
  Tiers = {"base", "plus", "new"}
  TeamTier <- OneTeamTier
  StartTier <- ThreeTiers
  StartRows <- Inherits
  BaseTier = "base"
  Handlers = {"h1", "h2"}
  Worker = "w"
  Ops <- CapOps
  Deltas = {1}
  Limits = {1}
  Unset = Unset
  Requests <- NoRequests
  Rules <- OneRule
  DefaultRules <- Fallback
  HardStopEnabled = TRUE
  ObserveMode = FALSE
  MaxGrants = 1
  MaxPolicies = 2
  MaxTokens = 2
  MaxEdits = 1
  MaxFaults = 1
INVARIANT StopReachesCaps
PROPERTY CapsConverge
