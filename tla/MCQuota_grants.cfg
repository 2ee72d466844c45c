SPECIFICATION Spec
CONSTANTS
  Members = {"ann"}
  Teams = {"dev"}
  Tiers = {"base", "plus"}
  TeamTier <- OneTeamTier
  StartTier <- TwoTiers
  StartRows <- OwnTier
  BaseTier = "base"
  Handlers = {"h1", "h2"}
  Worker = "w"
  Ops <- GrantOps
  Deltas = {1}
  Limits = {1}
  Unset = Unset
  Requests <- TwoRequests
  Rules <- OneRule
  DefaultRules <- Fallback
  HardStopEnabled = TRUE
  ObserveMode = FALSE
  MaxGrants = 2
  MaxPolicies = 1
  MaxTokens = 2
  MaxEdits = 1
  MaxFaults = 1
INVARIANTS TypeOK GrantsCounted ApprovalExactlyOnce GrantEndsOnce
