SPECIFICATION PricingFairSpec
CONSTANTS
  Calls = {"c1", "c2", "c3"}
  Keys = {"ratios", "usable"}
  Mutexes = {m1, m2}
  None = None
  Orgs = {"org1", "org2"}
  Groups = {"default", "vip"}
  Default = "default"
  OrgGroup = None
  TierGroups <- NoTierGroup
  Offers <- SmallOffers
  RatioKey = "ratios"
  UsableKey = "usable"
  Does <- Roles
  Backoffs = 1
  MaxWrites = 2
  MaxFaults = 1
INVARIANTS RefsExact MirrorMatches
PROPERTIES AtomicSpec EveryCallEnds
