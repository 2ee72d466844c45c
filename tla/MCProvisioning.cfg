SPECIFICATION FairSpec
CONSTANTS
  h1 = h1
  h2 = h2
  h3 = h3
  MaxOrgs = 2
  MaxUsers = 5
  Foreign = 1
  Handlers = {h1, h2, h3}
  NodeOf <- Nodes
  Does <- Work
  maxUsernameAttempts = 2
  MaxTurns = 3
  MaxFaults = 2
INVARIANTS TypeOK BindingSafe OnePoolUser RefreshesPaid
PROPERTY CredentialsHeal
CHECK_DEADLOCK FALSE
