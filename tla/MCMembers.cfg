SPECIFICATION Spec
CONSTANTS
  MaxMembers = 3
  MaxTokens = 4
  Foreign = 1
  Handlers = {h1, h2}
  Ops <- AllOps
  MaxCalls = 4
  MaxFaults = 1
SYMMETRY SameHandlers
INVARIANTS TypeOK KeysAttributed PointerIsCurrent SessionsCurrent
CHECK_DEADLOCK FALSE
