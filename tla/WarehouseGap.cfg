SPECIFICATION Spec
CONSTANTS
  Upserts = {u1}
  Compactions = {c1}
  Refreshes = {}
  Calls <- MCPairs
  EmptyBatches = {}
  Appends = {}
  Seed = seed
  NoTable = NoTable
  MaxKinds = 0
  Limit <- LimitNone
INVARIANT NoLostUpdate
CHECK_DEADLOCK FALSE
