SPECIFICATION Spec
CONSTANTS
  Upserts = {u1}
  Compactions = {c1}
  Refreshes = {r1}
  Calls <- MCPairs
  EmptyBatches = {}
  Appends = {a1}
  Seed = seed
  NoTable = NoTable
  MaxKinds = 3
  Limit <- LimitAll
INVARIANTS NothingLeaks SafeOverwrite Recoverable
PROPERTIES CommitsOverBase ImplementsAtomic
CHECK_DEADLOCK FALSE
