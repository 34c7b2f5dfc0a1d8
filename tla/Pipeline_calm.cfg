SPECIFICATION FairSpec

CONSTANTS
  a = a
  b = b
  Fork <- MCFork
  Chains <- MCLong
  Logged <- LoggedSome
  Swapped <- SwappedSome
  Amount = {1}
  ChunkSize = 2
  MaxDepth = 2
  MaxLag = 1
  EvalBudget = 1
  Strict = FALSE
  Errors = FALSE
  Roaming = FALSE
  MaxSwitches = 2
  MaxStarts = 2

INVARIANTS
  OneCanonicalPerHeight
PROPERTIES
  RollbackMeetsChain
  QueueDrained

\* The number of starts is bounded: a stopped process may stay down.
CHECK_DEADLOCK FALSE
