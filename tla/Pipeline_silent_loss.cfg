SPECIFICATION Spec

CONSTANTS
  a = a
  b = b
  Fork <- MCFork
  Chains <- MCOne
  Logged <- LoggedSome
  Swapped <- LoggedSome
  Amount = {1}
  ChunkSize = 2
  MaxDepth = 2
  MaxLag = 1
  EvalBudget = 1
  Strict = FALSE
  Errors = FALSE
  Roaming = FALSE
  MaxSwitches = 0
  MaxStarts = 1

INVARIANT
  NoSilentLoss

\* The number of starts is bounded: a stopped process may stay down.
CHECK_DEADLOCK FALSE
