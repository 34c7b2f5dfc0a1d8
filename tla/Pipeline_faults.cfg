SPECIFICATION FairSpec

CONSTANTS
  a = a
  b = b
  Fork <- MCFork
  Chains <- MCTwo
  Logged <- LoggedSome
  Swapped <- SwappedSome
  Amount = {1}
  ChunkSize = 2
  MaxDepth = 2
  MaxLag = 1
  EvalBudget = 1
  Strict = FALSE
  Errors = TRUE
  Roaming = TRUE
  MaxSwitches = 2
  MaxStarts = 2

INVARIANTS
  CursorsAgree
  HistoryEndsAtCheckpoint
  QueueUnambiguous
  NoLostEvaluation
  CandidatesTraceable
  AppliedOnce
  QueuedAsApplied
PROPERTIES
  EvaluatedInOrder
  CatchesUp
  ImplementsDualCursor

\* The number of starts is bounded: a stopped process may stay down.
CHECK_DEADLOCK FALSE
