SPECIFICATION FairSpec

CONSTANTS
  w = w
  x = x
  o = o
  f = f
  n = n
  Addr <- MCAddr
  KindOf <- MCKindOf
  Preloaded <- MCPreloaded
  QueueCap = 4
  Errors = TRUE
  StaleNode = FALSE

INVARIANTS
  EvaluatedIsRegistered
  ResolvedOnce
  CachedForGood
PROPERTIES
  PendingEnds
