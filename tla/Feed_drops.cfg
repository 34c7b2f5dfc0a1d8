SPECIFICATION FairSpec

CONSTANTS
  p = p
  q = q
  r = r
  s = s
  t = t
  NoLog = NoLog
  Log <- Logs
  Pool <- AllOfThem
  Known <- OldPools
  Token <- OneToken
  Born <- BornAt2
  Shard <- OneShard
  ShardOf <- AllInOne
  StartFrom = 1
  MaxBlock = 3
  Chunk = 2
  AllPools = FALSE
  HttpLag = 0
  Errors = TRUE
  MaxDrops = 2

INVARIANTS
  NothingSkipped
PROPERTIES
  RepeatsOnlyAtCursor
  EventuallyHandled

\* The chain is bounded: in the end nothing arrives any more.
CHECK_DEADLOCK FALSE
