SPECIFICATION Spec

CONSTANTS
  p = p
  q = q
  r = r
  s = s
  t = t
  NoLog = NoLog
  Log <- Logs
  Pool <- AllOfThem
  Known <- OldPools
  Token <- OneToken
  Born <- BornAt2
  Shard <- TwoShards
  ShardOf <- Split
  StartFrom = 1
  MaxBlock = 3
  Chunk = 2
  AllPools = FALSE
  HttpLag = 0
  Errors = FALSE
  MaxDrops = 0

INVARIANTS
  NothingSkipped

\* The chain is bounded: in the end nothing arrives any more.
CHECK_DEADLOCK FALSE
