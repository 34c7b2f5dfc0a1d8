SPECIFICATION FairSpec

CONSTANTS
  early = early
  middle = middle
  late = late
  Pool <- MCPool
  Created <- MCCreated
  Genesis = 1
  MaxTip = 5
  MinBatch = 1
  MaxBatch = 4
  MaxFails = 1
  MaxRuns = 3

INVARIANTS
  UniverseComplete
  DatabaseComplete
PROPERTY
  RunEnds

\* The number of runs is bounded.
CHECK_DEADLOCK FALSE
