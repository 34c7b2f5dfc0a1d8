SPECIFICATION FairSpec

CONSTANTS
  Modes = {"historical_strict", "latest_observe", "local_only"}
  Routes = 2
  TopK <- MCTopK
  Gross = {0, 2}
  Profit = {1, 3}
  Cost = 1
  MinProfit = 1
  MaxBlocks = 2
  MaxReplaced = 1
  MaxFailures = 1

INVARIANTS
  FormalSelection
  SimulatedWhereQuoted
  TransientNeverDecides
PROPERTIES
  DecidesWhenSteady

\* The queue is bounded: nothing is left to do after its last block.
CHECK_DEADLOCK FALSE
