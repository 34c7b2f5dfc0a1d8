SPECIFICATION Spec

CONSTANTS
  Limit = 6
  Landscapes <- MCLandscapes
  Quotables <- MCQuotables
  MinInputs = {1, 2, 3}
  MaxInputs = {0, 4}
  Balances <- MCBalances
  TopK = {1, 3}
  GridSlack = 1
  Rounds = 4

INVARIANTS
  LargestInputFound
  PeakEnclosed
  NothingLost

\* The search of a route ends.
CHECK_DEADLOCK FALSE
