SPECIFICATION FairSpec

CONSTANTS
  Logged = {1, 2, 4, 5}
  FromBlocks = {0, 1, 4}
  FirstTip = 3
  MaxTip = 5
  MaxReplaced = 1
  MaxFailures = 2

INVARIANTS
  LogsInOrder
  HeadsAnnounced
PROPERTY
  PollsToTheHead
