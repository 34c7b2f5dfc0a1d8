SPECIFICATION BatchFairSpec

CONSTANTS
  Ranges = {1, 100, 256}
  Limits = {0, 1, 30, 100, 256}
  MaxFaults = 10

PROPERTIES
  AnsweringNodeEnds

\* The call ends.
CHECK_DEADLOCK FALSE
