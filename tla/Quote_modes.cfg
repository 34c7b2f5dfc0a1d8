SPECIFICATION FairSpec

CONSTANTS
  a = a
  b = b
  p = p
  q = q
  None = None
  Fork <- MCFork
  Chains <- MCChains
  Pool <- MCPool
  Flips <- MCFlips
  Modes <- AllModes
  HeaderSlots = 2
  MaxSwitches = 2

INVARIANTS
  NoDroppedFlipInOrder
  NothingFromLater
  OneBlock
PROPERTY
  DrainsWhenSteady

\* The chain is bounded: in the end everything may be evaluated.
CHECK_DEADLOCK FALSE
