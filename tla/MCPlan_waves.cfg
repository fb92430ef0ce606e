CONSTANTS
  NumSpecs = 3
  NumNames = 3
  MaxSignals = 1
SPECIFICATION FairSpec
CHECK_DEADLOCK FALSE
INVARIANTS
  StartsInOrder
  SkippedForAReason
  NoneLeftOut
  PlanInv
PROPERTIES
  WavesKeepOrder
  EventuallyEnds
