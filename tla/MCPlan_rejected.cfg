CONSTANTS
  NumSpecs = 2
  NumNames = 2
  MaxSignals = 0
SPECIFICATION Spec
CHECK_DEADLOCK FALSE
INVARIANTS
  NeverOnRejected
