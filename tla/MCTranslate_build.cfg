CONSTANTS
  MaxAttempts = 3
  MaxProviders = 2
  MaxStops = 2
  Edits = {e1, e2}
  Mode = "build"
  DefaultBranch = "main"
  Faults = TRUE
  CanLapse = FALSE
SPECIFICATION Spec
VIEW View
CHECK_DEADLOCK FALSE
SYMMETRY Symmetry
INVARIANTS
  TypeOK
  NoWorkLost
  OneHarness
  NothingUnreviewedOnBranch
  DrainIsNoResult
  IndInv
PROPERTIES
  WorkIsKept
