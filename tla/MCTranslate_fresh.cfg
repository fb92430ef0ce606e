CONSTANTS
  MaxAttempts = 3
  MaxProviders = 1
  MaxStops = 1
  Edits = {e1, e2}
  Mode = "build"
  DefaultBranch = "main"
  Faults = FALSE
  CanLapse = FALSE
SPECIFICATION Spec
CHECK_DEADLOCK FALSE
SYMMETRY Symmetry
INVARIANTS
  RetryGetsWorktree
