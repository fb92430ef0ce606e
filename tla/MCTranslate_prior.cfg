CONSTANTS
  MaxAttempts = 2
  MaxProviders = 1
  MaxStops = 0
  Edits = {e1}
  Mode = "build"
  DefaultBranch = "main"
  Faults = FALSE
  CanLapse = FALSE
SPECIFICATION Spec
CHECK_DEADLOCK FALSE
INVARIANTS
  RetrySeesPriorCommits
