CONSTANTS
  MaxAttempts = 1
  MaxProviders = 1
  MaxStops = 0
  Edits = {e1}
  Mode = "build"
  DefaultBranch = "main"
  Faults = FALSE
  CanLapse = FALSE
SPECIFICATION WorkflowSpec
CHECK_DEADLOCK FALSE
INVARIANTS
  CancelledIsNotProposed
