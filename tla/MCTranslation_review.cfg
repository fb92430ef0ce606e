CONSTANTS
  MaxAttempts = 2
  MaxProviders = 1
  MaxStops = 1
  Edits = {e1, e2}
  Mode = "build"
  DefaultBranch = "main"
  Faults = TRUE
  CanLapse = FALSE
SPECIFICATION WorkflowFairSpec
VIEW View
CHECK_DEADLOCK FALSE
INVARIANTS
  ProposedIsReviewed
  OnlyAcceptedProposed
  ReviewedIsKept
  WorkflowInv
PROPERTIES
  WorkflowEnds
