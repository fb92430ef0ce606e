CONSTANTS
  MaxAttempts = 2
  MaxProviders = 1
  MaxStops = 1
  Edits = {e1}
  Mode = "research"
  DefaultBranch = "main"
  Faults = TRUE
  CanLapse = TRUE
SPECIFICATION FairSpec
VIEW View
CHECK_DEADLOCK FALSE
PROPERTIES
  CommittedWorkKept
  EventuallyClosed
