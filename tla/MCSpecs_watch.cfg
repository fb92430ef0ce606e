SPECIFICATION MCSpec
CHECK_DEADLOCK FALSE
CONSTANTS
  Specs = {1, 2}
  Deps <- MCDeps
  Untested = {}
  p1 = p1
  p2 = p2
  p3 = p3
  p4 = p4
  p5 = p5
  p6 = p6
  Procs = {p1, p2, p3, p4, p5, p6}
  May <- MCMay
  MaxRuns = 2
  MaxEdits = 1
  MaxConcurrent = 2
  MaxCycles = 3
  StopAfter = 2
INVARIANTS OutcomeWasEarned StartsWaitForDependencies
PROPERTIES RunningIsKept WatchStops WatchTires
