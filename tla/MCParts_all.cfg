SPECIFICATION MCSpec
CHECK_DEADLOCK FALSE
CONSTANTS
  Priority <- MCPriority
  Others = {"codex", "infini"}
  Retired = {"infini"}
  Limit <- MCLimit
  Tasks = {t1, t2}
  Windows = {1, 2}
  MaxClock = 1
  MaxLimits = 2
  MaxRestarts = 1
  None = None
  Hashes = {"empty", "unknown", "d1"}
  Ramp = 2
  Frozen = 3
  Oscillation = 4
  EmptyWarn = 2
  EmptyKill = 4
  SilentKill = 3
  KillAt = 3
  MaxQuiet = 8
  Results <- MCResults
  MaxCommits = 2
  Attempts = 2
  MaxRibosomes = 1
  Directories <- MCDirectories
  Texts <- MCTexts
  Matters <- MCMatters
  Names = {"a"}
  Values = {"v"}
  Pids = {1, 2, 3}
  Leader = 1
  MaxBirths = 2
  Ids = {i, j}
  Terminals = {a, b}
INVARIANTS SlotsAreRunning BreakerRemembers KilledOnlyWhenSilent SilenceIsEnded
  HealthyMeansLoaded SubmitContained AutoDeployLoads TriageKeepsReports ReapIsExact
  ScoreFollowsVerdict ApprovedIsWhole CycleFoundIffExists SortRespectsGraph UpdateKeepsTheRest
PROPERTY FallbackIsFresh
