SPECIFICATION MCSpec
CONSTANTS
  Sites = {s1}
  Tokens = {1, 2}
  NoToken = NoToken
  NoScan = NoScan
  f1 = f1
  f2 = f2
  Families = {f1, f2}
  Adapter = "sqlite"
  CheckInterval = 1
  Offsets <- NoOffset
  DispatchLease = 1
  JobLease = 1
  MaxAttempts = 2
  RetryBase = 1
  RetryMax = 2
  Cooldowns <- ShortCooldowns
  ScanRetention = 1
  JobRetention = 1
  Observations <- MigrationSets
  Faults = {}
  SameMillisecond = FALSE
  ResendWindow = 1
  MaxNow = 2
  MaxVersion = 2
  FaultUntil = 2
  Traversers = {t1}
  Urls = {"index", "child", "common"}
  Docs <- IndexAndChild
  Tagged = {"index", "child"}
  Hosted = {"index", "child", "common"}
  Explicit <- NoSitemap
  Robots <- OnlyIndex
  Common <- OnlyCommon
  MaxResources = 5
  MaxDepth = 1
  CompactRuns = TRUE
  Baselined = {"index", "child"}
  None = None
  MaxScans = 2
  MaxEdits <- FewEdits
INVARIANTS
  NamedObjectsExist
  ReportsAreTrue
  ReportedOnce
  BaselineSound
  CompletionCommits
PROPERTIES
  BaselineComparedToCurrent
  ReplacementConfirmed
