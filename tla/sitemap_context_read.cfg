SPECIFICATION Spec
CONSTANTS
  Sites = {s1}
  Tokens = {1, 2}
  NoToken = NoToken
  NoScan = NoScan
  f1 = f1
  f2 = f2
  Families = {f1, f2}
  Adapter = "sqlite"
  CheckInterval = 2
  Offsets <- NoOffset
  DispatchLease = 1
  JobLease = 1
  MaxAttempts = 2
  RetryBase = 1
  RetryMax = 2
  Cooldowns <- ShortCooldowns
  ScanRetention = 1
  JobRetention = 1
  Observations <- OutcomesOnly
  Faults = {"context_read"}
  SameMillisecond = FALSE
  ResendWindow = 1
  MaxNow = 2
  MaxVersion = 1
  FaultUntil = 2
INVARIANTS
  LedgerOwnsExecutions
