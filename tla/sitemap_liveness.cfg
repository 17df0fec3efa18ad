SPECIFICATION FairSpec
CONSTANTS
  Sites = {s1}
  Tokens = {1, 2}
  NoToken = NoToken
  NoScan = NoScan
  f1 = f1
  f2 = f2
  Families = {f1, f2}
  Adapter = "sqlite"
  CheckInterval = 2
  Offsets <- NoOffset
  DispatchLease = 1
  JobLease = 1
  MaxAttempts = 2
  RetryBase = 1
  RetryMax = 2
  Cooldowns <- ShortCooldowns
  ScanRetention = 4
  JobRetention = 4
  Observations <- OutcomesOnly
  Faults = {"crash", "transient"}
  SameMillisecond = FALSE
  ResendWindow = 1
  MaxNow = 4
  MaxVersion = 1
  FaultUntil = 1
PROPERTIES
  OccurrenceServed
