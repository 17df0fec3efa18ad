SPECIFICATION Spec
CONSTANTS
  Sites = {s1}
  Tokens = {1, 2}
  NoToken = NoToken
  NoScan = NoScan
  f1 = f1
  f2 = f2
  Families = {f1, f2}
  Adapter = "d1"
  CheckInterval = 1
  Offsets <- NoOffset
  DispatchLease = 1
  JobLease = 1
  MaxAttempts = 2
  RetryBase = 1
  RetryMax = 2
  Cooldowns <- ShortCooldowns
  ScanRetention = 1
  JobRetention = 1
  Observations <- OutcomesOnly
  Faults = {"crash", "transient", "context_read", "lost_reply"}
  SameMillisecond = FALSE
  ResendWindow = 1
  MaxNow = 2
  MaxVersion = 2
  FaultUntil = 2
INVARIANTS
  CurrentOccurrenceOpen
PROPERTIES
  OldScheduleCannotAdvance
  CooldownMatchesStreak
  ImplementsSchedule
  ResendHarmless
