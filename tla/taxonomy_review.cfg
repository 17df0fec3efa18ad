SPECIFICATION Spec
CONSTANTS
  Markets = {"m1", "m2"}
  Capabilities = {"c1"}
  Tools = {1}
  Stored = {1}
  Backfill = {}
  Demoted = {}
  Capable = {}
  Upstream = {}
  JevEnabled = FALSE
  MaxAttempts = 2
  SeedLimit = 1
  CaptureOutcomes = {"ok"}
  ProfileOutputs = {"product"}
  L1Outputs = {"clear"}
  LeafOutputs = {"m1"}
  CapabilityOutputs = {"c1"}
  LineErrors = {}
  BatchEnds = {"completed"}
  Jobs = {"j1", "j2"}
  MaxFaults = 0
  MaxCrashes = 0
  Published = {}
  Reviewed = {1}
  Judged = {}
  ReviewDuringPass = TRUE
PROPERTIES
  ManualWins
