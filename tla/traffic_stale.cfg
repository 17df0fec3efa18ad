SPECIFICATION Spec
CONSTANTS
  Domains = {d1}
  LastMonth = 1
  Runners = {r1}
  Tokens = {1, 2}
  NoToken = 0
  MaxAttempts = 2
  MaxGeneration = 1
  Faults = {"crash"}
INVARIANTS
  StaleProcessingIsClaimed
