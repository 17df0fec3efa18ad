SPECIFICATION MCSpec
CONSTANTS
  Domains = {d1}
  LastMonth = 1
  Runners = {r1, r2}
  Tokens = {1, 2, 3}
  NoToken = 0
  MaxAttempts = 3
  MaxGeneration = 2
  Faults = {"error", "crash"}
  Parts = {"ledger", "months", "domains", "assets", "condemned", "review", "demand", "unlocked"}
  OneAssetRunner = FALSE
  DemandStops = 2
INVARIANTS
  PartsTypeOK
  DoneLacksNothing
PROPERTIES
  OnlyTheHolderSettles
  ImplementsCollection
  MonthsImplementCollection
  RdapObservedOnce
  OnlyTheHolderWrites
  HumanNameKept
  PublishedStaysWhole
