SPECIFICATION MCFairSpec
CONSTANTS
  Domains = {d1}
  LastMonth = 1
  Runners = {r1, r2}
  Tokens = {1, 2}
  NoToken = 0
  MaxAttempts = 2
  MaxGeneration = 1
  Faults = {"error"}
  Parts = {"ledger", "domains", "assets", "condemned", "review", "demand"}
  OneAssetRunner = TRUE
  DemandStops = 2
PROPERTIES
  TasksComeToRest
  ReadyToolsArePublished
  MonthsAreDemanded
