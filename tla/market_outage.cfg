SPECIFICATION Spec
CONSTANTS
  Domains = {1}
  Months = {1, 2}
  Publishers = {p1}
  Operators = {}
  Isolation = "read_committed"
  PageSize = 1
  MinimumCoverage = 95
  MaxSnapshots = 2
  MaxWrites = 1
  MaxOpens = 0
  MaxEdits = 2
  MaxFaults = 0
PROPERTIES
  ServedNeverLost
