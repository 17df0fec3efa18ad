SPECIFICATION MCSpec
CONSTANTS
  Domains = {1}
  Months = {1, 2}
  Publishers = {p1}
  Operators = {o1}
  Isolation = "serial"
  PageSize = 1
  MinimumCoverage = 95
  MaxSnapshots = 3
  MaxWrites = 1
  MaxOpens = 0
  MaxEdits = 1
  MaxFaults = 0
INVARIANTS
  AtMostOneActive
PROPERTIES
  ImplementsServing
  TwoPagesAsRead
  TwoPagesReplace
  ReadyMonthsAreServed
