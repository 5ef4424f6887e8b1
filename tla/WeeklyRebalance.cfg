\* Two weeks of two days, one of them a holiday the table misses.
CONSTANTS
  s1 = s1
  s2 = s2
  Markets = {"KR", "US"}
  Symbols = {s1, s2}
  Lot = 2
  MaxOrders = 1
  Weeks = {10, 20}
  WeekOf <- MCWeekOf
  LastDay = 3
  RunsPerDay = 2
  Closed = {1, 2}
  Listed = {2}
SPECIFICATION Spec
\* After the last day nothing happens.
CHECK_DEADLOCK FALSE
SYMMETRY Symmetry
INVARIANTS
  OneAllocation
  MarkerIsEarned
