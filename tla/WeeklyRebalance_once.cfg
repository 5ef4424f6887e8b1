\* Orders that are executed after the run has stopped looking.
CONSTANTS
  s1 = s1
  s2 = s2
  Markets = {"KR", "US"}
  Symbols = {s1, s2}
  Lot = 1
  MaxOrders = 1
  Weeks = {10, 20}
  WeekOf <- MCWeekOf
  LastDay = 3
  RunsPerDay = 1
  Closed = {}
  Listed = {}
SPECIFICATION Spec
\* After the last day nothing happens.
CHECK_DEADLOCK FALSE
SYMMETRY Symmetry
INVARIANTS
  OncePerWeek
