\* Two weeks of two days after four weeks of history; one holiday.
CONSTANTS
  a = a
  b = b
  DaysPerWeek = 2
  Tenkan = 1
  Kijun = 2
  SenkouB = 2
  Disp = 1
  Symbols = {a, b}
  Rank <- MCRank
  Quotes <- MCQuotes
  Seeds <- MCSeeds
  Cash = 20010
  MaxPositions = {1, 2}
  FirstDay = 8
  LastDay = 11
  RunsPerDay = 2
  Holidays = {9}
  Window = 4
  Recent = 4
  StaleHold = 3
  MaxStale = 2
  Rules = {"tk_cross", "cloud"}
SPECIFICATION Spec
\* After the last day nothing happens.
CHECK_DEADLOCK FALSE
INVARIANTS
  PlanIsCovered
PROPERTIES
  SlotsHold
  AlignedWhenMarked
  NoLookahead
