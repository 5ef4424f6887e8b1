\* The same, without stops and failures of the database.
CONSTANTS
  o1 = o1
  o2 = o2
  e1 = e1
  e2 = e2
  Orders = {o1, o2}
  NoOrder = NoOrder
  Executors = {e1, e2}
  Want <- MCWant
  SymbolOf <- MCSymbolOf
  SidesOf <- MCSidesOf
  ChaseLimit = 2
  MaxStops = 0
  MaxDbFaults = 0
  MaxStartFaults = 0
SPECIFICATION Spec
CHECK_DEADLOCK FALSE
INVARIANTS
  NoDoubleFill
