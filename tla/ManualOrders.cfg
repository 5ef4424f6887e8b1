\* Two orders of one symbol, two executors; a stop, database failures anywhere.
CONSTANTS
  o1 = o1
  o2 = o2
  e1 = e1
  e2 = e2
  Orders = {o1, o2}
  NoOrder = NoOrder
  Executors = {e1, e2}
  Want <- MCWant
  SymbolOf <- MCSymbolOf
  SidesOf <- MCSidesOf
  ChaseLimit = 2
  MaxStops = 1
  MaxDbFaults = 1
  MaxStartFaults = 1
SPECIFICATION FairSpec
\* When every order has an outcome and no stop is left, nothing happens.
CHECK_DEADLOCK FALSE
INVARIANTS
  NeverSendsTwice
  CancelledNeverTrades
  FilledIsTrue
PROPERTIES
  OutcomesStand
  DueOrdersAreTaken
