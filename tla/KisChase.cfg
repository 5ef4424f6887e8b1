\* Any request for up to three shares, with every call failing and one trade of
\* the symbol by another order of the account.
CONSTANTS
  Markets = {"KR", "US"}
  Sides = {"BUY", "SELL"}
  Quantities = {1, 2, 3}
  Holdings = {0, 3}
  MaxAttempts = 3
  MaxPolls = 2
  ThrottleRetries = 2
  MaxOutside = 1
SPECIFICATION FairChaseSpec
\* A chase that has returned, with nothing open, is over.
CHECK_DEADLOCK FALSE
INVARIANTS
  NeverOverExecutes
  ReportIsTrue
PROPERTIES
  ContractSpec
  ChaseEnds
