\* What REJECTED is said to mean.
CONSTANTS
  Markets = {"KR", "US"}
  Sides = {"BUY"}
  Quantities = {1}
  Holdings = {0}
  MaxAttempts = 1
  MaxPolls = 1
  ThrottleRetries = 0
  MaxOutside = 0
SPECIFICATION ChaseSpec
\* A chase that has returned, with nothing open, is over.
CHECK_DEADLOCK FALSE
INVARIANTS
  RejectedMeansNothingAccepted
