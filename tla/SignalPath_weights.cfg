\* Three loads and the multipliers of the configuration: up to three
\* re-evaluations on one day, whatever each of them finds.
CONSTANTS
  fast = fast
  mid = mid
  slow = slow
  acc = acc
  btc = btc
  Symbols = {btc}
  Accounts = {acc}
  Loads = {fast, mid, slow}
  LoadOf <- MCLoadOf
  Prices = {40, 60}
  Past = 3
  Histories <- MCHistories
  Appraisals <- MCManyAppraisals
  Reevals = 3
  Whole = 1200
  FloorPct = 50
  CapPct = 150
  EwmaPct = 20
  Iters = 50
  LastDay = 4
  MaxTicks = 0
  MaxRestarts = 0
  MaxReplay = 0
  Cash0 <- MCCash0
  Adaptive = TRUE
  FeeNum = 1
  FeeDen = 20
  Quantum = 2
  MinOrder = 40
  BandNum = 1
  BandDen = 2
  Tenths = 10
  Lookback = 1
  MaxVol = 9
  VolTarget = 10
  MaxWeight = 10
SPECIFICATION Spec
\* After the last day nothing happens.
CHECK_DEADLOCK FALSE
INVARIANTS
  WeightsAreGuarded
