\* Three past days and one that ends; worker or commander restarts once.  The cap is
\* so low that weights need up to four passes of clamping and normalising.
CONSTANTS
  fast = fast
  mid = mid
  slow = slow
  acc = acc
  btc = btc
  Symbols = {btc}
  Accounts = {acc}
  Loads = {fast, slow}
  LoadOf <- MCLoadOf
  Prices = {40, 60}
  Past = 3
  Histories <- MCHistories
  Appraisals <- MCAppraisals
  Reevals = 2
  Whole = 60
  FloorPct = 50
  CapPct = 120
  EwmaPct = 60
  Iters = 5
  LastDay = 5
  MaxTicks = 2
  MaxRestarts = 1
  MaxReplay = 1
  Cash0 <- MCCash0
  Adaptive = TRUE
  FeeNum = 1
  FeeDen = 20
  Quantum = 2
  MinOrder = 40
  BandNum = 1
  BandDen = 2
  Tenths = 10
  Lookback = 1
  MaxVol = 9
  VolTarget = 10
  MaxWeight = 10
SPECIFICATION Spec
CONSTRAINT RestartOrTwice
\* After the last day nothing happens.
CHECK_DEADLOCK FALSE
INVARIANTS
  FedCloseIsOfItsDay
  SalesAreHeld
  WeightsAreGuarded
PROPERTIES
  SecondActIsQuiet
