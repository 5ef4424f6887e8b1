\* The docstring of CrossSectionalStrategy._on_bar_close: no look-ahead.
CONSTANTS
  fast = fast
  slow = slow
  s1 = s1
  s2 = s2
  s3 = s3
  Kinds = {"reversal", "winners"}
  Symbols = {s1, s2}
  Stocks = {s1}
  SymbolOrder <- MCOrder
  Prices = {40, 60}
  Gaps = {1}
  MaxTicks = 7
  MaxBars = 8
  Loads = {fast, slow}
  LoadOf <- MCLoadOf
  TrendLoad <- MCTrendLoad
  SmaLoad <- MCSmaLoad
  Combos <- MCCombos
  FeeNum = 1
  FeeDen = 20
  Quantum = 2
  MinOrder = 40
  BandNum = 0
  BandDen = 2
  Tenths = 10
  Lookback = 1
  MaxVol = 9
  VolTarget = 10
  MaxWeight = 10
  Lot = 2
  SlipNum = 0
  SlipDen = 1
  TaxNum = 1
  TaxDen = 10
  TrendBandNum = 0
  TrendBandDen = 2
  EntryNum = 1
  EntryDen = 10
  EdgeNum = 1
  ConfirmTicks = 1
  DeadcrossExit = TRUE
  StopPct = 20
  TakePct = 60
  ArmPct = 40
  GivebackPct = 30
  Warmup = 1
  Cooldown = 3
  MinHold = 1
  MaxPositions = 1
  FractionPct = 50
  Window = 3
  DevSq = 1
  DayLen = 6
  CloseAt = 5
  BarLen = 1
  OpeningBars = 2
  MomNum = 0
  MomDen = 10
  XsLookback = 1
  XsTop = 2
  XsWeight = 10
  Initial = 800
  Sample = 1
  IsLen = 2
  OosLen = 1
  StepLen = 1
SPECIFICATION Spec
\* The data end.
CHECK_DEADLOCK FALSE
INVARIANT CloseIsBlind
