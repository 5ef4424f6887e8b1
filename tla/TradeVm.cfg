\* Every flow of the VM, each on its own calendar.
CONSTANTS
  btc = btc
  eth = eth
  flows = flows
  shorts = shorts
  Flows = {"coin", "fill", "cache", "stock", "schema", "upkeep", "collect"}
  Coins = {btc, eth}
  Listed <- MCListed
  CoinList <- MCCoinList
  Page = 2
  Days = 3
  Depths = {2, 5}
  RefreshDays = 2
  RecentDays = 3
  ProbeDays = 7
  StaleDays = 2
  Seeded = 4
  LastDay <- MCLastDay
  MaxSplits = 2
  Accounts = {acc}
  acc = acc
  Cash0 = 2600
  Quotes <- MCQuotes
  Targets <- MCTargets
  MaxStale = 1
  MaxBoots = 3
  FeeNum = 1
  FeeDen = 20
  Quantum = 100
  MinOrder = 100
  BandNum = 1
  BandDen = 2
  Tenths = 10
  Sources = {"none", "finra", "krx", "filings", "holdings", "dart", "members", "lookup"}
  Symbols = {s1, s2}
  s1 = s1
  s2 = s2
  LastRun <- MCLastRun
  Gaps = {28, 35}
  LongGap = 35
  Settlement = 15
  ShortLag = 10
  ShortDays = 75
  Stops = {0, 30, 76}
  MaxRefused = 1
  Tables = {flows, shorts}
  Lag <- MCLag
  BufferDays = 1
  Months = 2
  Quarters = 2
  GridDays = {1, 5, 9}
  Weekdays = {1, 2, 3, 5, 6, 7, 9, 10, 11}
  RunDays = {4, 8, 12}
  Repo = 3
  Postgres <- MCPostgres
  Clickhouse <- MCClickhouse
  Steps <- MCSteps
  Feeds <- MCFeeds
  Critical <- MCCritical
  Outcomes = {"fed", "empty", "exit", "error"}
  MaxMonths = 4
SPECIFICATION Spec
CONSTRAINT ThirdBootEarly
\* Calendars end.
CHECK_DEADLOCK FALSE
INVARIANTS
  GapsHaveACause
  NoGhostMember
  StoresAreWhole
  TradesAreRecorded
  CurveHasEveryDay
  RecordedIsApplied
  UpkeepIsHeard
PROPERTIES
  OneFactor
