\* A buy and a limit sale of one symbol, or two such sales; one process crashes
\* once, anywhere, or one message is given up on.
CONSTANTS
  o1 = o1
  o2 = o2
  acc = acc
  btc = btc
  eth = eth
  r1 = r1
  r2 = r2
  OrderIds = {o1, o2}
  Accounts = {acc}
  Symbols = {btc}
  Relays = {r1}
  Prices = {2, 4}
  Forms <- TradeForms
  Cash0 <- MCCash0
  Held0 <- MCHeld0
  FeeNum = 3
  FeeDen = 8
  NoForm = NoForm
  NoPrice = NoPrice
  Batch = 1
  MaxRestarts = 1
  MaxExpiries = 1
SPECIFICATION Spec
SYMMETRY Symmetry
CONSTRAINTS
  OneFault
  OneMarket
INVARIANTS
  LimitPriceRespected
  NoOrderLost
  LedgerBalances
PROPERTIES
  LedgerSpec
