\* One order, two relays, two restarts, fair processes and a market that keeps
\* trading.
CONSTANTS
  o1 = o1
  o2 = o2
  acc = acc
  btc = btc
  eth = eth
  r1 = r1
  r2 = r2
  OrderIds = {o1}
  Accounts = {acc}
  Symbols = {btc}
  Relays = {r1, r2}
  Prices = {2, 4}
  Forms <- BuyForms
  Cash0 <- MCCash0
  Held0 <- MCHeld0
  FeeNum = 1
  FeeDen = 4
  NoForm = NoForm
  NoPrice = NoPrice
  Batch = 1
  MaxRestarts = 2
  MaxExpiries = 0
SPECIFICATION FairSpec
PROPERTIES
  MarketOrdersSettle
  LimitOrdersSettle
