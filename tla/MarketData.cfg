\* Two partitions, three trades in four seconds; ingester and reader each crash
\* once, and the producer gives up on one message.
CONSTANTS
  btc = btc
  eth = eth
  Symbols = {btc, eth}
  Sources = {"upbit", "kiwoom"}
  Readers = {"sink", "candle"}
  SeqPerSec = 2
  Stall = 1
  QueueLimit = 2
  LastTime = 3
  MaxTrades = 3
  MaxExpiries = 1
  MaxCrashes = 1
  MaxReaderCrashes = 1
  MinuteLen = 1
  Watermark = 0
SPECIFICATION Spec
\* After the last second and trade nothing happens.
CHECK_DEADLOCK FALSE
SYMMETRY Symmetry
INVARIANTS
  NoTickLost
  KeysAreUnique
  CandlesKeepTheirTicks
  HungProducerEnds
