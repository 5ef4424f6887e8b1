-------------------------- MODULE MarketDataProps --------------------------
(* What the market data path guarantees, and what is said of it. *)
EXTENDS MarketData

(* The variables stay in their types; offsets stay inside their partition. *)
TypeOK ==
  /\ source \in Sources /\ time \in Seconds /\ trades \in 0..MaxTrades
  /\ up \in BOOLEAN
  /\ seqState \in [Symbols -> [sec : Seconds \union {NoTime}, cnt : Nat]]
  /\ queue \in [Symbols -> Seq(Message)] /\ topic \in [Symbols -> Seq(Message)]
  /\ reported \in BOOLEAN /\ pending \in Nat /\ lastOk \in 0..time
  /\ expiries \in 0..MaxExpiries /\ crashes \in 0..MaxCrashes
  /\ startedAt \subseteq Seconds
  /\ {lastQueued, deliveredAt} \subseteq Seconds \union {NoTime}
  /\ reader \in Readers
  /\ at \in [Symbols -> Nat] /\ committed \in [Symbols -> Nat]
  /\ \A s \in Symbols : committed[s] <= at[s] /\ at[s] <= Len(topic[s])
  /\ inserting \in BOOLEAN
  /\ batch \subseteq Symbols \X Nat /\ rows \subseteq Symbols \X Nat
  /\ candles \in [Symbols -> [Minutes -> SUBSET Nat]]
  /\ stored \in [Symbols -> [Minutes -> SUBSET Nat]]
  /\ dirty \subseteq Symbols \X Minutes
  /\ maxWindow \in Minutes \union {NoWindow}
  /\ late \in BOOLEAN
  /\ readerCrashes \in 0..MaxReaderCrashes

(***************************************************************************)
(* A tick whose offset is committed is in the table, whatever ended the    *)
(* sink between an insert and a commit (tick_clickhouse.py:39).            *)
(***************************************************************************)
NoTickLost ==
  reader = "sink" =>
    \A s \in Symbols : \A i \in 1..committed[s] : <<s, topic[s][i].seq>> \in rows

(***************************************************************************)
(* Two trades of a symbol share a key of the table (one of them is merged  *)
(* away) only if an ingester started within their second or the second has *)
(* more of them than the numbers allow (stock_kiwoom.py:46).               *)
(***************************************************************************)
Apart(m, n, starts) ==
  m.seq >= n.seq =>
    /\ m.sec = n.sec
    /\ \/ m.sec \in starts
       \/ m.seq = n.seq /\ m.seq % SeqPerSec = SeqPerSec - 1

KeysAreUnique ==
  \A s \in Symbols : \A j \in 1..Len(topic[s]) : \A i \in 1..(j - 1) :
    Apart(topic[s][i], topic[s][j], startedAt)

(***************************************************************************)
(* The close of a stored candle is never older than a tick of its minute   *)
(* that is committed: restarts and late ticks may cost a candle its first  *)
(* ticks, never its last.                                                  *)
(***************************************************************************)
ClosesAreCurrent ==
  reader = "candle" =>
    \A s \in Symbols : \A i \in 1..committed[s] :
      \E j \in stored[s][Minute(s, i)] : j >= i

(***************************************************************************)
(* A candle is whole - open, high, low and volume count every committed    *)
(* tick of its minute - as long as the aggregator has not restarted and no *)
(* partition was read behind the watermark that another one has moved.     *)
(***************************************************************************)
CandlesAreWhole ==
  reader = "candle" /\ readerCrashes = 0 /\ ~ late =>
    \A s \in Symbols : \A i \in 1..committed[s] : i \in stored[s][Minute(s, i)]

(***************************************************************************)
(* What a candle may lose: a bucket that starts anew after a restart, or   *)
(* behind the watermark (candle.py:69, 91), replaces the stored candle by  *)
(* one without its first ticks, but never takes its close back; and        *)
(* nothing else costs a candle a tick.                                     *)
(***************************************************************************)
CandlesKeepTheirTicks == ClosesAreCurrent /\ CandlesAreWhole

(***************************************************************************)
(* A producer that hangs ends its process: while nothing is delivered, no  *)
(* message queued later than Stall after one that still waits leaves the   *)
(* process running (kafka_watchdog.py:5).  A trade that is dropped is not  *)
(* counted: a queue that was full when it hung has to expire first.        *)
(***************************************************************************)
HungProducerEnds ==
  \A s \in Symbols : \A k \in 1..Len(queue[s]) :
    up /\ deliveredAt < queue[s][k].sec => lastQueued - queue[s][k].sec <= Stall

(***************************************************************************)
(* kafka_watchdog.py:9: a quiet market never sets it off, it counts only   *)
(* what was produced since the last success.  Not so: the first trade      *)
(* after a quiet start is judged by the age of the process.                *)
(***************************************************************************)
AlarmIsTrue ==
  [][\A s \in Symbols : Trade(s) /\ ~ up' =>
       \E r \in Symbols : \E k \in 1..Len(queue[r]) :
         time - queue[r][k].sec > Stall]_vars
=============================================================================
