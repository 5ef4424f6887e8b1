----------------------------- MODULE MarketData -----------------------------
(***************************************************************************)
(* Market data from an ingester's topic to ClickHouse: a reader of the     *)
(* topic is the tick sink (streaming/sink, table ticks or stock_ticks) or  *)
(* the candle aggregator (streaming/aggregator/candle.py, table            *)
(* candles_1m, Upbit only).  Both buffer, insert, and then commit their    *)
(* offsets.  The groups do not see each other: a behaviour has one reader. *)
(*                                                                         *)
(* A candle is the set of the offsets it was computed from: open and close *)
(* are the first and the last of them, high, low and volume come from all. *)
(* ReplacingMergeTree keeps the row inserted last for a key.               *)
(***************************************************************************)
EXTENDS TickIngester

CONSTANTS
  Readers,         \* subset of {"sink", "candle"}
  MinuteLen,       \* seconds in a minute
  Watermark,       \* WATERMARK, in minutes
  MaxReaderCrashes \* bound: ends of the reader

ASSUME ReadersAssumption == Readers \subseteq {"sink", "candle"}
ASSUME MinutesAssumption ==
  MinuteLen \in Nat \ {0} /\ Watermark \in Nat /\ MaxReaderCrashes \in Nat

VARIABLES
  reader,
  at, committed,   \* offsets read and committed, by partition
  inserting,       \* between the insert and the commit
  batch, rows,     \* sink: offsets to insert; keys in the table
  candles,         \* aggregator: open windows, by symbol and minute
  dirty,           \* those changed since the last flush
  maxWindow,
  stored,          \* candles_1m
  late,            \* history: a tick was read behind the watermark
  readerCrashes

offsets == <<at, committed>>
sinkVars == <<batch, rows>>
candleVars == <<candles, dirty, maxWindow, stored, late>>
readerVars == <<reader, offsets, inserting, sinkVars, candleVars, readerCrashes>>
vars == <<ingestVars, readerVars>>

Minutes == 0..(LastTime \div MinuteLen)
Minute(s, i) == topic[s][i].sec \div MinuteLen
NoWindow == -1
Empty == [s \in Symbols |-> [w \in Minutes |-> {}]]

Init ==
  /\ IngestInit
  /\ reader \in (IF source = "upbit" THEN Readers ELSE Readers \ {"candle"})
  /\ at = [s \in Symbols |-> 0] /\ committed = [s \in Symbols |-> 0]
  /\ inserting = FALSE
  /\ batch = {} /\ rows = {}
  /\ candles = Empty /\ dirty = {} /\ maxWindow = NoWindow
  /\ stored = Empty
  /\ late = FALSE
  /\ readerCrashes = 0

-----------------------------------------------------------------------------
(***************************************************************************)
(* The next message of a partition.                                        *)
(***************************************************************************)
Read(s) ==
  /\ ~ inserting
  /\ at[s] < Len(topic[s])
  /\ at' = [at EXCEPT ![s] = @ + 1]

SinkRead(s) ==
  /\ reader = "sink"
  /\ Read(s)
  /\ batch' = batch \union {<<s, at'[s]>>}
  /\ UNCHANGED <<ingestVars, reader, committed, inserting, rows, candleVars,
                 readerCrashes>>

\* Marks only a candle it opens.
CandleReadBug(s) ==
  /\ reader = "candle"
  /\ Read(s)
  /\ LET w == Minute(s, at'[s])
     IN  /\ candles' = [candles EXCEPT ![s][w] = @ \union {at'[s]}]
         /\ dirty' = IF candles[s][w] = {} THEN dirty \union {<<s, w>>} ELSE dirty
         /\ maxWindow' = IF w > maxWindow THEN w ELSE maxWindow
         /\ late' = (late \/ w < maxWindow - Watermark)
  /\ UNCHANGED <<ingestVars, reader, committed, inserting, sinkVars, stored,
                 readerCrashes>>

CandleRead(s) ==
  /\ reader = "candle"
  /\ Read(s)
  /\ LET w == Minute(s, at'[s])
     IN  /\ candles' = [candles EXCEPT ![s][w] = @ \union {at'[s]}]
         /\ dirty' = dirty \union {<<s, w>>}
         /\ maxWindow' = IF w > maxWindow THEN w ELSE maxWindow
         /\ late' = (late \/ w < maxWindow - Watermark)
  /\ UNCHANGED <<ingestVars, reader, committed, inserting, sinkVars, stored,
                 readerCrashes>>

-----------------------------------------------------------------------------
(***************************************************************************)
(* A flush: insert, then commit.  The aggregator then drops the windows    *)
(* behind the watermark.  When one of the calls fails the process ends;    *)
(* its finally block repeats the same steps.                               *)
(***************************************************************************)
SinkInsert ==
  /\ reader = "sink" /\ ~ inserting
  /\ batch # {}
  /\ rows' = rows \union {<<b[1], topic[b[1]][b[2]].seq>> : b \in batch}
  /\ inserting' = TRUE
  /\ UNCHANGED <<ingestVars, reader, offsets, batch, candleVars, readerCrashes>>

\* Commits before anything is inserted.
SinkCommitBug ==
  /\ reader = "sink"
  /\ committed' = at
  /\ inserting' = FALSE
  /\ batch' = IF inserting THEN {} ELSE batch
  /\ UNCHANGED <<ingestVars, reader, at, rows, candleVars, readerCrashes>>

SinkCommit ==
  /\ reader = "sink" /\ inserting
  /\ committed' = at
  /\ inserting' = FALSE
  /\ batch' = {}
  /\ UNCHANGED <<ingestVars, reader, at, rows, candleVars, readerCrashes>>

CandleInsert ==
  /\ reader = "candle" /\ ~ inserting
  /\ stored' = [s \in Symbols |-> [w \in Minutes |->
                  IF <<s, w>> \in dirty THEN candles[s][w] ELSE stored[s][w]]]
  /\ dirty' = {}
  /\ inserting' = TRUE
  /\ UNCHANGED <<ingestVars, reader, offsets, sinkVars, candles, maxWindow, late,
                 readerCrashes>>

Kept == [s \in Symbols |-> [w \in Minutes |->
           IF w < maxWindow - Watermark THEN {} ELSE candles[s][w]]]

CandleCommit ==
  /\ reader = "candle" /\ inserting
  /\ committed' = at
  /\ inserting' = FALSE
  /\ candles' = Kept
  /\ UNCHANGED <<ingestVars, reader, at, sinkVars, dirty, maxWindow, stored,
                 late, readerCrashes>>

-----------------------------------------------------------------------------

ReaderCrash ==
  /\ readerCrashes < MaxReaderCrashes
  /\ readerCrashes' = readerCrashes + 1
  /\ at' = committed
  /\ inserting' = FALSE
  /\ batch' = {}
  /\ candles' = Empty /\ dirty' = {} /\ maxWindow' = NoWindow
  /\ UNCHANGED <<ingestVars, reader, committed, rows, stored, late>>

Next ==
  \/ IngestNext /\ UNCHANGED readerVars
  \/ \E s \in Symbols : SinkRead(s) \/ CandleRead(s)
  \/ SinkInsert \/ SinkCommit \/ CandleInsert \/ CandleCommit
  \/ ReaderCrash

Spec == Init /\ [][Next]_vars
=============================================================================
