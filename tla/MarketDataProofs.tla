-------------------------- MODULE MarketDataProofs --------------------------
(***************************************************************************)
(* Proofs about the market data path, for any number of symbols, trades,   *)
(* seconds and crashes: its types, what the tick sink and the candle       *)
(* aggregator have stored when they commit, and that a producer that hangs *)
(* ends its process.                                                       *)
(***************************************************************************)
EXTENDS MarketDataProps, TLAPS

(***************************************************************************)
(* The strengthening.  Sink: what has been read and not committed is in    *)
(* the batch, and once inserted in the table.                              *)
(***************************************************************************)
Batched ==
  reader = "sink" =>
    /\ \A s \in Symbols : \A i \in 1..at[s] :
         i > committed[s] => <<s, i>> \in batch
    /\ \A b \in batch : /\ b[1] \in Symbols /\ b[2] \in 1..at[b[1]]
                        /\ inserting => <<b[1], topic[b[1]][b[2]].seq>> \in rows

(***************************************************************************)
(* Aggregator: what has been read and not committed is in an open candle   *)
(* that is marked, and once inserted in the table; a marked candle has     *)
(* ticks past the committed offset.                                        *)
(***************************************************************************)
Marked ==
  reader = "candle" =>
    /\ inserting => dirty = {}
    /\ \A s \in Symbols : \A i \in 1..at[s] : i > committed[s] =>
         IF inserting THEN i \in stored[s][Minute(s, i)]
         ELSE <<s, Minute(s, i)>> \in dirty /\ i \in candles[s][Minute(s, i)]
    /\ \A s \in Symbols : \A w \in Minutes : <<s, w>> \in dirty =>
         \E j \in candles[s][w] : j > committed[s]

(***************************************************************************)
(* Until a restart or a late tick, a candle that is marked or not behind   *)
(* the watermark has every tick of its minute read so far.                 *)
(***************************************************************************)
OpenAreWhole ==
  reader = "candle" /\ readerCrashes = 0 /\ ~ late =>
    \A s \in Symbols : \A i \in 1..at[s] :
      (<<s, Minute(s, i)>> \in dirty \/ Minute(s, i) >= maxWindow - Watermark)
        => i \in candles[s][Minute(s, i)]

(***************************************************************************)
(* While nothing is delivered after a message was queued, no success is    *)
(* reported, and the watchdog's clock is not past that message.            *)
(***************************************************************************)
Waiting ==
  \A s \in Symbols : \A k \in 1..Len(queue[s]) :
    deliveredAt < queue[s][k].sec =>
      /\ ~ reported
      /\ lastOk <= queue[s][k].sec

Past ==
  /\ \A s \in Symbols : \A k \in 1..Len(queue[s]) : queue[s][k].sec <= time
  /\ lastQueued <= time /\ deliveredAt <= time

-----------------------------------------------------------------------------
(***************************************************************************)
(* Types.                                                                  *)
(***************************************************************************)
Flags == /\ up \in BOOLEAN /\ reported \in BOOLEAN
         /\ inserting \in BOOLEAN /\ late \in BOOLEAN

IngestTypes ==
  /\ source \in Sources /\ time \in Seconds /\ trades \in 0..MaxTrades
  /\ seqState \in [Symbols -> [sec : Seconds \union {NoTime}, cnt : Nat]]
  /\ queue \in [Symbols -> Seq(Message)] /\ topic \in [Symbols -> Seq(Message)]
  /\ pending \in Nat /\ lastOk \in 0..time
  /\ expiries \in 0..MaxExpiries /\ crashes \in 0..MaxCrashes
  /\ startedAt \subseteq Seconds
  /\ {lastQueued, deliveredAt} \subseteq Seconds \union {NoTime}

ReaderTypes ==
  /\ reader \in Readers
  /\ at \in [Symbols -> Nat] /\ committed \in [Symbols -> Nat]
  /\ \A s \in Symbols : committed[s] <= at[s] /\ at[s] <= Len(topic[s])
  /\ batch \subseteq Symbols \X Nat /\ rows \subseteq Symbols \X Nat
  /\ candles \in [Symbols -> [Minutes -> SUBSET Nat]]
  /\ stored \in [Symbols -> [Minutes -> SUBSET Nat]]
  /\ dirty \subseteq Symbols \X Minutes
  /\ maxWindow \in Minutes \union {NoWindow}
  /\ readerCrashes \in 0..MaxReaderCrashes

LEMMA Division ==
  ASSUME NEW a \in Nat, NEW b \in Nat, a <= b
  PROVE  a \div MinuteLen \in 0..(b \div MinuteLen)
BY MinutesAssumption

LEMMA SeqType ==
  ASSUME IngestTypes, NEW s \in Symbols
  PROVE  Counter(s) \in Nat /\ NextSeq(s) \in Nat
<1>1. Counter(s) \in Nat
  BY DEF IngestTypes, Counter
<1>2. time * SeqPerSec \in Nat /\ SeqPerSec - 1 \in Nat
  BY TimesAssumption DEF IngestTypes, Seconds
<1>3. trades \in Nat
  BY IngestBoundsAssumption DEF IngestTypes
<1> QED
  BY <1>1, <1>2, <1>3, TimesAssumption DEF NextSeq

LEMMA FlagsInit == Init => Flags
BY Zenon DEF Init, IngestInit, Flags

LEMMA FlagsStep == Flags /\ [Next]_vars => Flags'
<1> SUFFICES ASSUME Flags, [Next]_vars PROVE Flags'
  OBVIOUS
<1> USE DEF Flags
<1>1. CASE UNCHANGED vars
  BY <1>1, Zenon DEF vars, ingestVars, watchdogVars, readerVars, candleVars
<1>2. CASE IngestNext /\ UNCHANGED readerVars
  BY <1>2, Zenon DEF IngestNext, readerVars, candleVars, Trade, Deliver, Expire,
     IngesterCrash, IngesterStart, Elapse, watchdogVars
<1>3. ASSUME NEW s \in Symbols, SinkRead(s) \/ CandleRead(s) PROVE Flags'
  BY <1>3, Zenon DEF SinkRead, CandleRead, ingestVars, watchdogVars, candleVars
<1>4. CASE SinkInsert \/ SinkCommit \/ CandleInsert \/ CandleCommit \/ ReaderCrash
  BY <1>4, Zenon DEF SinkInsert, SinkCommit, CandleInsert, CandleCommit,
     ReaderCrash, ingestVars, watchdogVars, candleVars
<1> QED
  BY <1>1, <1>2, <1>3, <1>4, Zenon DEF Next

LEMMA IngestTypesInit == Init => IngestTypes
BY TimesAssumption, IngestBoundsAssumption
   DEF Init, IngestInit, IngestTypes, Seconds, NoTime, Never

LEMMA IngestTypesStep == IngestTypes /\ [Next]_vars => IngestTypes'
<1> SUFFICES ASSUME IngestTypes, [Next]_vars PROVE IngestTypes'
  OBVIOUS
<1> USE DEF IngestTypes
<1>0. LastTime \in Nat /\ time \in 0..LastTime
  BY TimesAssumption DEF Seconds
<1>1. CASE UNCHANGED ingestVars
  BY <1>1 DEF ingestVars, watchdogVars, historyVars
<1>2. ASSUME NEW s \in Symbols, Trade(s) PROVE IngestTypes'
  <2>1. Counter(s) \in Nat /\ NextSeq(s) \in Nat
    BY SeqType
  <2>2. [sec |-> time, seq |-> NextSeq(s)] \in Message
    BY <2>1 DEF Message
  <2>3. queue' \in [Symbols -> Seq(Message)]
    <3>1. Append(queue[s], [sec |-> time, seq |-> NextSeq(s)]) \in Seq(Message)
      BY <2>2
    <3> HIDE DEF Message
    <3> QED
      BY <1>2, <3>1 DEF Trade
  <2>4. seqState' \in [Symbols -> [sec : Seconds \union {NoTime}, cnt : Nat]]
    BY <1>2, <2>1 DEF Trade
  <2>5. pending' \in Nat
    BY <1>2 DEF Trade
  <2>6. trades' \in 0..MaxTrades
    BY <1>2, IngestBoundsAssumption DEF Trade
  <2>7. lastOk' \in 0..time' /\ {lastQueued', deliveredAt'} \subseteq Seconds \union {NoTime}
    BY <1>2, <1>0 DEF Trade
  <2> QED
    BY <1>2, <2>3, <2>4, <2>5, <2>6, <2>7 DEF Trade
<1>3. ASSUME NEW s \in Symbols, Deliver(s) PROVE IngestTypes'
  <2>1. Head(queue[s]) \in Message /\ Tail(queue[s]) \in Seq(Message)
    BY <1>3 DEF Deliver
  <2>2. queue' \in [Symbols -> Seq(Message)] /\ topic' \in [Symbols -> Seq(Message)]
    BY <1>3, <2>1 DEF Deliver
  <2> QED
    BY <1>3, <2>2 DEF Deliver
<1>4. ASSUME NEW s \in Symbols, Expire(s) PROVE IngestTypes'
  <2>1. Tail(queue[s]) \in Seq(Message)
    BY <1>4 DEF Expire
  <2>2. queue' \in [Symbols -> Seq(Message)]
    BY <1>4, <2>1 DEF Expire
  <2> QED
    BY <1>4, <2>2, IngestBoundsAssumption DEF Expire, watchdogVars, historyVars
<1>5. CASE IngesterCrash
  BY <1>5, IngestBoundsAssumption DEF IngesterCrash, watchdogVars, historyVars
<1>6. CASE IngesterStart
  BY <1>6, <1>0 DEF IngesterStart, Never
<1>7. CASE Elapse
  BY <1>7, <1>0 DEF Elapse, watchdogVars, historyVars, Seconds
<1>8. CASE IngestNext
  BY <1>2, <1>3, <1>4, <1>5, <1>6, <1>7, <1>8 DEF IngestNext
<1> QED
  BY <1>1, <1>8 DEF Next, vars, SinkRead, CandleRead, SinkInsert, SinkCommit,
     CandleInsert, CandleCommit, ReaderCrash

(***************************************************************************)
(* What a step of the ingester's side does to the topic.                   *)
(***************************************************************************)
TopicGrows ==
  \A s \in Symbols : /\ Len(topic[s]) <= Len(topic'[s])
                     /\ \A i \in 1..Len(topic[s]) : topic'[s][i] = topic[s][i]

LEMMA Grows == IngestTypes /\ [Next]_vars => TopicGrows
<1> SUFFICES ASSUME IngestTypes, [Next]_vars PROVE TopicGrows
  OBVIOUS
<1>1. CASE UNCHANGED topic
  BY <1>1 DEF TopicGrows, IngestTypes
<1>2. ASSUME NEW s \in Symbols, Deliver(s) PROVE TopicGrows
  <2>1. Head(queue[s]) \in Message
    BY <1>2 DEF IngestTypes, Deliver
  <2> HIDE DEF Message
  <2> QED
    BY <1>2, <2>1 DEF IngestTypes, Deliver, TopicGrows
<1>3. UNCHANGED topic \/ \E s \in Symbols : Deliver(s)
  BY DEF Next, IngestNext, vars, ingestVars, Trade, Expire, IngesterCrash,
     IngesterStart, Elapse, SinkRead, CandleRead, SinkInsert, SinkCommit,
     CandleInsert, CandleCommit, ReaderCrash
<1> QED
  BY <1>1, <1>2, <1>3

LEMMA MinuteType ==
  ASSUME IngestTypes, NEW s \in Symbols, NEW i \in 1..Len(topic[s])
  PROVE  Minute(s, i) \in Minutes /\ topic[s][i].seq \in Nat
<1>1. topic[s][i] \in Message
  BY DEF IngestTypes
<1>2. topic[s][i].sec \in 0..LastTime /\ topic[s][i].seq \in Nat
  BY <1>1 DEF Message, Seconds
<1>3. topic[s][i].sec \div MinuteLen \in 0..(LastTime \div MinuteLen)
  <2> DEFINE a == topic[s][i].sec
  <2>1. a \in Nat /\ LastTime \in Nat /\ a <= LastTime
    BY <1>2, TimesAssumption
  <2> HIDE DEF a
  <2>2. a \div MinuteLen \in 0..(LastTime \div MinuteLen)
    BY <2>1, Division
  <2> QED
    BY <2>2 DEF a
<1> QED
  BY <1>2, <1>3 DEF Minute, Minutes

LEMMA ReaderTypesInit == Init => ReaderTypes
BY MinutesAssumption DEF Init, IngestInit, ReaderTypes, Empty, NoWindow

LEMMA ReaderTypesStep ==
  IngestTypes /\ ReaderTypes /\ Batched /\ [Next]_vars => ReaderTypes'
<1> SUFFICES ASSUME IngestTypes, ReaderTypes, Batched, [Next]_vars
             PROVE  ReaderTypes'
  OBVIOUS
<1> USE DEF ReaderTypes
<1>0. TopicGrows
  BY Grows
<1>1. CASE UNCHANGED readerVars
  <2>1. \A s \in Symbols : committed[s] <= at[s] /\ at[s] <= Len(topic'[s])
    BY <1>0 DEF TopicGrows, IngestTypes
  <2> QED
    BY <1>1, <2>1 DEF readerVars, offsets, sinkVars, candleVars
<1>2. ASSUME NEW s \in Symbols, SinkRead(s) PROVE ReaderTypes'
  <2>1. at'[s] \in Nat /\ at' \in [Symbols -> Nat]
    BY <1>2 DEF SinkRead, Read
  <2>2. \A r \in Symbols : committed[r] <= at'[r] /\ at'[r] <= Len(topic[r])
    BY <1>2 DEF SinkRead, Read, IngestTypes
  <2>3. batch' \subseteq Symbols \X Nat
    BY <1>2, <2>1 DEF SinkRead
  <2> QED
    BY <1>2, <2>1, <2>2, <2>3 DEF SinkRead, ingestVars, candleVars
<1>3. ASSUME NEW s \in Symbols, CandleRead(s) PROVE ReaderTypes'
  <2>1. at'[s] \in 1..Len(topic[s]) /\ at' \in [Symbols -> Nat]
    BY <1>3 DEF CandleRead, Read, IngestTypes
  <2>2. \A r \in Symbols : committed[r] <= at'[r] /\ at'[r] <= Len(topic[r])
    BY <1>3 DEF CandleRead, Read, IngestTypes
  <2> DEFINE w == Minute(s, at'[s])
  <2>3. w \in Minutes
    BY <2>1, MinuteType
  <2>4. candles' = [candles EXCEPT ![s][w] = @ \union {at'[s]}]
        /\ dirty' = dirty \union {<<s, w>>}
        /\ maxWindow' = IF w > maxWindow THEN w ELSE maxWindow
    BY <1>3 DEF CandleRead
  <2> HIDE DEF w
  <2>5. candles' \in [Symbols -> [Minutes -> SUBSET Nat]]
    BY <2>1, <2>3, <2>4
  <2>6. dirty' \subseteq Symbols \X Minutes /\ maxWindow' \in Minutes \union {NoWindow}
    BY <2>3, <2>4
  <2> QED
    BY <1>3, <2>1, <2>2, <2>5, <2>6 DEF CandleRead, ingestVars, sinkVars
<1>4. CASE SinkInsert
  <2>1. rows' = rows \union {<<b[1], topic[b[1]][b[2]].seq>> : b \in batch}
    BY <1>4 DEF SinkInsert
  <2>2. ASSUME NEW b \in batch
        PROVE  <<b[1], topic[b[1]][b[2]].seq>> \in Symbols \X Nat
    <3>1. b[1] \in Symbols /\ b[2] \in 1..at[b[1]]
      BY <1>4 DEF SinkInsert, Batched
    <3>2. b[2] \in 1..Len(topic[b[1]])
      BY <3>1 DEF IngestTypes
    <3> QED
      BY <3>1, <3>2, MinuteType
  <2>3. rows' \subseteq Symbols \X Nat
    BY <2>1, <2>2
  <2> QED
    BY <1>4, <2>3 DEF SinkInsert, ingestVars, offsets, candleVars
<1>5. CASE SinkCommit
  BY <1>5, SMTT(40) DEF SinkCommit, ingestVars, candleVars, IngestTypes
<1>6. CASE CandleInsert
  <2>1. stored' \in [Symbols -> [Minutes -> SUBSET Nat]]
    BY <1>6 DEF CandleInsert
  <2> QED
    BY <1>6, <2>1 DEF CandleInsert, ingestVars, offsets, sinkVars
<1>7. CASE CandleCommit
  <2>1. Kept \in [Symbols -> [Minutes -> SUBSET Nat]]
    BY DEF Kept
  <2> QED
    BY <1>7, <2>1, SMTT(40) DEF CandleCommit, ingestVars, sinkVars, IngestTypes
<1>8. CASE ReaderCrash
  BY <1>8, MinutesAssumption, SMTT(40) DEF ReaderCrash, ingestVars, Empty, IngestTypes
<1> QED
  BY <1>1, <1>2, <1>3, <1>4, <1>5, <1>6, <1>7, <1>8
     DEF Next, vars, readerVars

(***************************************************************************)
(* The sink.                                                               *)
(***************************************************************************)
Sinks == IngestTypes /\ ReaderTypes /\ Batched

LEMMA SinkInit == Init => Batched /\ NoTickLost
BY DEF Init, Batched, NoTickLost

LEMMA SinkStep ==
  Sinks /\ NoTickLost /\ [Next]_vars => Batched' /\ NoTickLost'
<1> SUFFICES ASSUME Sinks, NoTickLost, [Next]_vars, reader = "sink"
             PROVE  Batched' /\ NoTickLost'
  BY DEF Sinks, Batched, NoTickLost, Next, vars, readerVars, SinkRead, CandleRead,
     SinkInsert, SinkCommit, CandleInsert, CandleCommit, ReaderCrash
<1> USE DEF Sinks
<1>0. TopicGrows
  BY Grows
<1>a. \A s \in Symbols : at[s] \in Nat /\ committed[s] \in Nat /\ committed[s] <= at[s]
                         /\ \A i \in 1..at[s] : i \in 1..Len(topic[s])
                                                /\ topic'[s][i] = topic[s][i]
  BY <1>0 DEF ReaderTypes, TopicGrows, IngestTypes
<1>1. CASE UNCHANGED readerVars
  <2>1. UNCHANGED <<reader, at, committed, inserting, batch, rows>>
    BY <1>1 DEF readerVars, offsets, sinkVars
  <2>2. \A b \in batch : b[1] \in Symbols /\ b[2] \in 1..at[b[1]]
                           => topic'[b[1]][b[2]] = topic[b[1]][b[2]]
    BY <1>a
  <2>3. Batched'
    BY <2>1, <2>2, Zenon DEF Batched
  <2>4. \A s \in Symbols : \A i \in 1..committed[s] : topic'[s][i] = topic[s][i]
    BY <1>a
  <2>5. NoTickLost'
    BY <2>1, <2>4, Zenon DEF NoTickLost
  <2> QED
    BY <2>3, <2>5
<1>2. ASSUME NEW s \in Symbols, SinkRead(s) PROVE Batched' /\ NoTickLost'
  <2>1. /\ at' = [at EXCEPT ![s] = @ + 1] /\ ~ inserting /\ ~ inserting'
        /\ batch' = batch \union {<<s, at[s] + 1>>}
        /\ UNCHANGED <<topic, rows, committed, reader>>
    BY <1>2 DEF SinkRead, Read, ingestVars, ReaderTypes
  <2>2. \A r \in Symbols : \A i \in 1..at'[r] : i > committed[r] => <<r, i>> \in batch'
    BY <2>1, <1>a DEF Batched, ReaderTypes
  <2>3. ASSUME NEW b \in batch' PROVE b[1] \in Symbols /\ b[2] \in 1..at'[b[1]]
    <3>1. CASE b \in batch
      <4>1. b[1] \in Symbols /\ b[2] \in 1..at[b[1]]
        BY <3>1 DEF Batched
      <4>2. at[b[1]] \in Nat /\ at'[b[1]] \in Nat /\ at[b[1]] <= at'[b[1]]
        BY <4>1, <2>1, <1>a DEF ReaderTypes
      <4> QED
        BY <4>1, <4>2
    <3>2. CASE b = <<s, at[s] + 1>>
      <4>1. at'[s] = at[s] + 1 /\ at[s] \in Nat
        BY <2>1, <1>a DEF ReaderTypes
      <4> QED
        BY <3>2, <4>1
    <3> QED
      BY <2>1, <3>1, <3>2
  <2> QED
    BY <2>1, <2>2, <2>3 DEF Batched, NoTickLost
<1>3. CASE SinkInsert
  <2>1. \A b \in batch : <<b[1], topic[b[1]][b[2]].seq>> \in rows'
    BY <1>3 DEF SinkInsert
  <2>2. rows \subseteq rows' /\ UNCHANGED <<topic, at, committed, batch, reader>>
    BY <1>3 DEF SinkInsert, ingestVars, offsets
  <2> QED
    BY <2>1, <2>2 DEF Batched, NoTickLost
<1>4. CASE SinkCommit
  <2>1. ASSUME NEW s \in Symbols, NEW i \in 1..at[s]
        PROVE  <<s, topic[s][i].seq>> \in rows
    <3>1. CASE i > committed[s]
      <4>1. <<s, i>> \in batch /\ inserting
        BY <1>4, <3>1 DEF Batched, SinkCommit
      <4> QED
        BY <4>1 DEF Batched
    <3>2. CASE ~ (i > committed[s])
      BY <3>2, <1>a DEF NoTickLost
    <3> QED
      BY <3>1, <3>2
  <2> QED
    BY <1>4, <2>1, <1>a DEF SinkCommit, ingestVars, Batched, NoTickLost
<1>5. CASE ReaderCrash
  BY <1>5, <1>a DEF ReaderCrash, ingestVars, Batched, NoTickLost
<1> QED
  BY <1>1, <1>2, <1>3, <1>4, <1>5 DEF Next, vars, readerVars, CandleRead,
     CandleInsert, CandleCommit

(***************************************************************************)
(* The aggregator.                                                         *)
(***************************************************************************)
Closes == Marked /\ ClosesAreCurrent
Wholes == OpenAreWhole /\ CandlesAreWhole

LEMMA CandleInit == Init => Closes /\ Wholes
BY DEF Init, Closes, Wholes, Marked, ClosesAreCurrent, OpenAreWhole, CandlesAreWhole

\* Offsets and minutes in a step: what has been read keeps its minute.
LEMMA Sizes ==
  ASSUME IngestTypes, ReaderTypes, [Next]_vars, NEW s \in Symbols
  PROVE  /\ at[s] \in Nat /\ committed[s] \in Nat /\ committed[s] <= at[s]
         /\ \A i \in 1..at[s] : /\ Minute(s, i) \in Minutes
                                /\ Minute(s, i)' = Minute(s, i)
<1>1. TopicGrows
  BY Grows
<1>2. at[s] \in Nat /\ committed[s] \in Nat /\ committed[s] <= at[s]
      /\ at[s] <= Len(topic[s]) /\ Len(topic[s]) \in Nat
  BY DEF ReaderTypes, IngestTypes
<1>3. ASSUME NEW i \in 1..at[s]
      PROVE  Minute(s, i) \in Minutes /\ Minute(s, i)' = Minute(s, i)
  <2>1. i \in 1..Len(topic[s])
    BY <1>2
  <2> QED
    BY <2>1, <1>1, MinuteType DEF TopicGrows, Minute
<1> QED
  BY <1>2, <1>3

\* A tick is added to its candle, which is marked.
LEMMA ReadStep ==
  ASSUME IngestTypes, ReaderTypes, [Next]_vars, NEW s \in Symbols, CandleRead(s)
  PROVE  LET n == at[s] + 1
             w == Minute(s, n)
         IN  /\ n \in 1..Len(topic[s]) /\ w \in Minutes
             /\ at' = [at EXCEPT ![s] = n]
             /\ candles' = [candles EXCEPT ![s][w] = @ \union {n}]
             /\ n \in candles'[s][w]
             /\ \A r \in Symbols, v \in Minutes : candles[r][v] \subseteq candles'[r][v]
             /\ dirty' = dirty \union {<<s, w>>}
             /\ maxWindow' = IF w > maxWindow THEN w ELSE maxWindow
             /\ late' = (late \/ w < maxWindow - Watermark)
             /\ ~ inserting
             /\ UNCHANGED <<topic, reader, committed, inserting, stored, readerCrashes>>
<1> DEFINE n == at[s] + 1
           w == Minute(s, n)
<1>1. n \in 1..Len(topic[s]) /\ at' = [at EXCEPT ![s] = n] /\ at'[s] = n
  BY DEF CandleRead, Read, ReaderTypes, IngestTypes
<1>2. w \in Minutes
  BY <1>1, MinuteType
<1>3. topic' = topic
  BY DEF CandleRead, ingestVars
<1>4. candles' = [candles EXCEPT ![s][w] = @ \union {n}]
      /\ dirty' = dirty \union {<<s, w>>}
      /\ maxWindow' = (IF w > maxWindow THEN w ELSE maxWindow)
  <2> DEFINE m == at'[s]
  <2>1. m = n
    BY <1>1
  <2>2. /\ candles' = [candles EXCEPT ![s][Minute(s, m)] = @ \union {m}]
        /\ dirty' = dirty \union {<<s, Minute(s, m)>>}
        /\ maxWindow' = (IF Minute(s, m) > maxWindow THEN Minute(s, m) ELSE maxWindow)
    BY Zenon DEF CandleRead
  <2> HIDE DEF m, n
  <2> QED
    BY <2>1, <2>2
<1>5. late' = (late \/ w < maxWindow - Watermark)
  BY <1>1, Zenon DEF CandleRead
<1>6. ~ inserting /\ UNCHANGED <<reader, committed, inserting, stored, readerCrashes>>
  BY DEF CandleRead, Read
<1> HIDE DEF w, n
<1>7. n \in candles'[s][w]
      /\ \A r \in Symbols, v \in Minutes : candles[r][v] \subseteq candles'[r][v]
  BY <1>2, <1>4 DEF ReaderTypes
<1> USE DEF w, n
<1> QED
  BY <1>1, <1>2, <1>3, <1>4, <1>5, <1>6, <1>7, Zenon

LEMMA ClosesStep ==
  IngestTypes /\ ReaderTypes /\ Closes /\ [Next]_vars => Closes'
<1> SUFFICES ASSUME IngestTypes, ReaderTypes, Closes, [Next]_vars, reader = "candle"
             PROVE  Closes'
  BY DEF Closes, Marked, ClosesAreCurrent, Next, vars, readerVars, SinkRead,
     CandleRead, SinkInsert, SinkCommit, CandleInsert, CandleCommit, ReaderCrash
<1>a. \A s \in Symbols :
        /\ at[s] \in Nat /\ committed[s] \in Nat /\ committed[s] <= at[s]
        /\ \A i \in 1..at[s] : Minute(s, i) \in Minutes /\ Minute(s, i)' = Minute(s, i)
  BY Sizes
<1>b. \A s \in Symbols : \A i \in 1..committed[s] : i \in 1..at[s]
  BY <1>a
<1>1. CASE UNCHANGED readerVars
  <2>1. UNCHANGED <<reader, at, committed, inserting, candles, dirty, stored>>
    BY <1>1 DEF readerVars, offsets, candleVars
  <2>2. Marked'
    BY <2>1, <1>a, Zenon DEF Closes, Marked
  <2>3. ClosesAreCurrent'
    BY <2>1, <1>a, <1>b, Zenon DEF Closes, ClosesAreCurrent
  <2> QED
    BY <2>2, <2>3 DEF Closes
<1>2. ASSUME NEW s \in Symbols, CandleRead(s) PROVE Closes'
  <2> DEFINE n == at[s] + 1
             w == Minute(s, n)
  <2>1. /\ w \in Minutes
        /\ at' = [at EXCEPT ![s] = n]
        /\ n \in candles'[s][w]
        /\ \A r \in Symbols, v \in Minutes : candles[r][v] \subseteq candles'[r][v]
        /\ dirty' = dirty \union {<<s, w>>}
        /\ ~ inserting
        /\ UNCHANGED <<topic, reader, committed, inserting, stored>>
    BY <1>2, ReadStep, Zenon
  <2>0. ASSUME NEW i \in 1..at'[s], i = n PROVE Minute(s, i)' = w
    BY <2>0, <2>1, Zenon DEF Minute
  <2> HIDE DEF w
  <2>2. ASSUME NEW r \in Symbols, NEW i \in 1..at'[r], i > committed[r]
        PROVE  <<r, Minute(r, i)'>> \in dirty' /\ i \in candles'[r][Minute(r, i)']
    <3>1. CASE r = s /\ i = n
      BY <3>1, <2>0, <2>1
    <3>2. CASE i \in 1..at[r]
      <4>1. <<r, Minute(r, i)>> \in dirty /\ i \in candles[r][Minute(r, i)]
        BY <3>2, <2>1, <2>2, <1>a DEF Closes, Marked
      <4> QED
        BY <4>1, <3>2, <2>1, <1>a
    <3>3. (r = s /\ i = n) \/ i \in 1..at[r]
      BY <2>1, <1>a DEF ReaderTypes
    <3> QED
      BY <3>1, <3>2, <3>3
  <2>3. ASSUME NEW r \in Symbols, NEW v \in Minutes, <<r, v>> \in dirty'
        PROVE  \E j \in candles'[r][v] : j > committed[r]
    <3>1. CASE <<r, v>> \in dirty
      BY <3>1, <2>1 DEF Closes, Marked
    <3>2. CASE r = s /\ v = w
      BY <3>2, <2>1, <1>a
    <3> QED
      BY <2>1, <2>3, <3>1, <3>2
  <2>4. Marked'
    BY <2>1, <2>2, <2>3 DEF Marked
  <2>5. ClosesAreCurrent'
    BY <2>1, <1>a, <1>b, Zenon DEF Closes, ClosesAreCurrent
  <2> QED
    BY <2>4, <2>5 DEF Closes
<1>3. CASE CandleInsert
  <2>1. /\ ~ inserting /\ inserting' /\ dirty' = {}
        /\ UNCHANGED <<topic, reader, at, committed>>
    BY <1>3, Zenon DEF CandleInsert, ingestVars, offsets
  <2>2. \A r \in Symbols, v \in Minutes :
          stored'[r][v] = IF <<r, v>> \in dirty THEN candles[r][v] ELSE stored[r][v]
    BY <1>3 DEF CandleInsert
  <2>3. Marked'
    <3>1. ASSUME NEW r \in Symbols, NEW i \in 1..at[r], i > committed[r]
          PROVE  i \in stored'[r][Minute(r, i)']
      <4>1. Minute(r, i) \in Minutes /\ Minute(r, i)' = Minute(r, i)
        BY <1>a
      <4>2. <<r, Minute(r, i)>> \in dirty /\ i \in candles[r][Minute(r, i)]
        BY <3>1, <2>1 DEF Closes, Marked
      <4> QED
        BY <4>1, <4>2, <2>2, Zenon
    <3> QED
      BY <3>1, <2>1 DEF Marked
  <2>4. ASSUME NEW r \in Symbols, NEW i \in 1..committed[r]
        PROVE  \E j \in stored'[r][Minute(r, i)'] : j >= i
    <3> DEFINE v == Minute(r, i)
    <3>1. v \in Minutes /\ Minute(r, i)' = v /\ i \in Int /\ i <= committed[r]
      BY <1>a, <1>b
    <3>2. \E j \in stored[r][v] : j >= i
      BY DEF Closes, ClosesAreCurrent
    <3> HIDE DEF v
    <3>3. CASE <<r, v>> \in dirty
      <4>1. PICK j \in candles[r][v] : j > committed[r]
        BY <3>1, <3>3 DEF Closes, Marked
      <4>2. j \in Nat
        BY <3>1 DEF ReaderTypes
      <4> QED
        BY <4>1, <4>2, <3>1, <3>3, <2>2, <1>a
    <3>4. CASE <<r, v>> \notin dirty
      BY <3>4, <3>1, <3>2, <2>2
    <3> QED
      BY <3>3, <3>4
  <2>5. ClosesAreCurrent'
    BY <2>1, <2>4 DEF ClosesAreCurrent
  <2> QED
    BY <2>3, <2>5 DEF Closes
<1>4. CASE CandleCommit
  <2>1. /\ inserting /\ ~ inserting' /\ committed' = at /\ dirty = {}
        /\ UNCHANGED <<reader, at, stored, dirty>>
    BY <1>4, Zenon DEF CandleCommit, Closes, Marked
  <2>2. Marked'
    BY <2>1, <1>a DEF Marked
  <2>3. ASSUME NEW r \in Symbols, NEW i \in 1..at[r]
        PROVE  \E j \in stored[r][Minute(r, i)'] : j >= i
    <3>1. CASE i > committed[r]
      BY <3>1, <2>1, <1>a DEF Closes, Marked
    <3>2. CASE ~ (i > committed[r])
      <4>1. i \in 1..committed[r]
        BY <3>2, <1>a
      <4> QED
        BY <4>1, <1>a DEF Closes, ClosesAreCurrent
    <3> QED
      BY <3>1, <3>2
  <2>4. ClosesAreCurrent'
    BY <2>1, <2>3 DEF ClosesAreCurrent
  <2> QED
    BY <2>2, <2>4 DEF Closes
<1>5. CASE ReaderCrash
  <2>1. /\ at' = committed /\ ~ inserting' /\ dirty' = {}
        /\ UNCHANGED <<reader, committed, stored>>
    BY <1>5, Zenon DEF ReaderCrash
  <2>2. Marked'
    BY <2>1, <1>a DEF Marked
  <2>3. ClosesAreCurrent'
    BY <2>1, <1>a, <1>b, Zenon DEF Closes, ClosesAreCurrent
  <2> QED
    BY <2>2, <2>3 DEF Closes
<1> QED
  BY <1>1, <1>2, <1>3, <1>4, <1>5 DEF Next, vars, readerVars, SinkRead,
     SinkInsert, SinkCommit

LEMMA WholesStep ==
  IngestTypes /\ ReaderTypes /\ Closes /\ Wholes /\ [Next]_vars => Wholes'
<1> SUFFICES ASSUME IngestTypes, ReaderTypes, Closes, Wholes, [Next]_vars,
                    reader = "candle", readerCrashes' = 0, ~ late'
             PROVE  Wholes'
  BY Zenon DEF Wholes, OpenAreWhole, CandlesAreWhole, Next, vars, readerVars, SinkRead,
     CandleRead, SinkInsert, SinkCommit, CandleInsert, CandleCommit, ReaderCrash
<1>a. \A s \in Symbols :
        /\ at[s] \in Nat /\ committed[s] \in Nat /\ committed[s] <= at[s]
        /\ \A i \in 1..at[s] : Minute(s, i) \in Minutes /\ Minute(s, i)' = Minute(s, i)
  BY Sizes
<1>b. \A s \in Symbols : \A i \in 1..committed[s] : i \in 1..at[s]
  BY <1>a
<1>c. Minutes \subseteq Int /\ maxWindow \in Int /\ Watermark \in Nat
  BY MinutesAssumption DEF ReaderTypes, Minutes, NoWindow
<1>1. CASE UNCHANGED readerVars
  <2>1. UNCHANGED <<reader, at, committed, candles, dirty, maxWindow, stored, late,
                    readerCrashes>>
    BY <1>1 DEF readerVars, offsets, candleVars
  <2>2. OpenAreWhole'
    BY <2>1, <1>a, Zenon DEF Wholes, OpenAreWhole
  <2>3. CandlesAreWhole'
    BY <2>1, <1>a, <1>b, Zenon DEF Wholes, CandlesAreWhole
  <2> QED
    BY <2>2, <2>3 DEF Wholes
<1>2. ASSUME NEW s \in Symbols, CandleRead(s) PROVE Wholes'
  <2> DEFINE n == at[s] + 1
             w == Minute(s, n)
  <2>1. /\ w \in Minutes
        /\ at' = [at EXCEPT ![s] = n]
        /\ n \in candles'[s][w]
        /\ \A r \in Symbols, v \in Minutes : candles[r][v] \subseteq candles'[r][v]
        /\ dirty' = dirty \union {<<s, w>>}
        /\ maxWindow' = IF w > maxWindow THEN w ELSE maxWindow
        /\ UNCHANGED <<topic, reader, committed, stored, readerCrashes>>
    BY <1>2, ReadStep, Zenon
  <2>2. ~ late /\ ~ (w < maxWindow - Watermark)
    BY <1>2, ReadStep, Zenon
  <2>0. ASSUME NEW i \in 1..at'[s], i = n PROVE Minute(s, i)' = w
    BY <2>0, <2>1, Zenon DEF Minute
  <2> HIDE DEF w
  <2>3. readerCrashes = 0
    BY <2>1
  <2>4. ASSUME NEW r \in Symbols, NEW i \in 1..at'[r],
               <<r, Minute(r, i)'>> \in dirty' \/ Minute(r, i)' >= maxWindow' - Watermark
        PROVE  i \in candles'[r][Minute(r, i)']
    <3>1. CASE r = s /\ i = n
      BY <3>1, <2>0, <2>1
    <3>2. CASE i \in 1..at[r]
      <4> DEFINE v == Minute(r, i)
      <4>1. v \in Minutes /\ Minute(r, i)' = v
        BY <3>2, <1>a
      <4>2. <<r, v>> \in dirty \/ v >= maxWindow - Watermark
                => i \in candles[r][v]
        BY <3>2, <2>2, <2>3 DEF Wholes, OpenAreWhole
      <4> HIDE DEF v
      <4>3. CASE <<r, v>> \in dirty'
        <5>1. <<r, v>> \in dirty \/ v = w
          BY <4>3, <2>1
        <5>2. v = w => v >= maxWindow - Watermark
          BY <1>c, <2>1, <2>2
        <5> QED
          BY <5>1, <5>2, <4>1, <4>2, <2>1
      <4>4. CASE v >= maxWindow' - Watermark
        <5>1. v >= maxWindow - Watermark
          BY <4>4, <4>1, <1>c, <2>1
        <5> QED
          BY <5>1, <4>1, <4>2, <2>1
      <4> QED
        BY <2>4, <4>1, <4>3, <4>4
    <3>3. (r = s /\ i = n) \/ i \in 1..at[r]
      <4>1. CASE r = s
        <5>1. at'[s] = at[s] + 1 /\ at[s] \in Nat
          BY <2>1, <1>a DEF ReaderTypes
        <5> QED
          BY <4>1, <5>1
      <4>2. CASE r # s
        BY <4>2, <2>1 DEF ReaderTypes
      <4> QED
        BY <4>1, <4>2
    <3> QED
      BY <3>1, <3>2, <3>3
  <2>5. OpenAreWhole'
    BY <2>4 DEF OpenAreWhole
  <2>6. CandlesAreWhole'
    BY <2>1, <2>2, <2>3, <1>a, <1>b, Zenon DEF Wholes, CandlesAreWhole
  <2> QED
    BY <2>5, <2>6 DEF Wholes
<1>3. CASE CandleInsert
  <2>1. /\ dirty' = {}
        /\ UNCHANGED <<topic, reader, at, committed, candles, maxWindow, late, readerCrashes>>
    BY <1>3, Zenon DEF CandleInsert, ingestVars, offsets
  <2>2. \A r \in Symbols, v \in Minutes :
          stored'[r][v] = IF <<r, v>> \in dirty THEN candles[r][v] ELSE stored[r][v]
    BY <1>3 DEF CandleInsert
  <2>3. OpenAreWhole'
    <3>1. ASSUME NEW r \in Symbols, NEW i \in 1..at[r],
                 Minute(r, i)' >= maxWindow - Watermark
          PROVE  i \in candles[r][Minute(r, i)']
      BY <3>1, <2>1, <1>a DEF Wholes, OpenAreWhole
    <3> QED
      BY <3>1, <2>1 DEF OpenAreWhole
  <2>4. ASSUME NEW r \in Symbols, NEW i \in 1..committed[r]
        PROVE  i \in stored'[r][Minute(r, i)']
    <3> DEFINE v == Minute(r, i)
    <3>1. v \in Minutes /\ Minute(r, i)' = v
      BY <1>a, <1>b
    <3>2. i \in stored[r][v]
      BY <2>1 DEF Wholes, CandlesAreWhole
    <3>3. <<r, v>> \in dirty => i \in candles[r][v]
      BY <2>1, <1>b DEF Wholes, OpenAreWhole
    <3> HIDE DEF v
    <3> QED
      BY <3>1, <3>2, <3>3, <2>2
  <2>5. CandlesAreWhole'
    BY <2>1, <2>4 DEF CandlesAreWhole
  <2> QED
    BY <2>3, <2>5 DEF Wholes
<1>4. CASE CandleCommit
  <2>1. /\ inserting /\ committed' = at /\ dirty = {} /\ candles' = Kept
        /\ UNCHANGED <<reader, at, stored, dirty, maxWindow, late, readerCrashes>>
    BY <1>4, Zenon DEF CandleCommit, Closes, Marked
  <2>2. ASSUME NEW r \in Symbols, NEW i \in 1..at[r],
               Minute(r, i)' >= maxWindow - Watermark
        PROVE  i \in candles'[r][Minute(r, i)']
    <3> DEFINE v == Minute(r, i)
    <3>1. v \in Minutes /\ Minute(r, i)' = v
      BY <1>a
    <3>2. i \in candles[r][v]
      BY <3>1, <2>1, <2>2 DEF Wholes, OpenAreWhole
    <3> HIDE DEF v
    <3>3. ~ (v < maxWindow - Watermark)
      BY <3>1, <2>2, <1>c
    <3> QED
      BY <3>1, <3>2, <3>3, <2>1 DEF Kept
  <2>3. OpenAreWhole'
    BY <2>1, <2>2 DEF OpenAreWhole
  <2>4. ASSUME NEW r \in Symbols, NEW i \in 1..at[r]
        PROVE  i \in stored[r][Minute(r, i)']
    <3>1. CASE i > committed[r]
      BY <3>1, <2>1, <1>a DEF Closes, Marked
    <3>2. CASE ~ (i > committed[r])
      <4>1. i \in 1..committed[r]
        BY <3>2, <1>a
      <4> QED
        BY <4>1, <2>1, <1>a DEF Wholes, CandlesAreWhole
    <3> QED
      BY <3>1, <3>2
  <2>5. CandlesAreWhole'
    BY <2>1, <2>4 DEF CandlesAreWhole
  <2> QED
    BY <2>3, <2>5 DEF Wholes
<1>5. CASE ReaderCrash
  <2>1. readerCrashes \in Nat /\ readerCrashes' = readerCrashes + 1
    BY <1>5, MinutesAssumption DEF ReaderCrash, ReaderTypes
  <2> QED
    BY <2>1
<1> QED
  BY <1>1, <1>2, <1>3, <1>4, <1>5 DEF Next, vars, readerVars, SinkRead,
     SinkInsert, SinkCommit

(***************************************************************************)
(* The watchdog.                                                           *)
(***************************************************************************)
Watched == Waiting /\ Past /\ HungProducerEnds

LEMMA WatchdogInit == Init => Watched
BY DEF Init, IngestInit, Watched, Waiting, Past, HungProducerEnds, NoTime

\* Taking the first message out of a queue moves the others up.
LEMMA TailOf ==
  ASSUME NEW q \in Seq(Message), q # <<>>, NEW k \in 1..Len(Tail(q))
  PROVE  k + 1 \in 1..Len(q) /\ Tail(q)[k] = q[k + 1]
OBVIOUS

LEMMA WatchdogStep == IngestTypes /\ Flags /\ Watched /\ [Next]_vars => Watched'
<1> SUFFICES ASSUME IngestTypes, Flags, Watched, [Next]_vars PROVE Watched'
  OBVIOUS
<1>0. /\ time \in Nat /\ lastOk \in 0..time /\ Stall \in Nat
      /\ lastQueued \in Int /\ deliveredAt \in Int
  BY TimesAssumption DEF IngestTypes, Seconds, NoTime
<1>a. \A s \in Symbols : \A k \in 1..Len(queue[s]) :
        queue[s][k] \in Message /\ queue[s][k].sec \in Nat
  <2>1. \A s \in Symbols : \A k \in 1..Len(queue[s]) : queue[s][k] \in Message
    BY DEF IngestTypes
  <2>2. \A m \in Message : m.sec \in Nat
    BY TimesAssumption DEF Message, Seconds
  <2> QED
    BY <2>1, <2>2
<1>1. CASE UNCHANGED <<time, up, queue, reported, lastOk, lastQueued, deliveredAt>>
  BY <1>1, Zenon DEF Watched, Waiting, Past, HungProducerEnds
<1>2. ASSUME NEW s \in Symbols, Trade(s) PROVE Watched'
  <2> DEFINE new == [sec |-> time, seq |-> NextSeq(s)]
  <2>1. /\ UNCHANGED <<time, deliveredAt>> /\ ~ reported'
        /\ lastOk' = IF reported THEN time ELSE lastOk
        /\ pending' = IF reported THEN 0 ELSE IF Full THEN pending ELSE pending + 1
        /\ lastQueued' = IF Full THEN lastQueued ELSE time
    BY <1>2 DEF Trade
  <2>2. up' => ~ (pending' > 0 /\ time - lastOk' > Stall)
    BY <1>2, Zenon DEF Trade
  <2>3. ASSUME NEW r \in Symbols, NEW k \in 1..Len(queue'[r])
        PROVE  \/ ~ Full /\ queue'[r][k].sec = time
               \/ k \in 1..Len(queue[r]) /\ queue'[r][k] = queue[r][k]
    <3>1. queue' = IF Full THEN queue ELSE [queue EXCEPT ![s] = Append(@, new)]
      BY <1>2 DEF Trade
    <3>2. CASE Full \/ r # s
      BY <3>1, <3>2 DEF IngestTypes
    <3>3. CASE ~ Full /\ r = s
      <4>1. queue'[r] = Append(queue[r], new) /\ queue[r] \in Seq(Message)
        BY <3>1, <3>3 DEF IngestTypes
      <4> HIDE DEF new
      <4>2. CASE k \in 1..Len(queue[r])
        BY <4>1, <4>2
      <4>3. CASE k = Len(queue[r]) + 1
        BY <3>3, <4>1, <4>3 DEF new
      <4> QED
        BY <4>1, <4>2, <4>3
    <3> QED
      BY <3>2, <3>3
  <2>4. Past'
    <3>1. ASSUME NEW r \in Symbols, NEW k \in 1..Len(queue'[r])
          PROVE  queue'[r][k].sec <= time
      BY <2>3, <1>0 DEF Watched, Past
    <3>2. lastQueued' <= time /\ deliveredAt <= time
      BY <2>1, <1>0 DEF Watched, Past
    <3> QED
      BY <2>1, <3>1, <3>2 DEF Past
  <2>5. ASSUME NEW r \in Symbols, NEW k \in 1..Len(queue'[r]),
               deliveredAt < queue'[r][k].sec
        PROVE  /\ lastOk' <= queue'[r][k].sec
               /\ up' => lastQueued' - queue'[r][k].sec <= Stall
    <3>1. CASE ~ Full /\ queue'[r][k].sec = time
      BY <3>1, <2>1, <1>0
    <3>2. CASE k \in 1..Len(queue[r]) /\ queue'[r][k] = queue[r][k]
      <4> DEFINE sec == queue[r][k].sec
      <4>1. sec \in Nat /\ deliveredAt < sec
        BY <3>2, <2>5, <1>a
      <4>2. ~ reported /\ lastOk <= sec
        BY <3>2, <4>1 DEF Watched, Waiting
      <4>3. lastOk' = lastOk
        BY <4>2, <2>1
      <4> HIDE DEF sec
      <4>4. CASE Full
        <5>1. up
          BY <1>2 DEF Trade
        <5>2. lastQueued - queue[r][k].sec <= Stall
          BY <5>1, <3>2, <2>5 DEF Watched, HungProducerEnds
        <5> QED
          BY <3>2, <4>2, <4>3, <4>4, <5>2, <2>1 DEF sec
      <4>5. CASE ~ Full
        <5>1. pending' > 0 /\ lastQueued' = time
          BY <4>2, <4>5, <2>1 DEF IngestTypes
        <5>2. up' => ~ (time - lastOk > Stall)
          BY <2>2, <4>3, <5>1
        <5>3. ~ (time - lastOk > Stall) => time - sec <= Stall
          BY <4>1, <4>2, <1>0
        <5>4. lastOk' <= sec
          BY <4>2, <4>3
        <5>5. up' => lastQueued' - sec <= Stall
          BY <5>1, <5>2, <5>3
        <5> QED
          BY <3>2, <5>4, <5>5 DEF sec
      <4> QED
        BY <4>4, <4>5
    <3> QED
      BY <2>3, <3>1, <3>2
  <2>6. Waiting'
    BY <2>1, <2>5 DEF Waiting
  <2>7. HungProducerEnds'
    BY <2>1, <2>5 DEF HungProducerEnds
  <2> QED
    BY <2>4, <2>6, <2>7 DEF Watched
<1>3. ASSUME NEW s \in Symbols, Deliver(s) PROVE Watched'
  <2>1. /\ queue' = [queue EXCEPT ![s] = Tail(@)] /\ deliveredAt' = time
        /\ UNCHANGED <<time, up, lastQueued, lastOk>>
    BY <1>3 DEF Deliver
  <2>2. ASSUME NEW r \in Symbols, NEW k \in 1..Len(queue'[r])
        PROVE  queue'[r][k].sec <= time /\ queue'[r][k].sec \in Nat
    <3>1. CASE r = s
      <4>1. queue[s] \in Seq(Message) /\ queue[s] # <<>> /\ queue'[r] = Tail(queue[s])
        BY <1>3, <2>1, <3>1 DEF IngestTypes, Deliver
      <4>2. k + 1 \in 1..Len(queue[s]) /\ queue'[r][k] = queue[s][k + 1]
        BY <4>1, TailOf
      <4> QED
        BY <4>2, <1>a DEF Watched, Past
    <3>2. CASE r # s
      BY <3>2, <2>1, <1>a DEF IngestTypes, Watched, Past
    <3> QED
      BY <3>1, <3>2
  <2>3. Past'
    BY <2>1, <2>2, <1>0 DEF Watched, Past
  <2>4. \A r \in Symbols : \A k \in 1..Len(queue'[r]) : ~ (deliveredAt' < queue'[r][k].sec)
    <3> SUFFICES ASSUME NEW r \in Symbols, NEW k \in 1..Len(queue'[r])
                 PROVE  ~ (deliveredAt' < queue'[r][k].sec)
      OBVIOUS
    <3>1. queue'[r][k].sec <= time /\ queue'[r][k].sec \in Nat
      BY <2>2
    <3> QED
      BY <3>1, <2>1, <1>0
  <2> QED
    BY <2>3, <2>4, ZenonT(40) DEF Watched, Waiting, HungProducerEnds
<1>4. ASSUME NEW s \in Symbols, Expire(s) PROVE Watched'
  <2>1. /\ queue' = [queue EXCEPT ![s] = Tail(@)]
        /\ UNCHANGED <<time, up, reported, lastQueued, deliveredAt, lastOk>>
    BY <1>4 DEF Expire, watchdogVars, historyVars
  <2>2. ASSUME NEW r \in Symbols, NEW k \in 1..Len(queue'[r])
        PROVE  \E j \in 1..Len(queue[r]) : queue'[r][k] = queue[r][j]
    <3>1. CASE r = s
      <4>1. queue[s] \in Seq(Message) /\ queue[s] # <<>> /\ queue'[r] = Tail(queue[s])
        BY <1>4, <2>1, <3>1 DEF IngestTypes, Expire
      <4>2. k + 1 \in 1..Len(queue[s]) /\ queue'[r][k] = queue[s][k + 1]
        BY <4>1, TailOf
      <4> QED
        BY <4>2, <3>1
    <3>2. CASE r # s
      BY <3>2, <2>1 DEF IngestTypes
    <3> QED
      BY <3>1, <3>2
  <2>3. Past'
    BY <2>1, <2>2 DEF Watched, Past
  <2>4. Waiting'
    BY <2>1, <2>2, ZenonT(40) DEF Watched, Waiting
  <2>5. HungProducerEnds'
    BY <2>1, <2>2, ZenonT(40) DEF Watched, HungProducerEnds
  <2> QED
    BY <2>3, <2>4, <2>5 DEF Watched
<1>5. CASE IngesterCrash \/ IngesterStart
  <2>1. /\ \A r \in Symbols : queue'[r] = <<>>
        /\ UNCHANGED <<time, lastQueued, deliveredAt>>
    BY <1>5 DEF IngesterCrash, IngesterStart, historyVars
  <2>2. \A r \in Symbols : 1..Len(queue'[r]) = {}
    BY <2>1
  <2>3. Past'
    BY <2>1, <2>2, Zenon DEF Watched, Past
  <2> QED
    BY <2>2, <2>3, Zenon DEF Watched, Waiting, HungProducerEnds
<1>6. CASE Elapse
  <2>1. time' = time + 1
        /\ UNCHANGED <<up, queue, reported, lastOk, lastQueued, deliveredAt>>
    BY <1>6 DEF Elapse, watchdogVars, historyVars
  <2>2. Past'
    BY <2>1, <1>0, <1>a DEF Watched, Past
  <2> QED
    BY <2>1, <2>2, Zenon DEF Watched, Waiting, HungProducerEnds
<1> QED
  BY <1>1, <1>2, <1>3, <1>4, <1>5, <1>6, Zenon
     DEF Next, IngestNext, vars, ingestVars, watchdogVars, historyVars, SinkRead,
         CandleRead, SinkInsert, SinkCommit, CandleInsert, CandleCommit, ReaderCrash

(***************************************************************************)
(* Sequence numbers.  Every message carries a number of its second, no     *)
(* greater than the counter of a process that has run all that second.     *)
(***************************************************************************)
Numbered(m, s) ==
  /\ m.sec <= time
  /\ source = "upbit" => m.seq < trades
  /\ source # "upbit" =>
       /\ m.sec * SeqPerSec <= m.seq
       /\ m.seq <= m.sec * SeqPerSec + (SeqPerSec - 1)
       /\ m.sec = time /\ time \notin startedAt =>
            seqState[s].sec = time /\ m.seq <= time * SeqPerSec + seqState[s].cnt

Sent(s) == {topic[s][i] : i \in 1..Len(topic[s])}
             \union {queue[s][k] : k \in 1..Len(queue[s])}

Made == \A s \in Symbols : \A m \in Message : m \in Sent(s) => Numbered(m, s)

\* Messages of the queue come after those of the topic, and in their order.
Ordered ==
  \A s \in Symbols : \A k \in 1..Len(queue[s]) :
    /\ \A i \in 1..Len(topic[s]) : Apart(topic[s][i], queue[s][k], startedAt)
    /\ \A j \in 1..(k - 1) : Apart(queue[s][j], queue[s][k], startedAt)

Keys == Made /\ Ordered /\ KeysAreUnique

LEMMA Blocks ==
  ASSUME NEW a \in Nat, NEW b \in Nat, a < b
  PROVE  a * SeqPerSec + (SeqPerSec - 1) < b * SeqPerSec
<1>1. SeqPerSec \in Nat /\ b - a \in Nat /\ b - a >= 1 /\ SeqPerSec >= 1
  BY TimesAssumption
<1>2. (b - a) * SeqPerSec >= SeqPerSec
  BY <1>1
<1>3. b * SeqPerSec = a * SeqPerSec + (b - a) * SeqPerSec
  BY <1>1
<1> QED
  BY <1>1, <1>2, <1>3

LEMMA LastOfBlock ==
  ASSUME NEW a \in Nat
  PROVE  (a * SeqPerSec + (SeqPerSec - 1)) % SeqPerSec = SeqPerSec - 1
BY TimesAssumption

LEMMA NewMessage ==
  ASSUME IngestTypes, NEW s \in Symbols, Trade(s), NEW m \in Message, Numbered(m, s)
  PROVE  Apart(m, [sec |-> time, seq |-> NextSeq(s)], startedAt)
<1> DEFINE new == [sec |-> time, seq |-> NextSeq(s)]
<1>1. new.sec = time /\ new.seq = NextSeq(s)
  OBVIOUS
<1>2. m.sec \in Nat /\ m.seq \in Nat /\ time \in Nat /\ trades \in Nat
  BY TimesAssumption, IngestBoundsAssumption DEF Message, Seconds, IngestTypes
<1>3. Counter(s) \in Nat /\ SeqPerSec \in Nat /\ SeqPerSec >= 1
      /\ time * SeqPerSec \in Nat /\ m.sec * SeqPerSec \in Nat
  BY <1>2, SeqType, TimesAssumption
<1> HIDE DEF new
<1>4. CASE source = "upbit"
  BY <1>1, <1>2, <1>4 DEF Apart, Numbered, NextSeq
<1>5. CASE source # "upbit" /\ m.sec < time
  <2>1. m.sec * SeqPerSec + (SeqPerSec - 1) < time * SeqPerSec
    BY <1>2, <1>5, Blocks
  <2>2. NextSeq(s) >= time * SeqPerSec
    BY <1>3, <1>5 DEF NextSeq
  <2>3. m.seq <= m.sec * SeqPerSec + (SeqPerSec - 1)
    BY <1>5 DEF Numbered
  <2>4. NextSeq(s) \in Nat
    BY SeqType
  <2> QED
    BY <1>1, <1>2, <1>3, <2>1, <2>2, <2>3, <2>4 DEF Apart
<1>6. CASE source # "upbit" /\ m.sec = time
  <2>1. CASE time \in startedAt
    BY <1>1, <1>6, <2>1 DEF Apart
  <2>2. CASE time \notin startedAt
    <3>1. seqState[s].sec = time /\ m.seq <= time * SeqPerSec + seqState[s].cnt
          /\ m.seq <= time * SeqPerSec + (SeqPerSec - 1)
      BY <1>6, <2>2 DEF Numbered
    <3>2. Counter(s) = seqState[s].cnt + 1 /\ seqState[s].cnt \in Nat
      BY <3>1 DEF Counter, IngestTypes
    <3>3. CASE Counter(s) < SeqPerSec
      BY <1>1, <1>2, <1>3, <1>6, <3>1, <3>2, <3>3 DEF Apart, NextSeq
    <3>4. CASE ~ (Counter(s) < SeqPerSec)
      <4>1. NextSeq(s) = time * SeqPerSec + (SeqPerSec - 1)
        BY <1>6, <3>4 DEF NextSeq
      <4>2. m.seq >= NextSeq(s) => m.seq = NextSeq(s)
        <5> DEFINE last == time * SeqPerSec + (SeqPerSec - 1)
        <5>1. last \in Int /\ m.seq <= last /\ NextSeq(s) = last
          BY <1>3, <3>1, <4>1
        <5> HIDE DEF last
        <5> QED
          BY <5>1, <1>2
      <4>3. NextSeq(s) % SeqPerSec = SeqPerSec - 1
        BY <1>2, <4>1, LastOfBlock
      <4> QED
        BY <1>1, <1>6, <4>2, <4>3 DEF Apart
    <3> QED
      BY <3>3, <3>4
  <2> QED
    BY <2>1, <2>2
<1>7. m.sec <= time
  BY DEF Numbered
<1> QED
  BY <1>2, <1>4, <1>5, <1>6, <1>7 DEF new

LEMMA KeysInit == Init => Keys
BY DEF Init, IngestInit, Keys, Made, Sent, Ordered, KeysAreUnique

\* Numbers stay in their block whatever happens to the process and the clock.
LEMMA NumberedStep ==
  ASSUME IngestTypes, [Next]_vars, NEW s \in Symbols, NEW m \in Message, Numbered(m, s)
  PROVE  Numbered(m, s)'
<1>0. /\ m.sec \in Nat /\ m.seq \in Nat /\ time \in Nat /\ trades \in Nat
      /\ seqState[s].cnt \in Nat /\ SeqPerSec \in Nat /\ time * SeqPerSec \in Nat
  BY TimesAssumption, IngestBoundsAssumption DEF Message, Seconds, IngestTypes
<1>1. CASE UNCHANGED <<source, time, trades, seqState, startedAt>>
  BY <1>1, Zenon DEF Numbered
<1>2. ASSUME NEW r \in Symbols, Trade(r) PROVE Numbered(m, s)'
  <2>1. /\ trades' = trades + 1 /\ UNCHANGED <<source, time, startedAt>>
        /\ seqState' = [seqState EXCEPT ![r] = [sec |-> time, cnt |-> Counter(r)]]
    BY <1>2 DEF Trade
  <2>2. seqState[s].sec = time =>
          seqState'[s].sec = time /\ seqState'[s].cnt \in Nat
          /\ seqState'[s].cnt >= seqState[s].cnt
    BY <1>0, <2>1 DEF Counter, IngestTypes
  <2> QED
    BY <1>0, <2>1, <2>2 DEF Numbered
<1>3. CASE IngesterStart
  BY <1>0, <1>3 DEF IngesterStart, Numbered
<1>4. CASE Elapse
  BY <1>0, <1>4 DEF Elapse, historyVars, Numbered
<1> QED
  BY <1>1, <1>2, <1>3, <1>4, Zenon
     DEF Next, IngestNext, vars, ingestVars, historyVars, Deliver, Expire,
         IngesterCrash, SinkRead, CandleRead, SinkInsert, SinkCommit, CandleInsert,
         CandleCommit, ReaderCrash

LEMMA MadeStep == IngestTypes /\ Made /\ [Next]_vars => Made'
<1> SUFFICES ASSUME IngestTypes, Made, [Next]_vars,
                    NEW s \in Symbols, NEW m \in Message, m \in Sent(s)'
             PROVE  Numbered(m, s)'
  BY DEF Made
<1>1. CASE m \in Sent(s)
  BY <1>1, NumberedStep DEF Made
<1>2. CASE m \notin Sent(s)
  <2>1. CASE UNCHANGED <<topic, queue>>
    BY <1>2, <2>1 DEF Sent
  <2>2. ASSUME NEW r \in Symbols, Deliver(r) PROVE m \in Sent(s)
    <3>1. /\ queue[r] \in Seq(Message) /\ queue[r] # <<>> /\ topic[r] \in Seq(Message)
          /\ topic' = [topic EXCEPT ![r] = Append(@, Head(queue[r]))]
          /\ queue' = [queue EXCEPT ![r] = Tail(@)]
      BY <2>2 DEF Deliver, IngestTypes
    <3>2. CASE r # s
      BY <3>1, <3>2 DEF Sent, IngestTypes
    <3>3. CASE r = s
      <4>1. topic'[s] = Append(topic[s], queue[s][1]) /\ queue'[s] = Tail(queue[s])
            /\ 1 \in 1..Len(queue[s])
        BY <3>1, <3>3 DEF IngestTypes
      <4>2. ASSUME NEW i \in 1..Len(topic'[s]), m = topic'[s][i] PROVE m \in Sent(s)
        <5>1. i \in 1..Len(topic[s]) \/ i = Len(topic[s]) + 1
          BY <3>1, <3>3, <4>1
        <5>2. CASE i \in 1..Len(topic[s])
          BY <3>1, <3>3, <4>1, <4>2, <5>2 DEF Sent
        <5>3. CASE i = Len(topic[s]) + 1
          BY <3>1, <3>3, <4>1, <4>2, <5>3 DEF Sent
        <5> QED
          BY <5>1, <5>2, <5>3
      <4>3. ASSUME NEW k \in 1..Len(queue'[s]), m = queue'[s][k] PROVE m \in Sent(s)
        <5>1. k + 1 \in 1..Len(queue[s]) /\ m = queue[s][k + 1]
          BY <3>1, <3>3, <4>1, <4>3, TailOf
        <5> QED
          BY <5>1 DEF Sent
      <4> QED
        BY <4>2, <4>3 DEF Sent
    <3> QED
      BY <3>2, <3>3
  <2>3. ASSUME NEW r \in Symbols, Expire(r) PROVE m \in Sent(s)
    <3>1. /\ queue[r] \in Seq(Message) /\ queue[r] # <<>>
          /\ topic' = topic /\ queue' = [queue EXCEPT ![r] = Tail(@)]
      BY <2>3 DEF Expire, IngestTypes
    <3>2. ASSUME NEW k \in 1..Len(queue'[s]), m = queue'[s][k] PROVE m \in Sent(s)
      <4>1. CASE r = s
        <5>1. k + 1 \in 1..Len(queue[s]) /\ m = queue[s][k + 1]
          BY <3>1, <3>2, <4>1, TailOf DEF IngestTypes
        <5> QED
          BY <5>1 DEF Sent
      <4>2. CASE r # s
        BY <3>1, <3>2, <4>2 DEF Sent, IngestTypes
      <4> QED
        BY <4>1, <4>2
    <3> QED
      BY <3>1, <3>2 DEF Sent
  <2>4. CASE IngesterCrash \/ IngesterStart
    BY <1>2, <2>4 DEF IngesterCrash, IngesterStart, Sent
  <2>5. ASSUME NEW r \in Symbols, Trade(r) PROVE Numbered(m, s)'
    <3> DEFINE new == [sec |-> time, seq |-> NextSeq(r)]
    <3>1. /\ topic' = topic
          /\ queue' = IF Full THEN queue ELSE [queue EXCEPT ![r] = Append(@, new)]
      BY <2>5 DEF Trade
    <3>2. r = s /\ m = new
      <4>1. PICK k \in 1..Len(queue'[s]) : m = queue'[s][k]
        BY <1>2, <3>1 DEF Sent
      <4>2. ~ Full /\ r = s
        BY <1>2, <3>1, <4>1 DEF Sent, IngestTypes
      <4>3. queue'[s] = Append(queue[s], new) /\ queue[s] \in Seq(Message)
        BY <3>1, <4>2 DEF IngestTypes
      <4> HIDE DEF new
      <4>4. k \notin 1..Len(queue[s])
        BY <1>2, <4>1, <4>3 DEF Sent
      <4> QED
        BY <4>1, <4>2, <4>3, <4>4
    <3>3. m.sec = time /\ m.seq = NextSeq(s)
      BY <3>2
    <3>4. /\ trades' = trades + 1 /\ UNCHANGED <<source, time, startedAt>>
          /\ seqState'[s] = [sec |-> time, cnt |-> Counter(s)]
      BY <2>5, <3>2 DEF Trade, IngestTypes
    <3>5. /\ time \in Nat /\ trades \in Nat /\ Counter(s) \in Nat
          /\ SeqPerSec \in Nat /\ SeqPerSec >= 1 /\ time * SeqPerSec \in Nat
      BY TimesAssumption, IngestBoundsAssumption, SeqType DEF IngestTypes, Seconds
    <3> HIDE DEF new
    <3>6. CASE source = "upbit"
      BY <3>3, <3>4, <3>5, <3>6 DEF Numbered, NextSeq
    <3>7. CASE source # "upbit"
      <4>1. /\ time * SeqPerSec <= NextSeq(s)
            /\ NextSeq(s) <= time * SeqPerSec + (SeqPerSec - 1)
            /\ NextSeq(s) <= time * SeqPerSec + Counter(s)
        BY <3>5, <3>7 DEF NextSeq
      <4> QED
        BY <3>3, <3>4, <3>5, <3>7, <4>1 DEF Numbered
    <3> QED
      BY <3>6, <3>7
  <2> QED
    BY <1>2, <2>1, <2>2, <2>3, <2>4, <2>5, Zenon
       DEF Next, IngestNext, vars, ingestVars, Elapse, SinkRead, CandleRead,
           SinkInsert, SinkCommit, CandleInsert, CandleCommit, ReaderCrash
<1> QED
  BY <1>1, <1>2

LEMMA OrderStep ==
  IngestTypes /\ Made /\ Ordered /\ KeysAreUnique /\ [Next]_vars
    => Ordered' /\ KeysAreUnique'
<1> SUFFICES ASSUME IngestTypes, Made, Ordered, KeysAreUnique, [Next]_vars
             PROVE  Ordered' /\ KeysAreUnique'
  OBVIOUS
<1>a. ASSUME NEW s \in Symbols
      PROVE  /\ queue[s] \in Seq(Message) /\ topic[s] \in Seq(Message)
             /\ \A k \in 1..Len(queue[s]) : queue[s][k] \in Message /\ queue[s][k] \in Sent(s)
             /\ \A i \in 1..Len(topic[s]) : topic[s][i] \in Message /\ topic[s][i] \in Sent(s)
  BY DEF IngestTypes, Sent
<1>1. CASE UNCHANGED <<topic, queue, startedAt>>
  BY <1>1, Zenon DEF Ordered, KeysAreUnique
<1>2. ASSUME NEW s \in Symbols, Trade(s) PROVE Ordered' /\ KeysAreUnique'
  <2> DEFINE new == [sec |-> time, seq |-> NextSeq(s)]
  <2>1. /\ UNCHANGED <<topic, startedAt>>
        /\ queue' = IF Full THEN queue ELSE [queue EXCEPT ![s] = Append(@, new)]
    BY <1>2 DEF Trade
  <2>2. ASSUME NEW m \in Message, m \in Sent(s) PROVE Apart(m, new, startedAt)
    BY <1>2, <2>2, NewMessage DEF Made
  <2> HIDE DEF new
  <2>3. ASSUME NEW r \in Symbols, NEW k \in 1..Len(queue'[r])
        PROVE  \/ k \in 1..Len(queue[r]) /\ queue'[r][k] = queue[r][k]
                  /\ \A j \in 1..(k - 1) : queue'[r][j] = queue[r][j]
               \/ r = s /\ queue'[r][k] = new /\ k = Len(queue[r]) + 1
                  /\ \A j \in 1..(k - 1) : j \in 1..Len(queue[r]) /\ queue'[r][j] = queue[r][j]
    <3>1. CASE Full \/ r # s
      BY <2>1, <3>1 DEF IngestTypes
    <3>2. CASE ~ Full /\ r = s
      <4>1. queue'[r] = Append(queue[r], new) /\ queue[r] \in Seq(Message)
        BY <2>1, <3>2 DEF IngestTypes
      <4> QED
        BY <3>2, <4>1
    <3> QED
      BY <3>1, <3>2
  <2>4. ASSUME NEW r \in Symbols, NEW k \in 1..Len(queue'[r])
        PROVE  /\ \A i \in 1..Len(topic[r]) : Apart(topic[r][i], queue'[r][k], startedAt)
               /\ \A j \in 1..(k - 1) : Apart(queue'[r][j], queue'[r][k], startedAt)
    <3>1. CASE k \in 1..Len(queue[r]) /\ queue'[r][k] = queue[r][k]
               /\ \A j \in 1..(k - 1) : queue'[r][j] = queue[r][j]
      BY <3>1 DEF Ordered
    <3>2. CASE r = s /\ queue'[r][k] = new /\ k = Len(queue[r]) + 1
               /\ \A j \in 1..(k - 1) : j \in 1..Len(queue[r]) /\ queue'[r][j] = queue[r][j]
      BY <3>2, <2>2, <1>a
    <3> QED
      BY <2>3, <3>1, <3>2
  <2>5. Ordered'
    BY <2>1, <2>4 DEF Ordered
  <2>6. KeysAreUnique'
    BY <2>1, Zenon DEF KeysAreUnique
  <2> QED
    BY <2>5, <2>6
<1>3. ASSUME NEW s \in Symbols, Deliver(s) PROVE Ordered' /\ KeysAreUnique'
  <2>1. /\ queue[s] # <<>> /\ startedAt' = startedAt
        /\ topic' = [topic EXCEPT ![s] = Append(@, Head(queue[s]))]
        /\ queue' = [queue EXCEPT ![s] = Tail(@)]
    BY <1>3 DEF Deliver
  <2>2. /\ topic'[s] = Append(topic[s], queue[s][1]) /\ queue'[s] = Tail(queue[s])
        /\ 1 \in 1..Len(queue[s]) /\ queue[s][1] \in Message
        /\ Len(topic'[s]) = Len(topic[s]) + 1 /\ topic'[s][Len(topic[s]) + 1] = queue[s][1]
        /\ \A i \in 1..Len(topic[s]) : topic'[s][i] = topic[s][i]
        /\ Len(topic[s]) \in Nat
    BY <2>1, <1>a DEF IngestTypes
  <2>3. \A k \in 1..Len(queue'[s]) :
          k + 1 \in 1..Len(queue[s]) /\ queue'[s][k] = queue[s][k + 1]
    BY <2>1, <1>a, TailOf DEF IngestTypes
  <2>4. \A r \in Symbols : r # s => topic'[r] = topic[r] /\ queue'[r] = queue[r]
    BY <2>1 DEF IngestTypes
  <2>5. ASSUME NEW k \in 1..Len(queue'[s])
        PROVE  /\ \A i \in 1..Len(topic'[s]) : Apart(topic'[s][i], queue'[s][k], startedAt)
               /\ \A j \in 1..(k - 1) : Apart(queue'[s][j], queue'[s][k], startedAt)
    <3>1. k + 1 \in 1..Len(queue[s]) /\ queue'[s][k] = queue[s][k + 1] /\ k \in Nat
      BY <2>3
    <3>2. ASSUME NEW i \in 1..Len(topic'[s])
          PROVE  Apart(topic'[s][i], queue'[s][k], startedAt)
      <4>1. CASE i \in 1..Len(topic[s])
        BY <4>1, <3>1, <2>2 DEF Ordered
      <4>2. CASE i = Len(topic[s]) + 1
        <5>1. 1 \in 1..((k + 1) - 1)
          BY <3>1
        <5>2. Apart(queue[s][1], queue[s][k + 1], startedAt)
          BY <5>1, <3>1 DEF Ordered
        <5> QED
          BY <4>2, <5>2, <3>1, <2>2
      <4> QED
        BY <4>1, <4>2, <2>2
    <3>3. ASSUME NEW j \in 1..(k - 1) PROVE Apart(queue'[s][j], queue'[s][k], startedAt)
      <4>1. j \in 1..Len(queue'[s]) /\ j + 1 \in 1..((k + 1) - 1)
        BY <3>1
      <4>2. queue'[s][j] = queue[s][j + 1]
        BY <4>1, <2>3
      <4>3. Apart(queue[s][j + 1], queue[s][k + 1], startedAt)
        BY <4>1, <3>1 DEF Ordered
      <4> QED
        BY <4>2, <4>3, <3>1
    <3> QED
      BY <3>2, <3>3
  <2>6. Ordered'
    BY <2>1, <2>4, <2>5 DEF Ordered
  <2>7. ASSUME NEW r \in Symbols, NEW j \in 1..Len(topic'[r]), NEW i \in 1..(j - 1)
        PROVE  Apart(topic'[r][i], topic'[r][j], startedAt)
    <3>1. CASE r # s
      BY <3>1, <2>4 DEF KeysAreUnique
    <3>2. CASE r = s /\ j \in 1..Len(topic[s])
      <4>1. i \in 1..Len(topic[s])
        BY <3>2, <2>2
      <4> QED
        BY <3>2, <4>1, <2>2 DEF KeysAreUnique
    <3>3. CASE r = s /\ j = Len(topic[s]) + 1
      <4>1. i \in 1..Len(topic[s])
        BY <3>3, <2>2
      <4> QED
        BY <3>3, <4>1, <2>2 DEF Ordered
    <3> QED
      BY <3>1, <3>2, <3>3, <2>2
  <2>8. KeysAreUnique'
    BY <2>1, <2>7 DEF KeysAreUnique
  <2> QED
    BY <2>6, <2>8
<1>4. ASSUME NEW s \in Symbols, Expire(s) PROVE Ordered' /\ KeysAreUnique'
  <2>1. /\ queue[s] # <<>> /\ UNCHANGED <<topic, startedAt>>
        /\ queue' = [queue EXCEPT ![s] = Tail(@)]
    BY <1>4 DEF Expire, historyVars
  <2>2. \A k \in 1..Len(queue'[s]) :
          k + 1 \in 1..Len(queue[s]) /\ queue'[s][k] = queue[s][k + 1]
    BY <2>1, <1>a, TailOf DEF IngestTypes
  <2>3. \A r \in Symbols : r # s => queue'[r] = queue[r]
    BY <2>1 DEF IngestTypes
  <2>4. ASSUME NEW k \in 1..Len(queue'[s])
        PROVE  /\ \A i \in 1..Len(topic[s]) : Apart(topic[s][i], queue'[s][k], startedAt)
               /\ \A j \in 1..(k - 1) : Apart(queue'[s][j], queue'[s][k], startedAt)
    <3>1. k + 1 \in 1..Len(queue[s]) /\ queue'[s][k] = queue[s][k + 1] /\ k \in Nat
      BY <2>2
    <3>2. ASSUME NEW j \in 1..(k - 1) PROVE Apart(queue'[s][j], queue'[s][k], startedAt)
      <4>1. j \in 1..Len(queue'[s]) /\ j + 1 \in 1..((k + 1) - 1)
        BY <3>1
      <4>2. queue'[s][j] = queue[s][j + 1]
        BY <4>1, <2>2
      <4>3. Apart(queue[s][j + 1], queue[s][k + 1], startedAt)
        BY <4>1, <3>1 DEF Ordered
      <4> QED
        BY <4>2, <4>3, <3>1
    <3>3. \A i \in 1..Len(topic[s]) : Apart(topic[s][i], queue'[s][k], startedAt)
      BY <3>1 DEF Ordered
    <3> QED
      BY <3>2, <3>3
  <2>5. Ordered'
    BY <2>1, <2>3, <2>4 DEF Ordered
  <2>6. KeysAreUnique'
    BY <2>1, Zenon DEF KeysAreUnique
  <2> QED
    BY <2>5, <2>6
<1>5. CASE IngesterCrash \/ IngesterStart
  <2>1. \A r \in Symbols : queue'[r] = <<>>
    BY <1>5 DEF IngesterCrash, IngesterStart
  <2>2. topic' = topic /\ startedAt \subseteq startedAt'
    BY <1>5 DEF IngesterCrash, IngesterStart, historyVars
  <2>3. Ordered'
    BY <2>1 DEF Ordered
  <2>4. KeysAreUnique'
    BY <2>2, ZenonT(40) DEF KeysAreUnique, Apart
  <2> QED
    BY <2>3, <2>4
<1> QED
  BY <1>1, <1>2, <1>3, <1>4, <1>5, Zenon
     DEF Next, IngestNext, vars, ingestVars, historyVars, Elapse, SinkRead, CandleRead,
         SinkInsert, SinkCommit, CandleInsert, CandleCommit, ReaderCrash

-----------------------------------------------------------------------------
(***************************************************************************)
(* The theorems.                                                           *)
(***************************************************************************)
MarketInv ==
  Flags /\ Sinks /\ NoTickLost /\ Closes /\ Wholes /\ Watched /\ Keys

LEMMA MarketInvariant == Spec => []MarketInv
<1>1. Init => MarketInv
  BY FlagsInit, IngestTypesInit, ReaderTypesInit, SinkInit, CandleInit, WatchdogInit,
     KeysInit, Zenon DEF MarketInv, Sinks
<1>2. MarketInv /\ [Next]_vars => MarketInv'
  BY FlagsStep, IngestTypesStep, ReaderTypesStep, SinkStep, ClosesStep, WholesStep,
     WatchdogStep, MadeStep, OrderStep, Zenon DEF MarketInv, Sinks, Keys
<1> QED
  BY <1>1, <1>2, PTL DEF Spec

(***************************************************************************)
(* Types, and offsets that stay inside their partition: a committed offset *)
(* never passes what was read, nor that what was delivered.                *)
(***************************************************************************)
THEOREM MarketTypes == Spec => []TypeOK
<1>1. MarketInv => TypeOK
  BY Zenon DEF MarketInv, Sinks, Flags, IngestTypes, ReaderTypes, TypeOK
<1> QED
  BY <1>1, MarketInvariant, PTL

(***************************************************************************)
(* The sinks commit an offset only when its tick is in the table           *)
(* (tick_clickhouse.py:39-40): nothing is lost to a crash between the two. *)
(***************************************************************************)
THEOREM NothingCommittedIsLost == Spec => []NoTickLost
<1>1. MarketInv => NoTickLost
  BY Zenon DEF MarketInv
<1> QED
  BY <1>1, MarketInvariant, PTL

(***************************************************************************)
(* Whatever restarts and late ticks do to a stored candle, its close is    *)
(* not older than any committed tick of its minute (candle.py:81-88).      *)
(***************************************************************************)
THEOREM ClosesStayCurrent == Spec => []ClosesAreCurrent
<1>1. MarketInv => ClosesAreCurrent
  BY Zenon DEF MarketInv, Closes
<1> QED
  BY <1>1, MarketInvariant, PTL

(***************************************************************************)
(* Without a restart and a late tick a stored candle has every committed   *)
(* tick of its minute, although candles behind the watermark are dropped   *)
(* (candle.py:89-92).                                                      *)
(***************************************************************************)
THEOREM CandlesStayWhole == Spec => []CandlesAreWhole
<1>1. MarketInv => CandlesAreWhole
  BY Zenon DEF MarketInv, Wholes
<1> QED
  BY <1>1, MarketInvariant, PTL

(***************************************************************************)
(* A restart or a late tick costs a candle first ticks only, and nothing   *)
(* else costs it any (candle.py:66-92).                                    *)
(***************************************************************************)
THEOREM CandlesKeepTicks == Spec => []CandlesKeepTheirTicks
<1>1. MarketInv => CandlesKeepTheirTicks
  BY Zenon DEF MarketInv, Closes, Wholes, CandlesKeepTheirTicks
<1> QED
  BY <1>1, MarketInvariant, PTL

(***************************************************************************)
(* For any limits of time and of the queue, a producer that delivers       *)
(* nothing ends its process (kafka_watchdog.py:30-37).                     *)
(***************************************************************************)
THEOREM HungProducersEnd == Spec => []HungProducerEnds
<1>1. MarketInv => HungProducerEnds
  BY Zenon DEF MarketInv, Watched
<1> QED
  BY <1>1, MarketInvariant, PTL

(***************************************************************************)
(* For any width of the counter, a key is used twice only in a second in   *)
(* which a process started or the counter has reached its width            *)
(* (stock_kiwoom.py:78-82).                                                *)
(***************************************************************************)
THEOREM KeysStayUnique == Spec => []KeysAreUnique
<1>1. MarketInv => KeysAreUnique
  BY Zenon DEF MarketInv, Keys
<1> QED
  BY <1>1, MarketInvariant, PTL
=============================================================================
