---------------------------- MODULE TickIngester ----------------------------
(***************************************************************************)
(* A tick ingester (streaming/ingester), its Kafka producer and the        *)
(* delivery watchdog (common/kafka_watchdog.py).  Trades that arrive on    *)
(* the WebSocket are given a sequence number and produced to a topic keyed *)
(* by symbol.  A process whose producer has delivered nothing for Stall    *)
(* ends itself, and docker starts it again.                                *)
(*                                                                         *)
(* A trade carries the second at which it arrives, and the clock never     *)
(* goes back.  A lost connection means trades that never arrive.           *)
(***************************************************************************)
EXTENDS Integers, Sequences, Functions

CONSTANTS
  Symbols,
  Sources,        \* subset of {"upbit", "kiwoom"}
  SeqPerSec,      \* _SEQ_PER_SEC
  Stall,          \* DELIVERY_STALL_SEC
  QueueLimit,     \* messages in the producer's local queue
  LastTime,       \* bound: seconds are 0..LastTime
  MaxTrades,      \* bound: trades
  MaxExpiries,    \* bound: messages the producer gives up on
  MaxCrashes      \* bound: crashes of the ingester

ASSUME SourcesAssumption == Sources \subseteq {"upbit", "kiwoom"}
ASSUME TimesAssumption ==
  /\ SeqPerSec \in Nat \ {0} /\ Stall \in Nat
  /\ QueueLimit \in Nat /\ LastTime \in Nat
ASSUME IngestBoundsAssumption ==
  MaxTrades \in Nat /\ MaxExpiries \in Nat /\ MaxCrashes \in Nat

VARIABLES
  source, time,
  trades,              \* trades so far
  up,                  \* the process runs
  seqState,            \* _seq_state: second and counter of each symbol
  queue,               \* producer: not yet delivered, by partition
  topic,               \* delivered, by partition
  reported,            \* a success is waiting for the next poll
  pending, lastOk,     \* the watchdog
  expiries, crashes,
  startedAt,           \* history: seconds at which a process started,
  lastQueued,          \* of the last message queued and the last delivered
  deliveredAt

watchdogVars == <<reported, pending, lastOk>>
historyVars == <<startedAt, lastQueued, deliveredAt>>
ingestVars == <<source, time, trades, up, seqState, queue, topic, watchdogVars,
                expiries, crashes, historyVars>>

Seconds == 0..LastTime
NoTime == -1
Never == [sec |-> NoTime, cnt |-> 0]
Message == [sec : Seconds, seq : Nat]

IngestInit ==
  /\ source \in Sources
  /\ time = 0
  /\ trades = 0
  /\ up = TRUE
  /\ seqState = [s \in Symbols |-> Never]
  /\ queue = [s \in Symbols |-> <<>>]
  /\ topic = [s \in Symbols |-> <<>>]
  /\ reported = FALSE /\ pending = 0 /\ lastOk = 0
  /\ expiries = 0 /\ crashes = 0
  /\ startedAt = {0} /\ lastQueued = NoTime /\ deliveredAt = NoTime

-----------------------------------------------------------------------------
(***************************************************************************)
(* Sequence numbers.  Upbit sends one; for Kiwoom it is made of the second *)
(* and a counter of the process.  (A definition named ...Bug is the one    *)
(* that follows it with a plausible mistake; nothing uses it.)             *)
(***************************************************************************)
Counter(s) == IF seqState[s].sec = time THEN seqState[s].cnt + 1 ELSE 0

\* Does not count within the second.
NextSeqBug(s) == IF source = "upbit" THEN trades ELSE time * SeqPerSec

NextSeq(s) ==
  IF source = "upbit" THEN trades
  ELSE time * SeqPerSec
       + (IF Counter(s) < SeqPerSec THEN Counter(s) ELSE SeqPerSec - 1)

(***************************************************************************)
(* A trade: produce (or drop it when the local queue is full), poll, which *)
(* hands over the successes so far, and ask the watchdog.                  *)
(***************************************************************************)
Full == FoldFunction(LAMBDA q, n : Len(q) + n, 0, queue) >= QueueLimit

Trade(s) ==
  /\ up /\ trades < MaxTrades
  /\ trades' = trades + 1
  /\ lastQueued' = IF Full THEN lastQueued ELSE time
  /\ seqState' = [seqState EXCEPT ![s] = [sec |-> time, cnt |-> Counter(s)]]
  /\ queue' = IF Full THEN queue
              ELSE [queue EXCEPT ![s] = Append(@, [sec |-> time, seq |-> NextSeq(s)])]
  /\ pending' = IF reported THEN 0 ELSE IF Full THEN pending ELSE pending + 1
  /\ lastOk' = IF reported THEN time ELSE lastOk
  /\ reported' = FALSE
  /\ up' = ~ (pending' > 0 /\ time - lastOk' > Stall)
  /\ UNCHANGED <<source, time, topic, expiries, crashes, startedAt, deliveredAt>>

-----------------------------------------------------------------------------
(***************************************************************************)
(* The producer's thread: a message is delivered, in order in each         *)
(* partition, or given up on.  Only a success resets the watchdog.  What   *)
(* is queued when the watchdog ends the process may be flushed.            *)
(***************************************************************************)
Deliver(s) ==
  /\ queue[s] # <<>>
  /\ topic' = [topic EXCEPT ![s] = Append(@, Head(queue[s]))]
  /\ queue' = [queue EXCEPT ![s] = Tail(@)]
  /\ reported' = TRUE
  /\ deliveredAt' = time
  /\ UNCHANGED <<source, time, trades, up, seqState, pending, lastOk, expiries,
                 crashes, startedAt, lastQueued>>

\* Takes the report of a failure for a sign of life.
ExpireBug(s) ==
  /\ queue[s] # <<>>
  /\ expiries < MaxExpiries
  /\ expiries' = expiries + 1
  /\ queue' = [queue EXCEPT ![s] = Tail(@)]
  /\ reported' = TRUE
  /\ UNCHANGED <<source, time, trades, up, seqState, topic, pending, lastOk,
                 crashes, historyVars>>

Expire(s) ==
  /\ queue[s] # <<>>
  /\ expiries < MaxExpiries
  /\ expiries' = expiries + 1
  /\ queue' = [queue EXCEPT ![s] = Tail(@)]
  /\ UNCHANGED <<source, time, trades, up, seqState, topic, watchdogVars,
                 crashes, historyVars>>

-----------------------------------------------------------------------------
IngesterCrash ==
  /\ up
  /\ crashes < MaxCrashes
  /\ crashes' = crashes + 1
  /\ up' = FALSE
  /\ queue' = [s \in Symbols |-> <<>>]
  /\ UNCHANGED <<source, time, trades, seqState, topic, watchdogVars, expiries,
                 historyVars>>

IngesterStart ==
  /\ ~ up
  /\ up' = TRUE
  /\ queue' = [s \in Symbols |-> <<>>]
  /\ seqState' = [s \in Symbols |-> Never]
  /\ reported' = FALSE /\ pending' = 0 /\ lastOk' = time
  /\ startedAt' = startedAt \union {time}
  /\ UNCHANGED <<source, time, trades, topic, expiries, crashes, lastQueued,
                 deliveredAt>>

Elapse ==
  /\ time < LastTime
  /\ time' = time + 1
  /\ UNCHANGED <<source, trades, up, seqState, queue, topic, watchdogVars,
                 expiries, crashes, historyVars>>

IngestNext ==
  \/ \E s \in Symbols : Trade(s) \/ Deliver(s) \/ Expire(s)
  \/ IngesterCrash \/ IngesterStart \/ Elapse
=============================================================================
