--------------------------- MODULE OrderPipeline ---------------------------
(***************************************************************************)
(* The streaming order path: a request becomes a row of orders and a row   *)
(* of order_outbox (common/order_writer.py), a relay publishes the outbox  *)
(* to the topic orders (trading/relay/order_relay.py), the matching engine *)
(* joins orders with market ticks and publishes executions                 *)
(* (trading/engine/matching.py), and the portfolio updater settles each    *)
(* execution in Postgres (trading/portfolio/updater.py).                   *)
(*                                                                         *)
(* Postgres and the Kafka topics survive every crash; what a process has   *)
(* read, buffered or locked does not.  Both topics are partitioned by      *)
(* symbol.  The engine and the updater run once, the relay any number of   *)
(* times.                                                                  *)
(***************************************************************************)
EXTENDS OrderTerms, Sequences, FiniteSets

CONSTANTS
  Cash0, Held0,  \* seeded balances
  Relays,        \* instances of the relay
  Batch,         \* the relay's LIMIT
  MaxRestarts,   \* bound: crashes and stops of all processes together
  MaxExpiries    \* bound: messages the producers give up on

ASSUME OrderIdsAssumption == IsFiniteSet(OrderIds)
ASSUME BalancesAssumption ==
  Cash0 \in [Accounts -> Nat] /\ Held0 \in [Accounts -> [Symbols -> Nat]]
ASSUME BatchAssumption == Batch \in Nat \ {0}
ASSUME BoundsAssumption == MaxRestarts \in Nat /\ MaxExpiries \in Nat

VARIABLES
  form, status, outboxId, published,                     \* orders, order_outbox
  cash, held, executions,                                \* the ledger
  batch, sent,                                           \* relays
  orderLog, execLog,                                     \* topics
  engineUp, latestPrice, pending, limitOrders, buffer,   \* engine memory
  orderPos, orderCommitted,                              \* engine offsets
  execPos, execCommitted,                                \* updater
  restarts, expiries                                     \* faults so far

orderVars   == <<form, status, outboxId, published>>
ledgerVars  == <<cash, held, executions>>
relayVars   == <<batch, sent>>
engineVars  == <<engineUp, latestPrice, pending, limitOrders, buffer,
                 orderPos, orderCommitted>>
updaterVars == <<execPos, execCommitted>>
vars == <<orderVars, ledgerVars, relayVars, orderLog, execLog, engineVars,
          updaterVars, restarts, expiries>>

(***************************************************************************)
(* Rows and messages.  A message of orders is the immutable payload, so an *)
(* order id stands for it.  An execution message carries the order id, of  *)
(* which the execution id is a function (uuid5), and the price; the rest   *)
(* follows from the order.                                                 *)
(***************************************************************************)
Placed == {o \in OrderIds : status[o] # "ABSENT"}
Fills  == [order : OrderIds, price : Prices]

(***************************************************************************)
(* An order the engine keeps waiting, with where it came from: offset 0    *)
(* for a row read at start-up, i for the message at offset i.              *)
(***************************************************************************)
Entries == [order : OrderIds, at : Nat]

(***************************************************************************)
(* A definition named ...Bug is the definition that follows it with a      *)
(* plausible mistake.  Nothing uses it: it shows that a property notices.  *)
(***************************************************************************)
NoFaultLeft == restarts >= MaxRestarts

Init ==
  /\ form = [o \in OrderIds |-> NoForm]
  /\ status = [o \in OrderIds |-> "ABSENT"]
  /\ outboxId = [o \in OrderIds |-> 0]
  /\ published = {}
  /\ cash = Cash0
  /\ held = Held0
  /\ executions = {}
  /\ batch = [r \in Relays |-> {}]
  /\ sent = [r \in Relays |-> {}]
  /\ orderLog = [s \in Symbols |-> <<>>]
  /\ execLog = [s \in Symbols |-> <<>>]
  /\ engineUp = FALSE
  /\ latestPrice = [s \in Symbols |-> NoPrice]
  /\ pending = [s \in Symbols |-> {}]
  /\ limitOrders = [s \in Symbols |-> {}]
  /\ buffer = [s \in Symbols |-> <<>>]
  /\ orderPos = [s \in Symbols |-> 0]
  /\ orderCommitted = [s \in Symbols |-> 0]
  /\ execPos = [s \in Symbols |-> 0]
  /\ execCommitted = [s \in Symbols |-> 0]
  /\ restarts = 0
  /\ expiries = 0

-----------------------------------------------------------------------------
(***************************************************************************)
(* place_order: the order and its outbox row in one transaction.           *)
(***************************************************************************)
PlaceOrder(o, f) ==
  /\ status[o] = "ABSENT"
  /\ form' = [form EXCEPT ![o] = f]
  /\ status' = [status EXCEPT ![o] = "PENDING"]
  /\ outboxId' = [outboxId EXCEPT ![o] = Cardinality(Placed) + 1]
  /\ UNCHANGED <<published, ledgerVars, relayVars, orderLog, execLog,
                 engineVars, updaterVars, restarts, expiries>>

-----------------------------------------------------------------------------
(***************************************************************************)
(* The relay: one transaction selects and locks the oldest rows nobody     *)
(* else has locked, produces them, flushes, and marks them published.      *)
(***************************************************************************)
Unlocked == (Placed \ published) \ UNION {batch[r] : r \in Relays}

Oldest(rows) ==
  {o \in rows : Cardinality({p \in rows : outboxId[p] < outboxId[o]}) < Batch}

RelaySelect(r) ==
  /\ batch[r] = {}
  /\ Unlocked # {}
  /\ batch' = [batch EXCEPT ![r] = Oldest(Unlocked)]
  /\ UNCHANGED <<orderVars, ledgerVars, sent, orderLog, execLog, engineVars,
                 updaterVars, restarts, expiries>>

(***************************************************************************)
(* The producer hands over the rows of a partition in the order of their   *)
(* ids.  Each is delivered, or given up on after message.timeout.ms, which *)
(* ends its part of the flush just as well: nobody asks for the report.    *)
(***************************************************************************)
NextToSend(r, o) ==
  /\ o \in batch[r] \ sent[r]
  /\ \A p \in batch[r] \ sent[r] :
       form[p].symbol = form[o].symbol => outboxId[o] <= outboxId[p]

RelayDeliver(r, o) ==
  /\ NextToSend(r, o)
  /\ sent' = [sent EXCEPT ![r] = @ \union {o}]
  /\ orderLog' = [orderLog EXCEPT ![form[o].symbol] = Append(@, o)]
  /\ UNCHANGED <<orderVars, ledgerVars, batch, execLog, engineVars,
                 updaterVars, restarts, expiries>>

RelayExpire(r, o) ==
  /\ NextToSend(r, o)
  /\ expiries < MaxExpiries
  /\ sent' = [sent EXCEPT ![r] = @ \union {o}]
  /\ expiries' = expiries + 1
  /\ UNCHANGED <<orderVars, ledgerVars, batch, orderLog, execLog, engineVars,
                 updaterVars, restarts>>

RelayCommit(r) ==
  /\ batch[r] # {}
  /\ sent[r] = batch[r]
  /\ published' = published \union batch[r]
  /\ batch' = [batch EXCEPT ![r] = {}]
  /\ sent' = [sent EXCEPT ![r] = {}]
  /\ UNCHANGED <<form, status, outboxId, ledgerVars, orderLog, execLog,
                 engineVars, updaterVars, restarts, expiries>>

(***************************************************************************)
(* A crash rolls the transaction back: the locks go, what was delivered    *)
(* stays delivered, and the rows will be selected again.                   *)
(***************************************************************************)
RelayCrash(r) ==
  /\ ~ NoFaultLeft
  /\ batch[r] # {}
  /\ restarts' = restarts + 1
  /\ batch' = [batch EXCEPT ![r] = {}]
  /\ sent' = [sent EXCEPT ![r] = {}]
  /\ UNCHANGED <<orderVars, ledgerVars, orderLog, execLog, engineVars,
                 updaterVars, expiries>>

-----------------------------------------------------------------------------
(***************************************************************************)
(* The matching engine.                                                    *)
(***************************************************************************)
ToExecutions(entries, p) ==
  [i \in 1..Len(entries) |-> [order |-> entries[i].order, price |-> p]]

\* The orders of a list of the engine, in the order the list holds them: the
\* rows read at start-up in any order, then the messages by offset.
Listings(entries) ==
  { q \in [1..Cardinality(entries) -> entries] :
      /\ {q[i] : i \in DOMAIN q} = entries
      /\ \A i, j \in DOMAIN q : i < j => q[i].at <= q[j].at }

\* Relies on the committed offsets alone.
ReseededBug(type, s) == {}

\* load_pending_orders, for one type and symbol.
Reseeded(type, s) ==
  { [order |-> o, at |-> 0] :
      o \in {x \in OrderIds : /\ status[x] = "PENDING"
                              /\ form[x].type = type
                              /\ form[x].symbol = s} }

EngineStart ==
  /\ ~ engineUp
  /\ engineUp' = TRUE
  /\ pending' = [s \in Symbols |-> Reseeded("MARKET", s)]
  /\ limitOrders' = [s \in Symbols |-> Reseeded("LIMIT", s)]
  /\ orderPos' = orderCommitted
  /\ UNCHANGED <<orderVars, ledgerVars, relayVars, orderLog, execLog,
                 latestPrice, buffer, orderCommitted, updaterVars, restarts,
                 expiries>>

(***************************************************************************)
(* A message of market.ticks.  Every waiting MARKET order executes, then   *)
(* every waiting LIMIT order the price crosses.  Ticks read again after a  *)
(* restart are ticks at some price, so their topic needs no log here.      *)
(***************************************************************************)
\* Never looks at the waiting LIMIT orders again.
TickBug(s, p) ==
  /\ engineUp
  /\ latestPrice' = [latestPrice EXCEPT ![s] = p]
  /\ \E m \in Listings(pending[s]) :
       buffer' = [buffer EXCEPT ![s] = @ \o ToExecutions(m, p)]
  /\ pending' = [pending EXCEPT ![s] = {}]
  /\ UNCHANGED <<orderVars, ledgerVars, relayVars, orderLog, execLog,
                 engineUp, limitOrders, orderPos, orderCommitted, updaterVars,
                 restarts, expiries>>

Tick(s, p) ==
  LET crossed == {e \in limitOrders[s] : Crosses(form[e.order], p)}
  IN  /\ engineUp
      /\ latestPrice' = [latestPrice EXCEPT ![s] = p]
      /\ \E m \in Listings(pending[s]), l \in Listings(crossed) :
           buffer' = [buffer EXCEPT ![s] = @ \o ToExecutions(m \o l, p)]
      /\ pending' = [pending EXCEPT ![s] = {}]
      /\ limitOrders' = [limitOrders EXCEPT ![s] = @ \ crossed]
      /\ UNCHANGED <<orderVars, ledgerVars, relayVars, orderLog, execLog,
                     engineUp, orderPos, orderCommitted, updaterVars,
                     restarts, expiries>>

(***************************************************************************)
(* A message of orders: executed against the last tick, or kept waiting.   *)
(***************************************************************************)
\* Ignores the limit when the order arrives.
ExecutableBug(f, p) == p # NoPrice

Executable(f, p) == p # NoPrice /\ Crosses(f, p)

\* Keeps no MARKET order that arrives before the first tick.
ConsumeOrderBug(s) ==
  /\ engineUp
  /\ orderPos[s] < Len(orderLog[s])
  /\ LET o == orderLog[s][orderPos[s] + 1]
         p == latestPrice[s]
     IN  \/ /\ Executable(form[o], p)
            /\ buffer' = [buffer EXCEPT
                 ![s] = Append(@, [order |-> o, price |-> p])]
            /\ UNCHANGED limitOrders
         \/ /\ ~ Executable(form[o], p)
            /\ limitOrders' = [limitOrders EXCEPT ![s] = @ \union
                 {e \in {[order |-> o, at |-> orderPos[s] + 1]} :
                    form[o].type = "LIMIT"}]
            /\ UNCHANGED buffer
  /\ orderPos' = [orderPos EXCEPT ![s] = @ + 1]
  /\ UNCHANGED <<orderVars, ledgerVars, relayVars, orderLog, execLog,
                 engineUp, latestPrice, pending, orderCommitted, updaterVars,
                 restarts, expiries>>

ConsumeOrder(s) ==
  /\ engineUp
  /\ orderPos[s] < Len(orderLog[s])
  /\ LET at == orderPos[s] + 1
         o  == orderLog[s][at]
         p  == latestPrice[s]
         e  == [order |-> o, at |-> at]
     IN  /\ orderPos' = [orderPos EXCEPT ![s] = at]
         /\ \/ /\ Executable(form[o], p)
               /\ buffer' = [buffer EXCEPT
                    ![s] = Append(@, [order |-> o, price |-> p])]
               /\ UNCHANGED <<pending, limitOrders>>
            \/ /\ ~ Executable(form[o], p)
               /\ form[o].type = "MARKET"
               /\ pending' = [pending EXCEPT ![s] = @ \union {e}]
               /\ UNCHANGED <<buffer, limitOrders>>
            \/ /\ ~ Executable(form[o], p)
               /\ form[o].type = "LIMIT"
               /\ limitOrders' = [limitOrders EXCEPT ![s] = @ \union {e}]
               /\ UNCHANGED <<buffer, pending>>
  /\ UNCHANGED <<orderVars, ledgerVars, relayVars, orderLog, execLog,
                 engineUp, latestPrice, orderCommitted, updaterVars,
                 restarts, expiries>>

(***************************************************************************)
(* The producer's own thread delivers what execute() buffered, or gives up *)
(* on it after message.timeout.ms.                                         *)
(***************************************************************************)
EngineDeliver(s) ==
  /\ buffer[s] # <<>>
  /\ execLog' = [execLog EXCEPT ![s] = Append(@, Head(buffer[s]))]
  /\ buffer' = [buffer EXCEPT ![s] = Tail(@)]
  /\ UNCHANGED <<orderVars, ledgerVars, relayVars, orderLog, engineUp,
                 latestPrice, pending, limitOrders, orderPos, orderCommitted,
                 updaterVars, restarts, expiries>>

EngineExpire(s) ==
  /\ buffer[s] # <<>>
  /\ expiries < MaxExpiries
  /\ buffer' = [buffer EXCEPT ![s] = Tail(@)]
  /\ expiries' = expiries + 1
  /\ UNCHANGED <<orderVars, ledgerVars, relayVars, orderLog, execLog,
                 engineUp, latestPrice, pending, limitOrders, orderPos,
                 orderCommitted, updaterVars, restarts>>

(***************************************************************************)
(* Once a second, after any message: flush the executions, then commit the *)
(* offsets.  A crash between the two is EngineDeliver up to an empty       *)
(* buffer and then EngineCrash.                                            *)
(***************************************************************************)
EngineCommit ==
  /\ engineUp
  /\ execLog' = [s \in Symbols |-> execLog[s] \o buffer[s]]
  /\ buffer' = [s \in Symbols |-> <<>>]
  /\ orderCommitted' = orderPos
  /\ UNCHANGED <<orderVars, ledgerVars, relayVars, orderLog, engineUp,
                 latestPrice, pending, limitOrders, orderPos, updaterVars,
                 restarts, expiries>>

EngineForgets ==
  /\ engineUp
  /\ ~ NoFaultLeft
  /\ restarts' = restarts + 1
  /\ engineUp' = FALSE
  /\ latestPrice' = [s \in Symbols |-> NoPrice]
  /\ pending' = [s \in Symbols |-> {}]
  /\ limitOrders' = [s \in Symbols |-> {}]
  /\ buffer' = [s \in Symbols |-> <<>>]
  /\ orderPos' = [s \in Symbols |-> 0]
  /\ UNCHANGED <<orderVars, ledgerVars, relayVars, orderLog, execLog,
                 updaterVars, expiries>>

EngineCrash == EngineForgets /\ UNCHANGED orderCommitted

\* The finally block: flush(5) may leave executions behind, and the offsets
\* are committed all the same.
EngineStop == EngineForgets /\ orderCommitted' = orderPos

-----------------------------------------------------------------------------
(***************************************************************************)
(* The portfolio updater.  apply_execution is one transaction.  After it   *)
(* consumer.commit(msg) asks for the offset to be committed and does not   *)
(* wait: the broker takes the requests of a partition in their order, any  *)
(* number of messages behind, and a crash loses those it has not taken.    *)
(***************************************************************************)
Executed(o) == \E e \in executions : e.order = o

\* Does not look at what ON CONFLICT DO NOTHING did.
ApplyDuplicateBug(e) ==
  /\ Executed(e.order)
  /\ Covered(form[e.order], e.price, cash, held)
  /\ cash' = CashAfter(form[e.order], e.price, cash)
  /\ held' = HeldAfter(form[e.order], held)
  /\ UNCHANGED <<status, executions>>

ApplyDuplicate(e) ==
  /\ Executed(e.order)
  /\ UNCHANGED <<status, ledgerVars>>

ApplyReject(e) ==
  /\ ~ Executed(e.order)
  /\ ~ Covered(form[e.order], e.price, cash, held)
  /\ status' = [status EXCEPT ![e.order] =
                  IF @ = "PENDING" THEN "REJECTED" ELSE @]
  /\ UNCHANGED ledgerVars

\* Draws a fresh execution id for every message, as with uuid4.
ApplyFillIdBug(e) ==
  /\ Covered(form[e.order], e.price, cash, held)
  /\ executions' = executions \union {e}
  /\ cash' = CashAfter(form[e.order], e.price, cash)
  /\ held' = HeldAfter(form[e.order], held)
  /\ status' = [status EXCEPT ![e.order] = "FILLED"]

ApplyFill(e) ==
  /\ ~ Executed(e.order)
  /\ Covered(form[e.order], e.price, cash, held)
  /\ executions' = executions \union {e}
  /\ cash' = CashAfter(form[e.order], e.price, cash)
  /\ held' = HeldAfter(form[e.order], held)
  /\ status' = [status EXCEPT ![e.order] = "FILLED"]

UpdaterApply(s) ==
  /\ execPos[s] < Len(execLog[s])
  /\ LET e == execLog[s][execPos[s] + 1]
     IN  ApplyDuplicate(e) \/ ApplyReject(e) \/ ApplyFill(e)
  /\ execPos' = [execPos EXCEPT ![s] = @ + 1]
  /\ UNCHANGED <<form, outboxId, published, relayVars, orderLog, execLog,
                 engineVars, execCommitted, restarts, expiries>>

UpdaterCommit(s) ==
  /\ execCommitted[s] < execPos[s]
  /\ execCommitted' = [execCommitted EXCEPT ![s] = @ + 1]
  /\ UNCHANGED <<orderVars, ledgerVars, relayVars, orderLog, execLog,
                 engineVars, execPos, restarts, expiries>>

UpdaterCrash ==
  /\ ~ NoFaultLeft
  /\ restarts' = restarts + 1
  /\ execPos' = execCommitted
  /\ UNCHANGED <<orderVars, ledgerVars, relayVars, orderLog, execLog,
                 engineVars, execCommitted, expiries>>

-----------------------------------------------------------------------------
RelayNext ==
  \E r \in Relays :
    \/ RelaySelect(r) \/ RelayCommit(r) \/ RelayCrash(r)
    \/ \E o \in OrderIds : RelayDeliver(r, o) \/ RelayExpire(r, o)

EngineNext ==
  \/ EngineStart \/ EngineCommit \/ EngineCrash \/ EngineStop
  \/ \E s \in Symbols :
       \/ \E p \in Prices : Tick(s, p)
       \/ ConsumeOrder(s) \/ EngineDeliver(s) \/ EngineExpire(s)

UpdaterNext ==
  \/ UpdaterCrash
  \/ \E s \in Symbols : UpdaterApply(s) \/ UpdaterCommit(s)

Next ==
  \/ \E o \in OrderIds, f \in Forms : PlaceOrder(o, f)
  \/ RelayNext
  \/ EngineNext
  \/ UpdaterNext

Spec == Init /\ [][Next]_vars
=============================================================================
