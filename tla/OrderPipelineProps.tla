------------------------- MODULE OrderPipelineProps -------------------------
(***************************************************************************)
(* What the streaming order path must guarantee, whatever crashes.         *)
(***************************************************************************)
EXTENDS OrderPipeline, Functions

(***************************************************************************)
(* The fairness of a deployment: relay, engine and updater are loops that  *)
(* never wait for each other and are restarted when they die (compose      *)
(* restart policy), and the market keeps trading every symbol.  Users owe  *)
(* nobody an order, nobody waits for the updater's asynchronous commits,   *)
(* and faults are never owed.                                              *)
(***************************************************************************)
Fairness ==
  /\ \A r \in Relays : /\ WF_vars(RelaySelect(r))
                       /\ WF_vars(\E o \in OrderIds : RelayDeliver(r, o))
                       /\ WF_vars(RelayCommit(r))
  /\ WF_vars(EngineStart)
  /\ WF_vars(EngineCommit)
  /\ \A s \in Symbols : /\ WF_vars(\E p \in Prices : Tick(s, p))
                        /\ WF_vars(ConsumeOrder(s))
                        /\ WF_vars(UpdaterApply(s))

FairSpec == Spec /\ Fairness

-----------------------------------------------------------------------------
\* Every variable has its type: in particular balances and holdings never go
\* below zero, the CHECK constraints of accounts and positions.
TypeOK ==
  /\ form \in [OrderIds -> Forms \union {NoForm}]
  /\ status \in [OrderIds -> {"ABSENT", "PENDING", "FILLED", "REJECTED"}]
  /\ outboxId \in [OrderIds -> Nat]
  /\ published \in SUBSET OrderIds
  /\ cash \in [Accounts -> Nat]
  /\ held \in [Accounts -> [Symbols -> Nat]]
  /\ executions \in SUBSET Fills
  /\ batch \in [Relays -> SUBSET OrderIds]
  /\ sent \in [Relays -> SUBSET OrderIds]
  /\ orderLog \in [Symbols -> Seq(OrderIds)]
  /\ execLog \in [Symbols -> Seq(Fills)]
  /\ engineUp \in BOOLEAN
  /\ latestPrice \in [Symbols -> Prices \union {NoPrice}]
  /\ pending \in [Symbols -> SUBSET Entries]
  /\ limitOrders \in [Symbols -> SUBSET Entries]
  /\ buffer \in [Symbols -> Seq(Fills)]
  /\ orderPos \in [Symbols -> Nat]
  /\ orderCommitted \in [Symbols -> Nat]
  /\ execPos \in [Symbols -> Nat]
  /\ execCommitted \in [Symbols -> Nat]
  /\ restarts \in Nat
  /\ expiries \in Nat

\* What everything else rests on: every row, message and list entry belongs to
\* a placed order and is kept under its symbol; an execution carries a price its
\* order admits; offsets point into their topics, and a committed one is never
\* ahead of what was read.
Routed(o, s) == form[o] # NoForm /\ form[o].symbol = s

Admitted(e, s) == Routed(e.order, s) /\ Crosses(form[e.order], e.price)

RowsPlaced ==
  /\ \A o \in OrderIds : status[o] = "ABSENT" <=> form[o] = NoForm
  /\ published \subseteq Placed
  /\ \A r \in Relays : sent[r] \subseteq batch[r] /\ batch[r] \subseteq Placed

OrdersRouted ==
  \A s \in Symbols :
    /\ \A i \in 1 .. Len(orderLog[s]) : Routed(orderLog[s][i], s)
    /\ \A e \in pending[s] : Routed(e.order, s) /\ form[e.order].type = "MARKET"
    /\ \A e \in limitOrders[s] : Routed(e.order, s)

ExecutionsAdmitted ==
  \A s \in Symbols :
    /\ \A i \in 1 .. Len(buffer[s]) : Admitted(buffer[s][i], s)
    /\ \A i \in 1 .. Len(execLog[s]) : Admitted(execLog[s][i], s)

OffsetsInTopics ==
  \A s \in Symbols :
    /\ orderCommitted[s] <= Len(orderLog[s])
    /\ orderPos[s] <= Len(orderLog[s])
    /\ execCommitted[s] <= execPos[s]
    /\ execPos[s] <= Len(execLog[s])

Routing == RowsPlaced /\ OrdersRouted /\ ExecutionsAdmitted /\ OffsetsInTopics

-----------------------------------------------------------------------------
\* An order reads FILLED exactly when one execution of it has been booked, and
\* no order has two rows in executions, however often its message is published,
\* replayed or redelivered (execution_id derived from order_id).
SettledOnce ==
  /\ \A o \in OrderIds : status[o] = "FILLED" <=> Executed(o)
  /\ \A e, d \in executions : e.order = d.order => e = d

\* No execution is booked at a price worse than the order's limit, although the
\* price was compared in the engine and travelled through a buffer and a topic.
LimitPriceRespected ==
  \A e \in executions : Crosses(form[e.order], e.price)

Remaining(log, pos) == {log[i] : i \in pos + 1 .. Len(log)}

\* Where an order of symbol s that has not settled may be.
InFlight(o, s) ==
  \/ o \notin published
  \/ ~ engineUp
  \/ o \in Remaining(orderLog[s], orderPos[s])
  \/ \E e \in pending[s] \union limitOrders[s] : e.order = o
  \/ \E e \in Remaining(buffer[s], 0) \union Remaining(execLog[s], execPos[s]) :
       e.order = o

\* An order that is PENDING is still on its way to a settlement: in the outbox,
\* unread in a topic, waiting in the engine, or in an execution not settled; or
\* the engine is down and will read it from the database when it starts.  That
\* holds as long as no producer has given up on a message.
\* ("재시작에도 주문 유실 없음" of trading/engine/matching.py:12.)
NoOrderLost ==
  expiries = 0 =>
  \A o \in OrderIds : status[o] = "PENDING" => InFlight(o, form[o].symbol)

\* The updater commits the offset of a message only when the order it executes
\* has settled, so a restart skips nothing it still had to do.
CommittedMeansSettled ==
  \A s \in Symbols : \A i \in 1 .. execCommitted[s] :
    status[execLog[s][i].order] \in {"FILLED", "REJECTED"}

\* Money and holdings are those of the start plus what the rows of executions
\* cost and paid: nothing is debited or credited twice, or without its row.
Paid(a, e) ==
  LET f == form[e.order]
  IN  IF f.account # a THEN 0
      ELSE IF f.side = "BUY" THEN -Cost(f, e.price) ELSE Proceeds(f, e.price)

Moved(a, s, e) ==
  LET f == form[e.order]
  IN  IF f.account # a \/ f.symbol # s THEN 0
      ELSE IF f.side = "BUY" THEN f.qty ELSE -f.qty

CashFlow(a) == SumFunction([e \in executions |-> Paid(a, e)])
Flow(a, s) == SumFunction([e \in executions |-> Moved(a, s, e)])

LedgerBalances ==
  \A a \in Accounts :
    /\ cash[a] = Cash0[a] + CashFlow(a)
    /\ \A s \in Symbols : held[a][s] = Held0[a][s] + Flow(a, s)

-----------------------------------------------------------------------------
\* The path implements its promise.
Ledger == INSTANCE OrderLedger

LedgerSpec == Ledger!Spec

\* A MARKET order that is placed settles, filled or rejected, through any
\* bounded number of crashes, as long as the market keeps trading its symbol.
MarketOrdersSettle ==
  \A o \in OrderIds :
    (status[o] = "PENDING" /\ form[o].type = "MARKET")
      ~> (status[o] \in {"FILLED", "REJECTED"})

\* A LIMIT order settles if prices that cross it keep coming.
CrossingTick(o) ==
  \E s \in Symbols, p \in Prices :
    form[o] # NoForm /\ form[o].symbol = s /\ Crosses(form[o], p) /\ Tick(s, p)

LimitOrdersSettle ==
  \A o \in OrderIds :
    []<><<CrossingTick(o)>>_vars
      => (status[o] = "PENDING" ~> status[o] \in {"FILLED", "REJECTED"})

-----------------------------------------------------------------------------
\* "executions 토픽을 at-least-once로 소비하고, execution_id 기준으로 멱등 처리"
\* (updater.py:3): a message whose execution id has been dealt with before
\* changes nothing.  False of the code: a rejected execution leaves no row.
RedeliveryIsIdempotent ==
  [][\A s \in Symbols :
       (UpdaterApply(s)
          /\ status[execLog[s][execPos[s] + 1].order] # "PENDING")
         => UNCHANGED <<status, ledgerVars>>]_vars

\* "발행은 at-least-once로 보장" (order_relay.py:4): an outbox row marked as
\* published is in the topic.  False of the code when the producer gives up.
PublishedAtLeastOnce ==
  \A o \in published : o \in Remaining(orderLog[form[o].symbol], 0)
=============================================================================
