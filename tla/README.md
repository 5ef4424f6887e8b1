# quant-trader: verification project

TLA+ models of quant-trader, the TLC runs that check them on small instances and
the theorems TLAPS checks about them. Paths are relative to the repository root
(`src/` here). Every definition is translated from the code; `PROJECT.json` maps
each one to the lines it models.

## 1. The system

quant-trader trades crypto in simulation (Upbit prices, its own ledger) and
stocks for real through brokers (KIS for orders, Kiwoom and Toss for data). It
is a set of small processes around Kafka, Postgres, ClickHouse and Redis:

```
 Upbit WS -> ingester -> market.ticks ----+-> candle aggregator -> ClickHouse candles
                                          +-> tick sink         -> ClickHouse ticks
 API / commander -> orders + order_outbox |
        relay -> orders ------------------+-> matching engine -> executions -> updater -> Postgres ledger
 live_ensemble -> strategy.signals -> commander -> orders + order_outbox
 cron VMs: trade_once, stock_trade_once, us_trade_once, kr_ichimoku_trade_once,
           maintenance_once, verify_freshness;  by hand: reeval_weights
 API: manual stock orders -> executor thread -> KIS;  Telegram bot;  Redis cache
```

### Inventory

| Component | State | Operations | Interacts through | Hard behaviour | Correct when |
|---|---|---|---|---|---|
| Order path: `common/order_writer.py`, `trading/relay`, `trading/engine`, `trading/portfolio/updater.py` | tables orders, order_outbox, executions, accounts, positions; the engine's latest_price, pending, limit_orders; topic offsets | place an order; relay a batch; tick; consume an order; flush and commit; apply an execution | outbox table, topics orders, market.ticks, executions | crashes between publish and mark, between flush and commit, between database and offset commit; two relays; two topics in any order | an order settles at most once, at an admitted and covered price; none is lost; the ledger balances |
| KIS order and chase: `common/broker/kis_order.py`, `kis_chase.py`, `kis_cancel.py`, `kis_balance.py` | the broker's book and balance; attempts | place, poll, cancel, re-place the remainder | HTTP to the broker | a fill that arrives between poll and cancel; a cancel refused; an answer lost | never more bought than asked for; what is reported filled was filled |
| Manual stock orders: `api/stock_order_executor.py`, `api/routes/stock_orders.py` | table manual_stock_orders | create, cancel, recover orphans, claim, execute, finish | Postgres, KIS chase, Telegram | a cancel racing the claim; a restart in the middle of an order | an order is sent at most once; a cancelled one never; none stays PLACED for ever |
| Weekly stock runners: `stock_trade_once.py`, `us_trade_once.py`, `weekly_marker.py`, `stock_trade_common.py` | weekly_rebalance marker, broker balance | check the marker, plan, sell, buy, mark | KIS, Toss prices, Postgres | failure after some of the orders; holiday and retry on the next weekday | one allocation per market and week; a marker that is earned |
| Ichimoku paper runner: `kr_ichimoku_trade_once.py`, `ichimoku.py`, `paper_ledger.py` | loaded daily rows, paper account, marker | refresh, weekly bars and cloud, plan, one transaction per fill, mark | ClickHouse, Toss, Postgres | a run that dies between two fills; a symbol that stops trading | every planned order can be filled; a position is bought once; an open week does not speak |
| Daily crypto runner: `trade_once.py`, `postgres_repair.sql`, `equity_snapshot.py` | accounts, positions, trade_decisions, equity_snapshots | repair, backfill, gate, targets, plan, commit a decision, snapshot, report | ClickHouse, Upbit, Postgres | second start on a day; death between two commits; midnight in a run | no trade without its record; one decision per coin and day; a curve without holes |
| Candle jobs: `batch/candles/*`, `upbit_candles.py`, `toss_daily.py` | candles_1d, stock_candles_1d, minute files | page back, append, refresh, probe, refill | exchange APIs, ClickHouse, CSV files | a fetch that stops a page early; splits that re-adjust the past | no hole between two backfills; closes of one adjustment |
| Data collectors: `batch/rawdata/*` | tables of short interest, flows, filings, holdings, reports, memberships; cached zips and maps | fetch from where the table ends, scan a window, derive again | FINRA, KRX, SEC, DART | what failed and is never asked for again; half-written files | what is missing has a failure to explain it |
| Live signals: `live_ensemble.py`, `trend_signal.py`, `trend.py` | closes fed per load, current day | warm up, take a tick, close a day, publish | market.ticks, candles_1d, strategy.signals | restarts, ticks read again | a load is fed each day's last price, once |
| Commander: `commander.py`, `core/rebalance.py`, `core/weight_policy.py`, `reeval_weights.py` | last signals, last_acted, strategy_weights | take a signal, combine, rebalance an account, re-evaluate | strategy.signals, prices, orders | late loads, restart in the middle of an act | acts only on a complete roster; never two orders of a symbol; acting twice is harmless |
| Candle aggregator: `streaming/aggregator/candle.py`, `daily.py` | open buckets, offsets | tick, flush closed buckets, roll up days | market.ticks, ClickHouse | late ticks; restart in the middle of a bucket | a stored candle covers all of its minute's ticks |
| Sinks: `streaming/sink/*` | batch, offsets | buffer, insert, commit | topics, ClickHouse | insert succeeds and commit fails | every tick is stored, duplicates merge by (symbol, ts, seq) |
| Ingesters: `streaming/ingester/*`, `common/kafka_watchdog.py` | sequence numbers, producer backlog, watchdog | connect, subscribe, receive, produce, reconnect | Upbit and Kiwoom WebSocket, Kafka | reconnects; broker down; false alarms | sequence numbers unique; a stuck producer ends the process |
| Migrations: `common/migrations.py`, `init_db.py` | schema_migrations of two databases | apply what is not recorded | Postgres, ClickHouse | a statement that fails; one database without transactions | what is recorded is applied |
| Maintenance: `maintenance_once.py`, `verify_freshness.py` | failures of a run, newest rows | run a step, check, exit | all collectors, Telegram, the shell | one step of several failing; a message that is not sent | a failed run is heard of; the other steps run |
| Backtest: `batch/backtest/*`, `strategy/plugins/*` | simulated account, state of a strategy, curve | price a tick, step, fill, sample; folds | candles and ticks | rounding, sessions, windows that overlap | the books balance; a fold knows only its past |
| API: `api/main.py`, `routes/*`, `cache.py`, `security.py`, `telegram_bot.py` | sessions, response cache, bot offset | requests, cache fill, bot poll | Postgres, ClickHouse, Redis | concurrent misses; a command handled twice | not modelled but for orders, which are |
| Shared infrastructure: `rate_limit.py`, `oauth_token.py`, `http_client.py`, `notify_telegram.py`, `cache.py` | token buckets, token cache, caches of collectors | acquire, refresh, retry, send | Redis, HTTP, files | a cached failure | partly modelled, with their callers |
| Portfolio readers and equity: `account_read.py`, `equity_series.py` | none of their own | read | Postgres, ClickHouse | | not modelled |
| Market clock: `market_hours.py`, `market_holidays.py` | holiday cache | is the market open | KIS holiday API | a holiday the table misses | part of the runners' guards |
| Research, presentation, deployment: `batch/ml`, `batch/features`, `api/web`, `common/chart`, `infra` | files | train, render, deploy | | none concurrent | not modelled |

## 2. The modules

| Part | Modules | Runs | Proofs |
|---|---|---|---|
| Order path (3) | `OrderTerms`, `OrderPipeline` implements `OrderLedger`, `OrderPipelineProps` | `pipeline`, `pipeline_live` | `OrderPipelineProofs` |
| KIS chase (4) | `KisChase` implements `ChaseContract` | `chase`, `chase_rejected` | `StockOrderProofs` |
| Manual orders (5) | `ManualOrders`, which has the chase on a shared account | `manual` | `StockOrderProofs` |
| Weekly runners (6) | `WeeklyRebalance`, `WeeklyRebalanceProps` | `weekly` | `WeeklyRebalanceProofs` |
| Market data (7) | `MarketData` over `TickIngester`, `MarketDataProps` | `market` | `MarketDataProofs` |
| Ichimoku paper runner (8) | `IchimokuPaper` over `Ichimoku` | `paper` | `IchimokuPaperProofs` |
| Signals and commander (9) | `SignalPath` over `Trend`, `Rebalance`, `WeightPolicy` | `signals`, `signals_restart` | `SignalPathProofs` |
| Backtest (10) | `Backtest` over `WalkForward`, `Strategies`, `BacktestBroker`, `Trend`, `Rebalance` | `backtest` | `BacktestProofs` |
| Trading VM (11) | `TradeVm` over `TradeOnce` (with `CandleJobs`, `Rebalance`) and `Collectors` | `tradevm` | `TradeVmProofs` |

`Rebalance` is `core/rebalance.py` with the fee arithmetic of fills; the commander, the
daily runner and the backtest's ensemble share it in the code and in the models. `Trend` is the
signal of one load, which the live worker and the backtest share.
An `MC...` module gives the constants of a run their values. A definition named `...Bug` is
the one after it with a plausible mistake: the property named for it in `PROJECT.json`
fails once the two are exchanged, which shows that the run can tell them apart.

**Statements of the documentation that the code does not keep.** Two are runs that end in a
counterexample (`chase_rejected`, `signals_restart`). The others are properties in the modules that
no run lists: put in place of the properties of the named `.cfg`, TLC refutes each of them within a minute
or two (`ManualOrders_double.cfg` already names its property).
`SignalPath_weights.cfg` is an instance no run lists either, and one that passes (section 9).

| Property | Configuration | What it says, and where |
|---|---|---|
| `PublishedAtLeastOnce` | `OrderPipeline.cfg` | publication is at least once (order_relay.py:4) |
| `RedeliveryIsIdempotent` | `OrderPipeline.cfg` | a redelivered execution changes nothing (updater.py:3) |
| `NoDoubleFill` | `ManualOrders_double.cfg` | a confirmed cancel before each new order makes a double execution impossible (kis_chase.py:9-10) |
| `OncePerWeek` | `WeeklyRebalance_once.cfg` | one real trade a week (weekly_marker.py:3) |
| `AlarmIsTrue` | `MarketData.cfg` | a quiet market does not set off the watchdog (kafka_watchdog.py:9) |
| `BreakoutBoughtOnce` | `IchimokuPaper.cfg` | what has broken out is not bought again (kr_ichimoku_trade_once.py:8) |
| `CloseIsBlind` | `Backtest_close.cfg` | sizing at a bar's close does not look ahead (cross_sectional.py:60) |
| `NoDataLost` | `Backtest.cfg` | priming loses no out-of-sample bar (walkforward.py) |
| `NoStaleTrade` | `TradeVm.cfg` | no target from old candles (trade_once.py:41) |
| `FailureIsHeard` | `TradeVm.cfg` | 70 means that the message was sent (trade_once.py) |
| `CacheIsWhole` | `TradeVm.cfg` | a cache is completed in both directions (upbit_candles.py) |
| `KrxHasNoHole` | `TradeVm.cfg` | once a month leaves no gap (krx.py) |
| `EveryReportCollected` | `TradeVm.cfg` | running again collects what was published (maintenance_once.py) |
| `CodesAreFound` | `TradeVm.cfg` | the reference cache keeps what never changes (cache.py) |
| `SilentFeedIsFound` | `TradeVm.cfg` | a feed that dries up is found (verify_freshness.py) |
| `FileByFile` | `TradeVm.cfg` | each migration file is a transaction of its own (migrations.py) |

## 3. The streaming order path

**Modules.** `OrderTerms` holds what an order is and what an execution costs.
`OrderLedger` is the promise: an order is placed once and settles either in full
at one admitted and covered price, or not. `OrderPipeline` is the code.
`OrderPipelineProps` states the properties, `OrderPipelineProofs` proves them,
`MCOrderPipeline` and the `OrderPipeline_*.cfg` files instantiate them.

**State.** `form`, `status`, `outboxId`, `published` are the rows of orders and
order_outbox; `cash`, `held`, `executions` the ledger. `batch` and `sent` are a
relay's open transaction: rows locked, rows already handed over. `orderLog` and
`execLog` are the topics, one sequence per partition; both topics are keyed by
symbol, so a partition is a symbol. `latestPrice`, `pending`, `limitOrders`,
`buffer` are the engine's memory (`buffer`: produced and not yet delivered).
Read positions and committed offsets are kept apart. The updater's commits are asynchronous
(`consumer.commit(msg)` does not wait), so they may be any number of messages behind what it has
applied, and a crash loses those that are under way: all of these messages are applied again.

**Actions.**

| Code | Actions |
|---|---|
| `place_order` | `PlaceOrder` |
| relay loop | `RelaySelect`, `RelayDeliver` / `RelayExpire` per row, `RelayCommit`, `RelayCrash` |
| `load_pending_orders` and subscribe | `EngineStart` |
| a message of market.ticks / orders | `Tick` / `ConsumeOrder` |
| producer thread | `EngineDeliver`, `EngineExpire` |
| flush, then commit | `EngineCommit` |
| kill / `finally` | `EngineCrash` / `EngineStop` |
| `apply_execution` | `UpdaterApply` with `ApplyDuplicate`, `ApplyReject`, `ApplyFill` |
| `consumer.commit(msg)` / death | `UpdaterCommit` / `UpdaterCrash` |

**What is abstracted.** An order message is its order id, because the payload is
the immutable row. The execution id is a function of the order id (uuid5), so
"same execution id" is "same order". Ticks are not logged: a tick read again after
a restart is a tick at some price, which `Tick` already allows. Money and
quantities are integers of the least unit, so a product price x quantity with
more decimals than NUMERIC(20,4) keeps is not rounded a second time when it is
booked. `avg_buy_price` and timestamps are left out. The limit test of the
producers' `delivery.timeout` is `RelayExpire`/`EngineExpire`, bounded by
`MaxExpiries`. The engine and the updater run once, as their docstrings require.
The list order of rows read at start-up is arbitrary (`SELECT` without
`ORDER BY`), that of messages is their offset order. The price of a LIMIT order may be any
number, since `create_order` only refuses its absence.

**Runs.**

| Run | Shows |
|---|---|
| `pipeline` | a purchase and a limit sale of one symbol whose order decides whether the purchase is covered, or two such sales; a relay that publishes row by row, and one fault, a crash anywhere or a message given up on: limits are kept, no order is lost, the ledger balances and is `OrderLedger`'s; both fees have a half to round, and the opening cash covers the purchase after the sale to the unit |
| `pipeline_live` | under fairness, with two relays, market orders and crossing limit orders settle through up to two restarts |

**Bounds.** Two orders are the least that compete for a balance or a queue
position; two prices are the least that put a limit on either side; one restart in
the two-order run already yields a duplicate of any one message, and two restarts
in the one-order run a duplicate of a duplicate. Two relays over two orders are
beyond TLC in minutes, and so are two MARKET orders or two faults (`OneMarket`, `OneFault` of
`MCOrderPipeline`); the theorems cover any number of relays, symbols and batches, and hold for
all values of the other constants.

**Fairness.** `Fairness` asks weak fairness of each loop's steps: the relay,
the engine and the updater never wait for each other, and docker-compose restarts
what dies. Each symbol keeps trading. Crashes, give-ups, user requests and the updater's
commits get none: what it has applied need never be committed.
`LimitOrdersSettle` additionally assumes that a crossing tick comes infinitely often.

**Findings.**
- `RedeliveryIsIdempotent` (updater.py:3) is false: a rejection leaves no row in
  executions, so a duplicate message of the rejected execution can fill the order
  later, and `status='FILLED'` is written without a guard. `OrderLedger` therefore lets
  a REJECTED order be filled.
- `PublishedAtLeastOnce` (order_relay.py:4) is false: `flush()` returning is not
  delivery (the producer may have given up on the message). The order stays PENDING until the engine restarts and reloads it,
  which is also why `NoOrderLost` speaks of runs in which no message has expired.

**Proofs** (`OrderPipelineProofs`, for every value of the constants that satisfies
the assumptions of `OrderTerms` and `OrderPipeline`: finitely many order ids, non-negative
opening balances, a fee rate of at most one, `Forms` inside what `create_order` admits).

1. `Base` = `TypeOK` and `Routing` and finiteness of the engine's lists is inductive
   (`TypeCorrect`, `RoutingCorrect`). Routing is needed for the types: the updater
   may index `form` and `cash` only because a message belongs to a placed order.
   `cash \in [Accounts -> Nat]` rests on `LedgerType`: the fee is at most the
   amount (`RoundedShare`), and a fill is made only if it is covered.
2. `Settlement` adds `SettledOnce`, `LimitPriceRespected` and `ReadMeansSettled`,
   which is about everything read, not only committed: that is what a crash between the
   two keeps true (`SettlesOnce`, `LimitPriceKept`, `CommitsAfterSettling`).
3. With both, each step is a step of `OrderLedger` or leaves its variables alone
   (`ImplementsLedger`).
4. `NoOrderLost` is not inductive: a row not yet marked published may be sent
   already. `Delivery` says that a PENDING order that has been sent is tracked
   downstream, and is inductive as long as no message has expired (`NoOrderIsLost`).

5. `LedgerBalances` says that cash and holdings are the opening ones plus sums over the
   executions. `Books` is inductive once a sum over a finite set is known to grow by the
   value of what is added (`SumStep`). That needs no induction rule: a sum is `MapThenFoldSet`, a
   function chosen on the subsets of its domain, and if no such function existed, there would be a
   smallest subset without one, which is one element larger than a subset that has one
   (`AddsExists`, `AddsSame`). The updater's insert with ON CONFLICT DO NOTHING and the movement of
   money are one step, so an execution enters the sum once (`LedgerAlwaysBalances`).

Only model-checked: the two liveness properties.

## 4. The KIS chase

**Modules.** `ChaseContract` is what `place_and_chase` promises its callers: of an order
for `want` shares never more than `want` executed or open, an order sent again only
while nothing is open, a report that was executed. `KisChase` is the code against a
broker, with its properties. `StockOrderProofs` and `KisChase*.cfg` complete it.

**State.** `book[m]` is what the broker may still execute of attempt m's order,
`executed` and `held` the broker's truth; `base`, `remaining`, `seen`, `n` are the locals
`base`, `remaining`, `filled_total` and the attempt counter. `pc` names the next call:
`setup` (exchange and baseline), `send`, `poll`, `cancel`, `recheck` (balance after a cancel
that succeeded), `lastlook` (balance after one that failed), `over`.

| Code | Actions |
|---|---|
| `price_and_exchange`, baseline | `Setup`, `SetupFails` |
| `post_order`: EGW00201 is retried | `Throttled` |
| `post_order`: success / refusal / answer lost | `Place` / `PlaceRefused` / `PlaceLost` |
| `_poll_fill` | `Poll`, `PollFails`, `PollOver` |
| `cancel_overseas_order` | `Cancel`, `CancelFails` (taken or not) |
| balance after the cancel | `Recheck`, `LastLook`, `LookFails` |
| status and return | `Return` |
| the broker; other orders of the account | `Execute`; `OutsideTrade` |

**Abstracted.** Prices and their buffers, the exchange, signatures. A confirmation window is a number of
polls (`MaxPolls`). A balance query returns every execution before it: the code relies on that as well.

**Runs.** `chase`: requests for one to three shares, both markets and sides, three
attempts, two polls, two retries, one trade of the symbol by another order of the
account. Three shares and three attempts let each attempt be partly filled before and
after its cancel. `chase_rejected`: expected violation.

**Fairness.** Weak fairness of the chase's own steps: it is a sequential program
whose calls have time limits. The broker owes nothing.

**Findings.** `RejectedMeansNothingAccepted` (kis_chase.py:137) is false: if the answer to
the first order is lost, the order may be open and REJECTED is reported.
The properties speak of chases that are alone with their symbol (`Alone`): the baseline is
the holding of the whole account, so a sale of the same symbol by a manual order hides
fills, which are bought a second time. kis_chase.py:9-10 excludes double execution without that
condition; section 5 has the two orders that refute it. The docstring (line 71) says that no exception is
thrown; a failure of the first balance query is raised (`SetupFails`), before anything is sent.

**Proofs** (any quantities, attempts, polls and retries). `Chased` is inductive as long as
nobody else trades: `held` differs from `base` by exactly what was executed (`Baseline`), what is
reported is at most that and exactly that before an order is sent (`Knowledge`), only the
current attempt has anything open (`OnlyCurrentOpen`). From it `NeverTooMuch`,
`ReportsAreTrue`, `OnlyTheRestIsSent`, and `ImplementsContract`: each step is a step of
`ChaseContract` or leaves its variables alone. `ChaseEnds` is only model-checked.

## 5. Manual stock orders

**Modules.** `ManualOrders` with its properties, `StockOrderProofs`, `MCManualOrders`, `ManualOrders*.cfg`.
Orders of one symbol share one holding of the account, and a chase measures its fills by how far that
holding has moved (`_filled_since`). The chase is therefore here step by step, and not by its contract:
`ChaseContract` is about a chase that is alone with its symbol, which nothing in the code ensures.

**State.** `row`, `sideOf`, `due`, `old`, `partial` are a row of manual_stock_orders (status, side,
scheduled_at <= now(), updated_at 30 minutes ago, detail.partial). `task`, `job`, `phase`, `round`, `filled`
are an executor and the locals of its chase: the order, the next call, the attempt, the fills it knows of.
`moved` is the holding less the baseline of the chase, in the direction of its order. `open` is what of each
attempt's order the broker may still execute and `traded` what it has; both outlive the executor.
`disturbed` is history: while the order was chased, another one of its symbol was executed.

| Code | Actions |
|---|---|
| `create_order`, `cancel_order` | `Create`, `CancelOrder` |
| time | `BecomesDue`, `GrowsOld` |
| `_recover_orphans` at the start of `run` | `Start`, `StartFails` |
| `_claim_one` | `Claim`, `ClaimLost` (committed, answer lost) |
| `_execute`: nothing to send / the baseline | `NotSent` / `BeginChase` |
| `post_order`: accepted / refused, or the answer lost | `ChaseAccept` / `ChaseGivesUp` |
| `_poll_fill` | `ChasePoll`, `ChaseFilled` |
| the cancel | `ChaseCancel`, `ChaseCancelFails` (taken or not) |
| balance after the cancel | `ChaseRecheck`, `ChaseLastLook`, `ChaseLookFails` |
| `_finish` | `Finish`, `FinishFails` |
| end of a process | `Stop` |
| the broker | `Execution` |

**Assumed.** A chase ends well before `_ORPHAN_MIN` (30 minutes), so its row does
not grow old while it runs. Resolving an amount to a quantity is part of `Want`. The number of polls is left
out, and that of posts that are throttled (section 4 has both). A Korean chase, one attempt and no cancel,
does what an American one does whose cancel fails without effect.

**Run.** `manual`: two orders of one symbol for two shares and one, on the same side or opposite ones, two
executors (a deployment overlaps two API processes), two attempts of a chase, one stop, one database failure in
the loop and one at a start. Two executors are the least that can take the same row or chase one symbol at a
time; two shares are the least that can be filled in part, two attempts the least in which something is
sent again; one stop leaves a row PLACED and its order open at the broker.

**Fairness.** Weak fairness of `Start` (docker-compose restarts the API) and of the loop's
steps, the chase's among them: every call of a chase has a time limit, and its polls end when its window does.

**What the code does not guarantee.**
- `NoDoubleFill` (kis_chase.py:9-10) is false. A purchase of two is filled while a sale of one, taken up by the
  other API process or left open by an earlier one, is filled too: the balance shows one share, and one more is
  bought. TLC finds it in `ManualOrders_double.cfg`, without any failure of a process or the database.
- For the same reason a row may say FILLED for the fills of another order. `NeverSendsTwice` and
  `FilledIsTrue` are therefore about orders that were not `disturbed`; that an order has one executor,
  never a second one after it, and that a cancelled one is not sent holds for all of them.
- A row left PLACED is failed only by an executor that starts 30 minutes later (stock_order_executor.py:7 says
  after 30 minutes), and what it has open at the broker stays open.
- A database failure during `_recover_orphans` ends the task for the life of the process (line 110), hence the
  second disjunct of `DueOrdersAreTaken`.
- FILLED with `partial` may be written while the rest is still open and will be executed (line 97).

**Proofs** (any number of orders, symbols, executors and attempts). `Handled` is inductive. `Working` says what an
executor may assume of its order: the row is PLACED and young (`AtWork`), and, as long as nobody disturbed the
order, the holding has moved by exactly what was executed, nothing of it is open when the rest is sent, and
only the current attempt has anything open (`Undisturbed`). Rows not yet claimed have nothing at the
broker (`NotYetSent`). An execution of another order of the symbol makes every chase that watches it disturbed
in the same step, so the condition falls exactly when the equality may. From it `NothingIsSentTwice`,
`CancelledIsCancelled`, `FilledIsFilled`, `OutcomesNeverChange`. `DueOrdersAreTaken` is only
model-checked.

## 6. The weekly stock runners

**Modules.** `WeeklyRebalance`, `WeeklyRebalanceProps`, `WeeklyRebalanceProofs`,
`MCWeeklyRebalance`, `WeeklyRebalance*.cfg`.

**State.** `marker` are the rows of weekly_rebalance (weeks); `held`, `openBuy`, `openSell`
the broker; `pc` and `ranked`, `aligned`, `before`, `asked`, `buys`, `sells`, `accepted`, `filled` one run of
`execute`. `plans` counts the runs of today that made a plan and `most` the most of any day;
`tradedOn` and `alignedOn` are history.

| Code | Actions |
|---|---|
| `weekly_guard`, US session check | `Guard` inside `Plan`, `Skip` |
| failure before any order | `RunFails` |
| `build_plan`, cap of `max_orders` | `Plan` |
| `_place` (KR): accepted or answer lost / not accepted | `SendSell`, `SendBuy` / `NotSent` |
| `place_and_chase` (US) | `ChaseBuy` |
| `confirm_fills` | `AllSent`, `Confirm`, `ConfirmOver` |
| `completed`, `mark_week_done` | `Mark` |
| an exception, a lost database, a stopped VM | `RunDies` |
| the exchange | `Execute`, `DayEnds` |

**Assumed.** One process runs at a time and ends within its trading day; day
orders lapse when the day ends; a chase is one step with every result that
`ChaseContract` allows. Any set of targets may be ranked, the empty one included.

**Runs.** `weekly`: two weeks of two days, two runs a day, two symbols, a
lot of two so that executions are partial, a holiday in the table and one the table
misses. Two days of a week are the least in which a retry can go wrong, two weeks
the least in which a marker can. `WeeklyRebalance_once.cfg`
is an instance without holidays and partial executions in which `OncePerWeek` fails.

**Findings.** `OncePerWeek` (weekly_marker.py:3) is false: the marker is written last, and
only for executions seen by then; a run that dies before it, or an execution after the
confirmation, leads to a second day of trading in the week. What remains true is
`OneAllocation`, with a factor: a second run on the same day does not see the open
orders of the first and buys again (DEPLOY.md:225 calls double runs idempotent).
When the ranking is empty, KR sells every holding (`Plan({})`).

**Proofs** (any calendar, symbols, lot, runs a day). `Room`: while a run sends, what it
still wants to buy has a lot of room below `Lot * plans` (`WeeklyAllocation`). `Earned`: until
something is executed today the holdings are those of the plan, so a fill that is
seen is an execution of today (`WeeklyMarker`); a running run's week is not marked
(`WeeklyQuiet`). `WeeklyTypes` for the types.

## 7. Market data

**Modules.** `TickIngester` is an ingester with its producer and watchdog, `MarketData` adds
the readers of its topic. `MarketDataProps`, `MarketDataProofs`, `MCMarketData`, `MarketData*.cfg`
complete it.

**State.** `seqState` is `_seq_state`; `queue` the producer's local queue, `topic` what is
delivered, one sequence per partition (the key is the symbol); `pending`, `lastOk` the watchdog,
`reported` a success callback that waits for the next `poll`. `at` and `committed` are the
reader's offsets, `inserting` says that it is between insert and commit. `batch` and `rows` belong to the tick
sink, `candles`, `dirty`, `maxWindow`, `stored` to the aggregator. `startedAt`, `lastQueued`,
`deliveredAt`, `late` are history.

| Code | Actions |
|---|---|
| a trade: `_next_seq`, `produce` or a full queue, `poll`, `stalled` | `Trade` |
| producer thread: delivery / failure | `Deliver` / `Expire` |
| `SystemExit`, restart policy; other ends of the process | inside `Trade`, `IngesterStart`; `IngesterCrash` |
| sinks: a message / `insert` / `commit` | `SinkRead` / `SinkInsert` / `SinkCommit` |
| aggregator: a message / `insert` / `commit` and eviction | `CandleRead` / `CandleInsert` / `CandleCommit` |
| end of a reader anywhere | `ReaderCrash` |
| time | `Elapse` |

**Abstracted.** A candle is the set of offsets it was computed from: open and close are
the least and the greatest, high, low and volume use all, so that two rows agree exactly if
the sets do (for ticks that differ). The reader of a behaviour is one sink or the aggregator: consumer
groups share nothing. Flush timers and `BATCH_SIZE` are left out, a flush may come at any moment; a
`finally` block is a flush before the crash. Stamps of one ingester never go back; a lost connection, a
bad message and a login are trades that never arrive. A consumer that loses its session and
rejoins with its memory intact is not modelled (it would count volume twice).

**Runs.** `market`: two partitions, three trades over four seconds, a minute of one second
and a watermark of none, so that two minutes and a late partition fit; two numbers a second, so
that two trades reach the cap; a queue of two, so that the third trade can find it full; one crash of each
side and one message given up on.

**Findings.** `AlarmIsTrue` (kafka_watchdog.py:9) is false: if the first trade comes later than the
limit after the start, it ends the process at once, before its delivery can have been reported.

**What the code does not guarantee.** candle.py:6 calls writing a candle again idempotent.
It is as long as the aggregator runs: `CandlesKeepTheirTicks` has a part, `CandlesAreWhole`, that needs that it has
not restarted and that no tick was read behind the watermark. Otherwise the row that replaces the stored one has
the later ticks only, and open, high, low and volume change. The other part, `ClosesAreCurrent`, is what
remains over any restarts and late ticks: the close is that of the last tick read. Two trades
get one key if the ingester restarts within their second (`KeysAreUnique`, stock_kiwoom.py:43).
A trade that finds the queue full is not counted by the watchdog, so a producer that hangs with a full
queue just after a success ends its process only after messages have expired
(`HungProducerEnds` therefore speaks of messages that were queued).

**Proofs** (`MarketDataProofs`, any number of symbols, trades, seconds and crashes, any limits).
`MarketInv` is inductive; its parts:

- `Batched`: what the sink has read and not committed is in the batch, and in the table once
  inserted. Commit moves the offset over exactly that (`NothingCommittedIsLost`).
- `Marked`: what the aggregator has read and not committed is in a candle marked dirty, or, between insert
  and commit, stored; a dirty candle has a tick past the committed offset, so the row it replaces cannot have
  a later close (`ClosesStayCurrent`). `OpenAreWhole`: until a restart or a late tick, candles that are dirty
  or not behind the watermark are complete, so only complete rows are written
  (`CandlesStayWhole`). Both together are `CandlesKeepTicks`.
- `Waiting`: if nothing was delivered after a message was queued, the watchdog's clock is not past that message
  (`HungProducersEnd`).
- `Made`, `Ordered`: every message carries a number from its second's block, at most the counter
  of a process that has run all of that second; topic and queue are in order (`KeysStayUnique`).
- `Flags`, `IngestTypes`, `ReaderTypes` (`MarketTypes`).

## 8. The Ichimoku paper runner

**Modules.** `Ichimoku` is the signal: daily rows to weekly bars, the four lines, entry and exit
of the last complete week. `IchimokuPaper` is the runner around it, with the exchange and the paper
account.

**State.** `traded` is what a symbol traded at, `rows` what of it is in stock_candles_1d; `marker`
the weeks under KR_ICHIMOKU; `cash`, `held` the account; `todo` and `pc` a run that fills its plan;
`rule` and `slots` are `--exit-rule` and `--max-positions`. `purchases` is history.

| Code | Actions |
|---|---|
| the exchange, the end of a day | `NextDay` |
| `weekly_guard`, holiday: refresh of the holdings only | `Skip` |
| refresh, staleness gate, `build_plan` | `Plan` (with `Refresh`, `Signals`, `Sells`, `Buys`) |
| an error before any fill | `Fails` |
| `paper_ledger.simulate_fill`, one transaction | `Fill` |
| `mark_week_done` | `Mark` |
| an exception, a stopped VM | `Dies` |

**Abstracted.** A day has one price: high, low and close of a row are equal, those of a week
are not. Windows (9, 26, 52, 26 weeks) and the limits on age are constants and short in the instance. Lines
are kept as sums, so nothing is rounded. `kr_fee` rounds to a won, which is
exact for whole prices and quantities here because money is counted in 1/2000 of a won. The rows of a day exist
only once it is over (`fetch_daily` leaves out today's). A refresh also writes rows again that were loaded
before: they are equal unless a split re-adjusted the past, and no split falls into a behaviour here
(section 11 has the splits, in `CandleJobs`). The equity snapshot and messages change
no state that the runner reads.

**Run.** `paper`: two weeks of two days after four weeks of history, so that a cloud exists and
a breakout can lie in the last complete week; two symbols for one or two slots, so that breakouts compete; two runs a
day; one holiday; a symbol that may stop trading; both exit rules. Two weeks are the least in which a sale and
a second purchase can follow a purchase. All four properties are safety: no fairness is needed.

**Proofs** (`IchimokuPaperProofs`, any number of symbols, prices, windows, slots, days and runs). All four
properties of the run are theorems. The assumptions are those of the modules: prices and sizes are naturals,
there is at least one slot, ranks of symbols differ (they stand for their names), and the rows before the first
day are in time order.

- `OpenWeekIsSilent`: `Market` is inductive: what is traded are rows in time order, none of today or
  later. So a refresh only extends what is loaded (`RefreshIs`), and if it extends it by rows of the open week,
  neither the set of complete weeks nor the rows of any of them change: `WeeklyBars` and the signal are the same.
- `PlanStaysCovered`, `SlotsAlwaysHold`, `MarkedIsAligned`: none is inductive, since each depends on orders
  that are still to be filled. `Paper` says of the plan in hand that sales come first, that no symbol is in
  it twice, that a sale is of all that is held and a purchase of what is not, that the cash
  pays for every prefix of it (`Path`), that the positions left at its end fit the slots, and that every
  holding the signals would sell is in it or was bought today. A fill takes the first order and leaves all
  that true of the rest; a run that dies drops the plan, and the next one makes its own.
- What a new plan needs is that the fold over the candidates never spends what is not there nor fills a slot
  twice (`Good`, along the prefixes of the list by `PlaceInduction`), and that the sales earn what `Available`
  counts (`ValueAdds`).
- `InOrder` gives each member of a set the place that as many come before as are smaller. `InOrderLists` shows
  that it lists every member once, if the order is strict and total; that of the breakouts is, although
  `Stronger` compares ratios without dividing, because closes and clouds are positive (`SignalType`).

**Findings.** `BreakoutBoughtOnce` is false: whether a candidate's last row is old is not asked, so a
symbol that stops trading in its week of breakout is bought, sold as stale after 14 days, and bought again on
the same breakout while it still counts as alive (30 days). `AlignedWhenMarked` therefore leaves
out what was bought the same day.

## 9. Signals, commander and weights

**Modules.** `Trend` is the signal of one load from the closes it was fed, `Rebalance` what
`core/rebalance.py` makes of targets, cash and holdings, `WeightPolicy` a re-evaluation.
`SignalPath` composes the live worker, the roll-up into candles_1d, the signal topic, the commander, the
re-evaluation and the execution of orders.

**State.** `ticks` is market.ticks, `past` and `rolled` candles_1d; `up`, `pos`, `fed`, `curDay`, `dayClose`
the worker; `topic` what of strategy.signals may still be read, `seen` what has been; `latest`, `acted`
the commander's buffers and `cmd` the act in hand; `rows` strategy_weights; `cash`, `held`, `orders` the
accounts. `issued` and `settled` are history.

| Code | Actions |
|---|---|
| a trade, the date | `Trade`, `Midnight` |
| `daily.run` | `RollUp` |
| `LiveEnsemble.prime` | `Prime` |
| `LiveEnsemble.on_tick`, `_publish_all` | `OnTick` |
| end of the worker | `WorkerStops` |
| commander: a message, `combined_for_bar` | `Read` |
| `_rebalance` of one account, `place_order` | `RebalanceAccount` |
| `last_acted` | `ActDone` |
| end of the commander, its offsets on a timer | `CommanderRestarts` |
| `reeval_weights.reeval` | `Reevaluate` |
| the order path, seen from here | `Execute` |

**Abstracted.** Signals carry no key, so the topic is a set: messages arrive in any order, equal ones
merge. Averages are compared exactly, as sums multiplied across. The annualised deviation of returns
is abstracted to their spread, which is zero in the same cases. Weights count parts of a whole, rounded
down; the score of a load is any (how it is measured is section 10). Targets and fractions are
ratios of integers; fees and money are rounded as the code rounds them (half to even, half up).
A decision is at the last price of each symbol that traded within the hour; hours are not counted, so that
is any set of symbols that have traded (`quoted`). The roll-up of a day looks back two days
(`LookbackDays`): what it missed for longer stays missing.
The case of `on_tick` in which a symbol has no day yet cannot occur after the warm-up of a symbol with history,
which is the only one modelled.

**Runs.** `signals`: one symbol, two loads that disagree on some histories, two days, two
ticks, one restart of worker or commander with one tick and any of the signals read again, two
re-evaluations. Two loads are the least for a roster to be incomplete; two days the least for a bar to follow another;
two re-evaluations the least for weights to feed on weights; they and a restart are looked at one without the
other (`RestartOrTwice`). The cap is 120% of the equal share rather than the configured 150%: with two loads and
150% one pass of clamping and normalising is always enough, with 120% up to four are needed (`Iters` 5; with 2 or
3 the property fails). `SignalPath_weights.cfg` has three loads and the configured 50%, 150% and 50 passes, up to
three re-evaluations with any of several appraisals, and nothing else; TLC passes it in seconds.
With two ticks in all, a tick of an earlier day is not among those a worker reads again; `FedIsTheClose`
covers that for any number. `signals_restart`: expected violation.
No property is about progress, so no fairness is assumed.

**Findings.** `EachBarOnce` (live_ensemble.py:5) is false: at every start the warm-up feeds the last complete
day and the first tick closes it again, so one close counts twice in averages and volatility, and where
candles_1d lags, the day between is never fed. A restarted commander forgets what it acted on and acts
on a bar again; `SecondActIsQuiet` is why that is harmless as long as prices stay what they were.

**Proofs** (`SignalPathProofs`). `OneOrderAtATime`: `OneOrderEach` is inductive, since an account is
asked for pending orders in the step that places one; any number of accounts, symbols, restarts.
`DecisionsAreCovered`: for every price, fee rate and quantum, what `decide` asks for costs no more than the
cash with its rounded fee and sells no more than the holding. The argument is `Affordable`: the quantum
that `affordable_qty` sets aside outweighs the half quantum a fee may be rounded up by (`RoundedFee`).
That no more than the holding is on sale *later* is `OnSaleIsHeld`: an account with an order waiting
gets no decision, so its holding of that symbol changes only by that order. `Tradable`, the invariant, carries the
types of what a decision is computed from: signals and weights are naturals, an act has a price for the
symbols it is about. They go through the folds of `Fed` and of the rounding loop, for which `FoldType` is the
lemma: a fold over a list keeps what its step keeps, again by a smallest place at which it would not
(`PlaceInduction`). `FedIsTheClose` rests on `Stream`: ticks come in the order of their days, so the last tick
before a day changes is that day's close, and what a worker has in hand at any time is either such a
close or the tick it read last (`InHand`), a late tick of an earlier day being dropped. It says that whatever is
fed is the close of the day it is labelled with; not that each day is fed, nor once (`EachBarOnce`).
`NoLoadIsDeleted` is what can be said of the weights for all scores, all numbers of passes and all histories of
re-evaluations: the rows add up, within one part per load, and a load keeps at least the part that the
floor has of the cap of an equal share (`NoneDeleted`). A pass of the clamp leaves every weight between floor and
cap before it scales, so the sum it divides by is at most the caps of all (`SumCompared`: sums are compared term
by term), and only later passes may stop early, which is why the argument runs over the passes that include
the first (`ClampAddsUp`).
Only model-checked: `WeightsAreGuarded` beyond that (how close to floor and cap the loop gets depends on the
number of its passes, so it is false for some constants) and `SecondActIsQuiet` (a fill at the price it was
decided at lands within the band only where fee and least order are small against it).

## 10. Backtest

**Modules.** `BacktestBroker` is account and fills; `Strategies` has the strategies as steps from a
tick to a state and a broker; `WalkForward` is the engine and the rolling evaluation; `Backtest` the
data source that drives them.

**State.** `kind` is the strategy of the behaviour; `run` the engine (state of the strategy, broker,
curve and the time of its next sample); `tick` the last tick; `bars` the series of a walk-forward
evaluation; `bought`, `sold` are history. The broker has cash, per symbol a quantity, an average and an
entry fee, last prices, what closed trades have earned, and, as history, twice what the roundings of its fills
can amount to (`slack`).

| Code | Actions |
|---|---|
| `engine.run`: price, `on_tick` of the strategy, samples | `Replay` |
| a bar of the series | `Collect`; the evaluation of a series is the operator `Results` |

Ten of the eleven strategies of the registry are there: trend, ensemble, SMA, breakout, Bollinger, RSI,
opening range, momentum, and the cross-section in both directions. MACD is not: its exponential averages are
real numbers. Also left out: peak and drawdown and all other figures of the report, and the walk-forward of
strategies without a choice of parameters.

**Abstracted.** `position_fraction` is its maximum. Profit over cost is compared by the price it is
reached at. A return of a fold is compared by the last value of its curve, as every fold starts with the same
money. Ensemble and cross-section share one rebalance band. A tax is taken from sales of
stocks (US stocks, which have none, are not in the instance).

**Run.** `backtest`: every sequence of five ticks of a stock and a coin at two prices and distances of nought
to two, for each strategy: five ticks are the least for warm-up, purchase, sale, cool-down and a second
purchase. Every series of eight bars for the walk-forward: the least with two folds and a gap before one of
them.

**Findings.**
- `NoDataLost` is false where bars are missing: the warm-up is a stretch of time, not of bars, so after a gap the
  first bars of a window are warm-up. `PrimingSuffices` has regular bars as a condition.
- The last sample of a fold is due only if a bar falls on it: what happens after the last sample of a
  window is not in its return (`walkforward._evaluate`).
- `CloseIsBlind` is false: orders at a bar's close are sized by an equity that already has the next bar's
  first price. The same loop reads the cash once, before the purchases of a bar (cross_sectional.py:83-88), so a
  later one may be asked for more than is left; the broker refuses it.
- `account.apply_buy` does not add the fee of an additional purchase to the entry fee: the purchase fees reported
  of closed trades are too low. Their profit is right, as the average has the fee (`BooksBalance`).

**Proofs** (`BacktestProofs`, any symbols, prices, distances of ticks, rates and combinations of parameters). The
constants of the strategies are naturals and the sets of loads finite (`StrategyAssumption`), which is how
`registry.py` and `config.py` set them.
- `WalkForwardIsSound`. That the choice of a fold ignores what it is judged on: the bars before a time are a prefix
  of the series (`BarsInv`: the bars are in the order of their times), and `InSample` reads no others. That priming
  suffices: both evaluations of a window are followed bar by bar (`Primes`, `Accounts`). What a trend strategy
  knows after enough bars are the last prices and nothing else (`Recall`), so after its warm-up the primed strategy
  and the one that has seen every bar have the same state, neither has traded, and from there on they stay equal.
- `BooksAlwaysBalance`. `Sound` brokers are typed and balanced; a fill changes the position of one symbol and moves
  the balance by no more than its roundings add to `slack` (`Moves`, with `Bought` and `Gave` for the two kinds).
  So what remains is that every strategy gets from a sound broker to a sound broker, which needs the type of its
  state (`Shaped`): quantities asked for must be whole numbers. The cross-section's sales and purchases are folds
  over sets of symbols (`Sales`, `Purchases`), followed by induction over the size of the set.
- `RulesAreKept`, an action property. `DisciplineInv`: the time of the last exit that a disciplined strategy remembers is
  the time of the last sale, by whichever of its paths. A strategy that liquidates goes on to look for an entry in
  the same tick, and only the cool-down it just started keeps it from buying back: hence the hypothesis that the
  cool-down is positive (3600 in `config.py:98`, 15 in `docker-compose.yml:35`). `SessionInv`: holdings of a
  stock are whole lots, so selling all of one leaves nothing; a position was bought on the day its session is of.

## 11. The trading VM

**Modules.** `CandleJobs`, `TradeOnce`, `Collectors` and `TradeVm`, which adds migrations and
maintenance. The jobs of a boot follow each other and share tables only as `TradeOnce` says (its boot
runs the coin backfill), so a behaviour is about one flow, chosen at the start.

| Flow | Code | Actions |
|---|---|---|
| `coin` | `db-init`'s repair; `backfill_daily`; `_already_ran_today`; `stale_bar_reason`, `compute_targets`, `plan_decisions`; a decision and its record; `record_snapshot`; message and exit code; exceptions; a stop | `Boot`; `BackfillCoins`; `Start`; `Plan`; `Commit`; `Snapshot`; `Report`; `Fail`; `PowerOff` |
| `fill` | `backfill_daily.main`, with coins that fail | `FillStep` |
| `cache` | `upbit_candles.backfill`, cut short after any page | `CacheStep` |
| `stock` | a split; `refresh_stock_daily`; `selective_stock_backfill` | `Split`; `Refresh`; `SelectiveBackfill` |
| `schema` | `scripts/init_db.py` and `common/migrations.py` | `Pull`, `ApplyPostgres`, `CommitPostgres`, `ApplyClickhouse`, `FailInit` |
| `upkeep` | `maintenance_once.main`, `verify_freshness` | `StartUpkeep`, `RunStep`, `EndUpkeep`, `KillUpkeep` |
| `collect` | one collector, over the runs of maintenance | `FinraRun`, `BulkLoad`, `KrxRun`, `ZipRun`, `HoldingsRun`, `DartRun`, `LookUp`, `MemberRun` |

**Abstracted.** A candle is its day or minute, a stored close the number of splits it was adjusted for, a
report the quarter it is of. Targets of the daily run are any (section 9 says how they arise); its
quotes are such that the fees of the plan, not rounded in the code, are whole. A collector models one table
or one company: DART has one company and no values, KRX no partial rows of a failing symbol. FINRA has the real
15 days of its cycle and 75 of its window; other calendars are scaled. Whatever FINRA does not answer with a
file is passed over, and the run goes on (finra_short.py:72): `refused` are the published files of which that
is true. `_fetch_zip` has no zip for a quarter that is answered 403, or whose second download does not open
either, and the quarter is passed over like one not yet published: `skipped`. An empty list of an index is
dropped, be it of a holiday or of a lost login: `blanked`. A message is sent or not
(`Sent`); the shell reports exit codes other than 0 and 70, over the same channel and with `|| true`, so its
message may be lost as well (trade-vm-startup.sh:123). Left out: `fred`, `usdkrw` and the other sources that are
fetched anew at every run, charts, a dry run.

**Run.** `tradevm`, bounds by flow: three boots over three days, the third by the second
day (`ThirdBootEarly`), two coins, one of them listed later, and one account, so that a day has two
decisions, a run can die between them and the day can be tried again; eight days of coin backfills in pages of
two with a window of three; a minute cache asked for two depths; two splits; three migrations of up to two
statements; three months of maintenance over three steps of which two feed one table; and for each collector as
many runs as its hazard takes (two failing months and one refused file for FINRA, two years of two
quarters, two days off the grid for memberships). No property is about progress: no fairness.

**What holds, with its conditions.** `CoinDaysAreWhole` needs backfills no farther apart than `--days`: a VM that
is off for longer leaves a hole for good. `OneFactor` needs selective passes less than the difference of probe
and refresh windows apart. `OneMissHeals` allows no two failed months in a row and leaves out files that were
refused, `TornZipHeals` quarters that were skipped. `NoGhostMember` allows no empty list on a day of trading.
`UpkeepIsHeard` leaves out runs of which both messages got lost, `CacheResumes` a cache that was cut short on
its way to the newest minute.

**Findings.**
- `NoStaleTrade`: the age of the candles is that of the youngest coin (trade_once.py:50), so a coin whose backfill
  fails is traded on old bars.
- `FailureIsHeard`: the message of a run with rejected orders may fail and 70 is returned all the same, which
  keeps the shell from reporting it.
- A second purchase that is bound by the cash may be rejected: the plan takes unrounded fees off the cash,
  the ledger rounds.
- `CacheIsWhole`: pages are appended newest first, so a fill that ends early leaves a hole below the newest
  minute, and the next one starts above it.
- `KrxHasNoHole`: symbols that fail are passed over, and the next start is taken from the last day of a table over
  all symbols: the rows of the others hide the hole.
- `EveryReportCollected`: maintenance asks for the quarters of its own year, and the last quarter of a year is
  published in the next (it fails without any quarter skipped). For the same reason `sec_13f` finds no zip at
  all in January and fails with an `IndexError`, and the Korean annual report, from which the fourth quarter is
  computed, is never asked for.
- `CodesAreFound`: a failed request for a SIC code is cached like an answer. `corp_map.json` is likewise kept from
  its first download, and written without an atomic rename.
- `SilentFeedIsFound`: freshness looks at the newest row of a table, whichever feed stored it: a feed of
  Korea hides behind that of the US.
- `FileByFile`: all Postgres files of a boot are in one transaction, so a failing file undoes those before it.
- A run of the membership collector on a weekday off the grid takes a snapshot no later run looks at: its
  intervals stay. `NoGhostMember` therefore has runs on weekends (as maintenance is scheduled) or on grid days.

**Proofs** (`TradeVmProofs`, any number of versions, statements, steps, symbols, accounts, coins and days).
The flows share no variable that the other's properties read, so each flow has an invariant of its own.
- `RecordsAreTrue`: `SchemaInv` adds to `RecordedIsApplied` that the statements before the one in hand are
  applied and that the open transaction keeps rows and statements together.
- `UpkeepHeard`: the two exit codes and the message leave no failed run unheard, whatever the steps did, unless
  the shell's message is lost too.
- `NoGhosts`: under the assumption that runs on weekdays are on the grid, what a run derives replaces every
  interval of an earlier one (unless an empty list of a day of trading was dropped), because a join seen from
  the same grid days stays the same join (`JoinsStay`); the inductive invariant is that the memberships
  are those of the last list (`Derived`).
- `TradedIsRecorded`, `EveryDayOnCurve`: `TradeInv` says that the decisions on record and those still to make
  are about different pairs of account and symbol of a day (`Apart`), and that a run past its plan starts on a day
  without decisions (`_already_ran_today`). So a day tried again repeats nothing that was recorded.
- `StoresHaveNoHole`: of a coin, the days stored up to its last backfill have no hole as long as no two backfills
  were more than `--days` apart (`CoinKept`); of the minute cache, what is stored is a run of minutes unless it
  was torn (`CacheKept`). The pages of a fill are counted down by division, hence `QuotientAndRest`.
- `OneFactorAfterPass`: `StockKept` says how old a day can be that no refresh reaches any more, and that the
  closes older than the last pass are of one adjustment while passes are regular.
- `GapsAreCaused`, for calendars on which FINRA's window outlasts two gaps between runs and the lag of
  publication (`WindowOutlasts`: gaps of 28 and 35 days, no two long ones in a row, and a lag of 10 fit into 75
  days): what is published and not stored was missed by a failure or passed over, one conjunct per collector
  (`FinraKept`, `KrxKept`, `ZipKept`, `DartKept`): a file of FINRA that was refused, a KRX symbol that failed,
  a quarter that was skipped, a DART run that was not answered in full.

`TradeOnce` and the collectors override functions with `Over` rather than with the `@@` of the TLC module,
which the provers know nothing of.

## 12. Not modelled

- **API.** Routes other than orders only read. The cache of answers, sessions, sign-in and the
  Telegram bot keep state no trade depends on.
- **Shared infrastructure.** The token bucket, the OAuth token and retries of GET requests: each is a few lines
  around one Redis call, and its callers' models already let any request fail or be slow.
- **Portfolio readers and the equity series** only read.
- **Candle jobs and collectors** without state of their own: intraday candles of stocks, the load of CSV files,
  EDGAR, earnings, factor returns, FRED, delistings, US membership. They fetch everything anew.
- **MACD, metrics, research** (`batch/ml`, `batch/features`): real-valued numerical work.
- **Presentation and deployment.** Of `infra/trade-vm-startup.sh` the order of its steps, its notice and its stop
  are modelled (`Boot`, `BackfillCoins`, `Heard`, `PowerOff` of `TradeOnce`; `Pull`, `KillUpkeep` of `TradeVm`);
  docker-compose appears as the environment that starts, stops and repeats.
- Times of day and zones: the market clock is part of guards.
- Floating point, credentials, signatures, wording of messages.

Only model-checked, in all parts: liveness (`MarketOrdersSettle`, `LimitOrdersSettle`, `ChaseEnds`,
`DueOrdersAreTaken`), which is out of the prover's reach; `WeightsAreGuarded` and `SecondActIsQuiet`
(section 9).
Proved and no longer listed in a run, because another property of the run implies them or they say little by
themselves: `TypeOK` of five of the proved components, `Routing`, `SettledOnce`, `CommittedMeansSettled`, `ReordersTheRest`,
`QuietOnceMarked`.
