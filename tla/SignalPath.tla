----------------------------- MODULE SignalPath -----------------------------
(***************************************************************************)
(* The streaming signal path: the worker that turns the tick stream into   *)
(* one signal per load and closed day (runners/live_ensemble.py), the      *)
(* commander that combines the signals of a bar and rebalances the         *)
(* accounts (runners/commander.py), and what lies between them: candles_1d *)
(* as the roll-up leaves it, a signal topic whose messages carry no key    *)
(* and so arrive in any order, and the orders still to be executed.        *)
(*                                                                         *)
(* Both processes commit offsets on a timer: after a restart the worker    *)
(* reads some ticks again, the commander some signals.  What a restarted   *)
(* commander skips, polled and committed but not handled, is a signal that *)
(* is never read.                                                          *)
(***************************************************************************)
EXTENDS Rebalance, Trend, WeightPolicy

CONSTANTS
  Symbols, Accounts,
  Loads,             \* names of the roster
  LoadOf,            \* [Loads -> [short, long]]
  Prices,
  Histories,         \* sequences of Past closes, of the days before the first
  Past,
  Appraisals,        \* what a re-evaluation finds: [scores, passed]
  Reevals,           \* bound: re-evaluations
  LastDay,           \* bounds: the last day, ticks of a symbol, restarts of
  MaxTicks,          \*   worker and commander, ticks read again
  MaxRestarts,
  MaxReplay,
  Cash0,             \* [Accounts -> Nat]
  Adaptive           \* ENSEMBLE_ADAPTIVE

ASSUME PathAssumption ==
  /\ IsFiniteSet(Symbols) /\ IsFiniteSet(Accounts) /\ IsFiniteSet(Loads)
  /\ Loads # {} /\ Prices \subseteq Nat \ {0}
  /\ LoadOf \in [Loads -> [short : Nat \ {0}, long : Nat \ {0}]]
  /\ Histories \subseteq [1..Past -> Nat \ {0}]
  /\ Reevals \in Nat
  /\ \A f \in Appraisals : f.scores \in [Loads -> Int] /\ f.passed \subseteq Loads
  /\ Past \in Nat \ {0} /\ LastDay \in Nat /\ MaxTicks \in Nat
  /\ MaxRestarts \in Nat /\ MaxReplay \in Nat
  /\ Cash0 \in [Accounts -> Nat]

VARIABLES
  day,          \* today; the days before it are complete
  past,         \* past[s]: closes of the days 1..Past
  ticks,        \* market.ticks: per symbol a sequence of [day, price]
  rolled,       \* candles_1d holds the days 1..rolled
  up, pos,      \* worker: running, ticks read per symbol
  fed,          \* worker: what its signals were fed, [day, close]
  curDay, dayClose,  \* cur_day, day_close; 0 for none
  issued,       \* history: bars published, per symbol
  topic,        \* strategy.signals: messages the commander may still read
  seen,         \*   and those it has read since it started
  rows,         \* strategy_weights
  cmd,          \* commander: the act in hand, or Idle
  latest,       \* commander: per symbol and load the last [bar, target]
  acted,        \* last_acted; 0 for none
  cash, held, orders,
  settled,      \* history: [w, at] of an account's last order, filled as decided
  restarts, reevals

market == <<day, past, ticks, rolled>>
worker == <<up, pos, fed, curDay, dayClose, issued>>
commander == <<cmd, latest, acted>>
ledger == <<cash, held, orders, settled>>
weighting == <<rows, reevals>>
vars == <<market, worker, topic, seen, weighting, commander, ledger, restarts>>

Idle == [sym |-> "idle"]
NoSignal == [bar |-> 0, target |-> 0]
Nothing == [bar |-> 0]

\* The ticks of a symbol on a day, and the close of a day that is over.
TicksOn(s, d) == {i \in DOMAIN ticks[s] : ticks[s][i].day = d}
Close(s, d) == IF d <= Past THEN past[s][d] ELSE ticks[s][Max(TicksOn(s, d))].price
Candles(s) == [d \in 1..rolled |-> [day |-> d, close |-> Close(s, d)]]
Closes(seq) == [i \in 1..Len(seq) |-> seq[i].close]

\* The last prices of the symbols that traded in the last hour, any of them.
Traded == {s \in Symbols : ticks[s] # << >>}
LatestPrices(quoted) == [s \in quoted |-> Last(ticks[s]).price]

(***************************************************************************)
(* The targets of every load for a symbol, as messages about a bar.        *)
(***************************************************************************)
Signals(s, seq, bar) ==
  { [sym |-> s, load |-> n, bar |-> bar, target |-> Fed(Closes(seq), LoadOf[n]).target] :
      n \in Loads }

Init ==
  /\ day = Past + 1
  /\ past \in [Symbols -> Histories]
  /\ ticks = [s \in Symbols |-> << >>]
  /\ rolled = Past
  /\ up = FALSE
  /\ pos = [s \in Symbols |-> 0]
  /\ fed = [s \in Symbols |-> << >>]
  /\ curDay = [s \in Symbols |-> 0]
  /\ dayClose = [s \in Symbols |-> 0]
  /\ issued = [s \in Symbols |-> << >>]
  /\ topic = {} /\ seen = {}
  /\ rows = << >>
  /\ cmd = Idle
  /\ latest = [s \in Symbols |-> [n \in Loads |-> NoSignal]]
  /\ acted = [s \in Symbols |-> 0]
  /\ cash = Cash0
  /\ held = [a \in Accounts |-> [s \in Symbols |-> 0]]
  /\ orders = {}
  /\ settled = [a \in Accounts |-> [s \in Symbols |-> Nothing]]
  /\ restarts = 0 /\ reevals = 0

-----------------------------------------------------------------------------
(***************************************************************************)
(* The market, and the hourly roll-up of the last two complete days.  (Had *)
(* it been down for longer, the days before would stay a hole in           *)
(* candles_1d until a backfill: CandleJobs.)                               *)
(***************************************************************************)
LookbackDays == 2

Trade(s, p) ==
  /\ Len(ticks[s]) < MaxTicks
  /\ ticks' = [ticks EXCEPT ![s] = Append(@, [day |-> day, price |-> p])]
  /\ UNCHANGED <<day, past, rolled, worker, topic, seen, weighting, commander, ledger, restarts>>

Midnight ==
  /\ day < LastDay
  /\ \A s \in Symbols : TicksOn(s, day) # {}
  /\ day' = day + 1
  /\ UNCHANGED <<past, ticks, rolled, worker, topic, seen, weighting, commander, ledger, restarts>>

RollUp ==
  /\ rolled < day - 1 /\ day - 1 - rolled <= LookbackDays
  /\ rolled' = day - 1
  /\ UNCHANGED <<day, past, ticks, worker, topic, seen, weighting, commander, ledger, restarts>>

(***************************************************************************)
(* The worker starts: every complete bar in candles_1d goes through the    *)
(* loads, and the signals of the last one are published.                   *)
(***************************************************************************)
Prime ==
  /\ ~ up /\ up' = TRUE
  /\ fed' = [s \in Symbols |-> Candles(s)]
  /\ curDay' = [s \in Symbols |-> rolled]
  /\ dayClose' = [s \in Symbols |-> Close(s, rolled)]
  /\ issued' = [s \in Symbols |-> Append(issued[s], rolled)]
  /\ topic' = topic \union UNION {Signals(s, Candles(s), rolled) : s \in Symbols}
  /\ \E back \in 0..MaxReplay :
       pos' = [s \in Symbols |-> Max({0, pos[s] - back})]
  /\ UNCHANGED <<market, seen, weighting, commander, ledger, restarts>>

\* The new day's price is taken before the old day's signals are made.
OnTickBug(s) ==
  /\ up /\ pos[s] < Len(ticks[s])
  /\ pos' = [pos EXCEPT ![s] = @ + 1]
  /\ LET tick == ticks[s][pos[s] + 1]
         longer == Append(fed[s], [day |-> curDay[s], close |-> tick.price])
     IN  IF tick.day > curDay[s]
         THEN /\ fed' = [fed EXCEPT ![s] = longer]
              /\ issued' = [issued EXCEPT ![s] = Append(@, curDay[s])]
              /\ topic' = topic \union Signals(s, longer, curDay[s])
              /\ curDay' = [curDay EXCEPT ![s] = tick.day]
              /\ dayClose' = [dayClose EXCEPT ![s] = tick.price]
         ELSE /\ dayClose' = IF tick.day = curDay[s]
                             THEN [dayClose EXCEPT ![s] = tick.price] ELSE dayClose
              /\ UNCHANGED <<fed, issued, topic, curDay>>
  /\ UNCHANGED <<market, up, seen, weighting, commander, ledger, restarts>>

(***************************************************************************)
(* LiveEnsemble.on_tick.  The first tick of a later day closes the current *)
(* one: its last price goes through the loads and their signals are        *)
(* published.  A tick of the current day moves its close, an earlier one   *)
(* is ignored.                                                             *)
(***************************************************************************)
OnTick(s) ==
  /\ up /\ pos[s] < Len(ticks[s])
  /\ pos' = [pos EXCEPT ![s] = @ + 1]
  /\ LET tick == ticks[s][pos[s] + 1]
         longer == Append(fed[s], [day |-> curDay[s], close |-> dayClose[s]])
     IN  IF tick.day > curDay[s]
         THEN /\ fed' = [fed EXCEPT ![s] = longer]
              /\ issued' = [issued EXCEPT ![s] = Append(@, curDay[s])]
              /\ topic' = topic \union Signals(s, longer, curDay[s])
              /\ curDay' = [curDay EXCEPT ![s] = tick.day]
              /\ dayClose' = [dayClose EXCEPT ![s] = tick.price]
         ELSE /\ dayClose' = IF tick.day = curDay[s]
                             THEN [dayClose EXCEPT ![s] = tick.price] ELSE dayClose
              /\ UNCHANGED <<fed, issued, topic, curDay>>
  /\ UNCHANGED <<market, up, seen, weighting, commander, ledger, restarts>>

WorkerStops ==
  /\ up /\ restarts < MaxRestarts
  /\ up' = FALSE
  /\ restarts' = restarts + 1
  /\ UNCHANGED <<market, pos, fed, curDay, dayClose, issued, topic, seen, weighting,
                 commander, ledger>>

-----------------------------------------------------------------------------
(***************************************************************************)
(* The commander reads a signal.  It waits until every load of the roster  *)
(* has signalled the bar, and then acts, unless the bar is the one it last *)
(* acted on.                                                               *)
(***************************************************************************)
Read(m) ==
  /\ cmd = Idle
  /\ m \in topic
  /\ topic' = topic \ {m}
  /\ seen' = seen \union {m}
  /\ latest' = [latest EXCEPT ![m.sym][m.load] = [bar |-> m.bar, target |-> m.target]]
  /\ LET w == CombinedForBar(latest'[m.sym], Loads, m.bar, LoadWeights(Loads, rows, Adaptive))
     IN  \E quoted \in SUBSET Traded :
           cmd' = IF acted[m.sym] = m.bar \/ w = Unknown
                  THEN Idle
                  ELSE [sym |-> m.sym, bar |-> m.bar, w |-> w,
                        prices |-> LatestPrices(quoted), todo |-> Accounts]
  /\ UNCHANGED <<market, worker, weighting, acted, ledger, restarts>>

\* Only a sale counts.
HasPendingBug(a, s) == \E o \in orders : o.account = a /\ o.sym = s /\ o.side = "SELL"
HasPending(a, s) == \E o \in orders : o.account = a /\ o.sym = s

(***************************************************************************)
(* _rebalance of one account: nothing while an order of the symbol is      *)
(* still to be executed, or without a price; otherwise what decide says.   *)
(***************************************************************************)
Decision(a) ==
  LET s == cmd.sym
  IN  IF HasPending(a, s) \/ s \notin DOMAIN cmd.prices
      THEN None
      ELSE Decide(held[a][s], cmd.prices[s], cash[a],
                  Equity(cash[a], held[a], cmd.prices), cmd.w)

RebalanceAccount(a) ==
  /\ cmd # Idle /\ a \in cmd.todo
  /\ cmd' = [cmd EXCEPT !.todo = @ \ {a}]
  /\ orders' = IF Decision(a) = None
               THEN orders
               ELSE orders \union {[account |-> a, sym |-> cmd.sym, w |-> cmd.w,
                                    side |-> Decision(a).side, qty |-> Decision(a).qty,
                                    at |-> cmd.prices]}
  /\ UNCHANGED <<market, worker, topic, seen, weighting, latest, acted, cash, held,
                 settled, restarts>>

ActDone ==
  /\ cmd # Idle /\ cmd.todo = {}
  /\ acted' = [acted EXCEPT ![cmd.sym] = cmd.bar]
  /\ cmd' = Idle
  /\ UNCHANGED <<market, worker, topic, seen, weighting, latest, ledger, restarts>>

(***************************************************************************)
(* The commander stops, between two messages or in the middle of an act,   *)
(* and another starts with empty buffers; what the timer had not committed *)
(* by then, any part of what was read, is read again.                      *)
(***************************************************************************)
CommanderRestarts ==
  /\ restarts < MaxRestarts
  /\ restarts' = restarts + 1
  /\ \E again \in SUBSET seen : topic' = topic \union again
  /\ seen' = {}
  /\ cmd' = Idle
  /\ latest' = [s \in Symbols |-> [n \in Loads |-> NoSignal]]
  /\ acted' = [s \in Symbols |-> 0]
  /\ UNCHANGED <<market, worker, weighting, ledger>>

(***************************************************************************)
(* reeval_weights scores the loads over the past and stores the weights,   *)
(* all of them in one transaction.                                         *)
(***************************************************************************)
Reevaluate(found) ==
  /\ reevals < Reevals
  /\ reevals' = reevals + 1
  /\ rows' = ComputeWeights(found.scores, found.passed, rows)
  /\ UNCHANGED <<market, worker, topic, seen, commander, ledger, restarts>>

-----------------------------------------------------------------------------
(***************************************************************************)
(* A market order executes at the price of the moment, if the account      *)
(* covers it (OrderPipeline, OrderTerms).                                  *)
(***************************************************************************)
Execute(o) ==
  LET p == Last(ticks[o.sym]).price
      covered == IF o.side = "BUY" THEN Cost(p, o.qty) <= cash[o.account]
                                   ELSE o.qty <= held[o.account][o.sym]
  IN  /\ o \in orders
      /\ orders' = orders \ {o}
      /\ IF covered
         THEN /\ cash' = [cash EXCEPT ![o.account] =
                            IF o.side = "BUY" THEN HalfUp(@ - Cost(p, o.qty))
                                              ELSE HalfUp(@ + Proceeds(p, o.qty))]
              /\ held' = [held EXCEPT ![o.account][o.sym] =
                            IF o.side = "BUY" THEN @ + o.qty ELSE @ - o.qty]
         ELSE UNCHANGED <<cash, held>>
      /\ settled' = [settled EXCEPT ![o.account] =
                       [s \in Symbols |-> IF s = o.sym /\ covered /\ p = o.at[s]
                                          THEN [w |-> o.w, at |-> o.at] ELSE Nothing]]
      /\ UNCHANGED <<market, worker, topic, seen, weighting, commander, restarts>>

Next ==
  \/ \E s \in Symbols : OnTick(s) \/ \E p \in Prices : Trade(s, p)
  \/ Midnight \/ RollUp
  \/ Prime \/ WorkerStops
  \/ \E m \in topic : Read(m)
  \/ \E a \in Accounts : RebalanceAccount(a)
  \/ ActDone \/ CommanderRestarts
  \/ \E found \in Appraisals : Reevaluate(found)
  \/ \E o \in orders : Execute(o)

Spec == Init /\ [][Next]_vars
-----------------------------------------------------------------------------
(***************************************************************************)
(* What a load is fed for a day is the last price of that day, whether it  *)
(* comes from candles_1d or from the stream, and however often the worker  *)
(* starts and reads ticks again (live_ensemble.on_tick, prime).            *)
(***************************************************************************)
FedCloseIsOfItsDay ==
  \A s \in Symbols : \A i \in 1..Len(fed[s]) :
    fed[s][i].close = Close(s, fed[s][i].day)

(***************************************************************************)
(* The commander asks for a pending order before each decision, also when  *)
(* it acts on a bar for a second time (commander._has_pending): an account *)
(* never has two orders of a symbol waiting.                               *)
(***************************************************************************)
OneOrderEach ==
  \A o, p \in orders : o.account = p.account /\ o.sym = p.sym => o = p

(***************************************************************************)
(* Nor has it more of a symbol on sale than the account holds.             *)
(***************************************************************************)
SalesAreHeld ==
  /\ OneOrderEach
  /\ \A o \in orders : o.side = "SELL" => o.qty <= held[o.account][o.sym]

(***************************************************************************)
(* Acting twice is harmless: once an order has been filled at the price it *)
(* was decided at, the same target at the same prices gives no other       *)
(* (rebalance.decide; a restarted commander forgets what it acted on).     *)
(***************************************************************************)
SecondActIsQuiet ==
  [][ \A a \in Accounts :
        RebalanceAccount(a) /\ settled[a][cmd.sym] = [w |-> cmd.w, at |-> cmd.prices]
        => orders' = orders ]_vars

(***************************************************************************)
(* The header of live_ensemble.py: on entering a new day the signals of    *)
(* the day before are published once, and a restart is made good by the    *)
(* warm-up from candles_1d.                                                *)
(***************************************************************************)
EachBarOnce ==
  \A s \in Symbols : restarts = 0 =>
    \A i, j \in 1..Len(issued[s]) : issued[s][i] = issued[s][j] => i = j

(***************************************************************************)
(* A demoted load keeps a weight and none takes over: however often the    *)
(* loads are scored, the stored weights stay between floor and cap and add *)
(* up (weight_policy: demote, not delete).                                 *)
(***************************************************************************)
WeightsAreGuarded == rows # << >> => Guarded(rows)
=============================================================================
