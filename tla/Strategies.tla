----------------------------- MODULE Strategies -----------------------------
(***************************************************************************)
(* The strategies of the registry as steps (strategy/plugins): each takes  *)
(* its state, the broker and a tick, and gives the state and the broker    *)
(* after on_tick.  A tick is [sym, price, ts]; the engine has already made *)
(* its price the last one of the symbol.                                   *)
(*                                                                         *)
(* Fractions and percentages are compared multiplied across.  A profit     *)
(* over the average cost of a holding is represented by the price it is    *)
(* reached at, since the average of a holding does not change there.  The  *)
(* ensemble and the cross-section share one rebalance band.                *)
(***************************************************************************)
EXTENDS BacktestBroker, Trend

CONSTANTS
  Loads,                     \* names of the ensemble's loads
  LoadOf,                    \* [Loads -> [short, long]]
  TrendLoad,                 \* the load of the trend strategy
  TrendBandNum, TrendBandDen,
  SmaLoad,                   \* SMA_SHORT, SMA_LONG
  EntryNum, EntryDen,        \* STRATEGY_ENTRY_BAND
  EdgeNum,                   \* STRATEGY_MIN_EDGE_PCT, over EntryDen
  ConfirmTicks, DeadcrossExit,
  StopPct, TakePct, ArmPct, GivebackPct,
  Warmup, Cooldown, MinHold, \* seconds
  MaxPositions,
  FractionPct,               \* order_fraction
  Window, DevSq,             \* length of a price buffer, deviations squared
  DayLen, CloseAt, BarLen,   \* a day, its closing time, a bar
  OpeningBars, MomNum, MomDen,
  XsLookback, XsTop, XsWeight

ASSUME StrategyAssumption ==
  /\ MinHold \in Nat /\ Cooldown \in Nat /\ Warmup \in Nat
  /\ DayLen \in Nat \ {0} /\ BarLen \in Nat \ {0} /\ MaxPositions \in Nat
  /\ IsFiniteSet(Loads) /\ Loads # {}
  /\ LoadOf \in [Loads -> [short : Nat \ {0}, long : Nat \ {0}]]
  /\ TrendLoad \in [short : Nat \ {0}, long : Nat \ {0}]
  /\ FractionPct \in Nat /\ XsTop \in Nat /\ XsWeight \in Nat
  /\ OpeningBars \in Nat \ {0} /\ MomNum \in Nat /\ MomDen \in Nat \ {0}

\* A deque with a maximal length.
Push(seq, x, n) == LET all == Append(seq, x) IN IF Len(all) > n THEN Tail(all) ELSE all

-----------------------------------------------------------------------------
(***************************************************************************)
(* TrendStrategy: all in cash when the short average is below the long one *)
(* or volatility is extreme; an entry sized once, and adjusted only with a *)
(* band.  Whether it is long is what the broker holds.                     *)
(***************************************************************************)
TrendBars(load) == Max({load.short, load.long, Lookback + 1})

TrendBuy(b, t, budget) ==
  IF budget < MinOrder THEN b ELSE Buy(b, t.sym, AffordableQty(budget, t.price), t.price)

TrendEnter(b, t, w) == TrendBuy(b, t, Lesser((Worth(b) * w) \div Tenths, b.cash))

TrendRebalance(b, t, w) ==
  LET value == b.pos[t.sym].qty * t.price * Tenths
      aim   == Worth(b) * w
  IN  IF TrendBandNum = 0 \/ Distance(value, aim) * TrendBandDen < TrendBandNum * aim
      THEN b
      ELSE IF aim > value
           THEN TrendBuy(b, t, Lesser((aim - value) \div Tenths, b.cash))
           ELSE Sell(b, t.sym, Lesser((value - aim) \div (t.price * Tenths), b.pos[t.sym].qty),
                     t.price)

TrendStep(st, b, t, load) ==
  LET closes == Push(st[t.sym], t.price, TrendBars(load) + 1)
      vol    == Vol(closes)
      w      == TargetWeight(vol)
  IN  [st |-> [st EXCEPT ![t.sym] = closes],
       b  |-> IF Len(closes) < TrendBars(load) THEN b
              ELSE IF b.pos[t.sym].qty > 0
                THEN IF vol > MaxVol \/ Below(closes, load)
                     THEN SellAll(b, t.sym, t.price) ELSE TrendRebalance(b, t, w)
                ELSE IF vol <= MaxVol /\ Above(closes, load) THEN TrendEnter(b, t, w) ELSE b]

(***************************************************************************)
(* EnsembleStrategy: the loads of the live path, combined with equal       *)
(* weights, and decide.                                                    *)
(***************************************************************************)
EnsembleStep(st, b, t) ==
  LET closes == Append(st[t.sym].closes, t.price)
      after  == [n \in Loads |-> Update(st[t.sym].long[n], closes, LoadOf[n])]
      order  == Decide(b.pos[t.sym].qty, t.price, b.cash, Worth(b),
                       Weighted(after, Loads, [n \in Loads |-> 1]))
  IN  [st |-> [st EXCEPT ![t.sym] = [closes |-> closes, long |-> [n \in Loads |-> after[n].long]]],
       b  |-> Obey(b, t.sym, order, t.price)]

-----------------------------------------------------------------------------
(***************************************************************************)
(* The discipline of the tick strategies (sma_trader.py, disciplined.py):  *)
(* d is [start, and per symbol peak, entry, exit], with Never for a time   *)
(* that was not set.                                                       *)
(***************************************************************************)
Never == -1000

Disciplined0 ==
  [start |-> Never, peak |-> [s \in Symbols |-> 0],
   entry |-> [s \in Symbols |-> Never], exit |-> [s \in Symbols |-> Never]]

\* price/avg - 1 against per cents; STOP, TAKE and TRAIL.
Liquidates(pos, price, peak) ==
  \/ price * Lot * 100 <= pos.avg * (100 - StopPct)
  \/ price * Lot * 100 >= pos.avg * (100 + TakePct)
  \/ /\ peak * Lot * 100 >= pos.avg * (100 + ArmPct)
     /\ (peak - price) * Lot * 100 >= pos.avg * GivebackPct

Left(d, s, now) == [d EXCEPT !.exit[s] = now, !.peak[s] = 0, !.entry[s] = Never]

CheckLiquidations(d, b, t) ==
  LET s    == t.sym
      peak == Max({d.peak[s], t.price})
      sold == SellAll(b, s, t.price)
  IN  CASE b.pos[s].qty = 0 -> [d |-> [d EXCEPT !.peak[s] = 0], b |-> b]
        [] b.pos[s].qty > 0 /\ Liquidates(b.pos[s], t.price, peak) /\ sold # b ->
             [d |-> Left(d, s, t.ts), b |-> sold]
        [] OTHER -> [d |-> [d EXCEPT !.peak[s] = peak], b |-> b]

Cooled(d, s, now) == now - d.exit[s] >= Cooldown

Enter(d, b, t, pct) ==
  LET s      == t.sym
      budget == (b.cash * pct) \div 100
      bought == Buy(b, s, RoundEven(b.cash * pct, 100 * t.price), t.price)
  IN  IF /\ t.ts - d.start >= Warmup
         /\ b.pos[s].qty = 0
         /\ Cooled(d, s, t.ts)
         /\ Cardinality(Held(b)) < MaxPositions
         /\ budget >= MinOrder
         /\ bought # b
      THEN [d |-> [d EXCEPT !.entry[s] = t.ts, !.peak[s] = 0], b |-> bought]
      ELSE [d |-> d, b |-> b]

ExitSignal(d, b, t) ==
  LET s    == t.sym
      sold == SellAll(b, s, t.price)
  IN  IF /\ t.ts - d.start >= Warmup
         /\ b.pos[s].qty > 0
         /\ t.ts - d.entry[s] >= MinHold
         /\ Cooled(d, s, t.ts)
         /\ sold # b
      THEN [d |-> Left(d, s, t.ts), b |-> sold]
      ELSE [d |-> d, b |-> b]

Started(d, now) == IF d.start = Never THEN [d EXCEPT !.start = now] ELSE d

(***************************************************************************)
(* SMAStrategy: a trend counts after ConfirmTicks ticks in a row.          *)
(* position_fraction is abstracted to its maximum.                         *)
(***************************************************************************)
Gap(closes) ==  \* (short - long)/long as [num, den]
  [num |-> Sum(Recent(closes, SmaLoad.short)) * SmaLoad.long
             - Sum(Recent(closes, SmaLoad.long)) * SmaLoad.short,
   den |-> Sum(Recent(closes, SmaLoad.long)) * SmaLoad.short]

SmaState(closes) ==
  CASE Len(closes) < SmaLoad.long -> "NONE"
    [] Len(closes) >= SmaLoad.long /\ Gap(closes).num * EntryDen >= EntryNum * Gap(closes).den -> "BUY"
    [] Len(closes) >= SmaLoad.long /\ Gap(closes).num * EntryDen <= -EntryNum * Gap(closes).den -> "SELL"
    [] OTHER -> "NONE"

Sma0 == [closes |-> << >>, trend |-> "NONE", maybe |-> "NONE", n |-> 0]

\* The confirmed trend and the candidate, after one more price.
Confirm(c, price) ==
  LET closes == Push(c.closes, price, SmaLoad.long)
      raw    == SmaState(closes)
      n      == IF c.maybe = raw THEN c.n + 1 ELSE 1
  IN  IF raw = "NONE" \/ raw = c.trend
      THEN [c EXCEPT !.closes = closes, !.maybe = "NONE", !.n = 0]
      ELSE IF n >= ConfirmTicks
           THEN [closes |-> closes, trend |-> raw, maybe |-> "NONE", n |-> 0]
           ELSE [c EXCEPT !.closes = closes, !.maybe = raw, !.n = n]

StrongEdge(closes) == Gap(closes).num * EntryDen >= EdgeNum * Gap(closes).den

SmaStep(st, b, t) ==
  LET c    == Confirm(st.c[t.sym], t.price)
      raw  == SmaState(c.closes)
      kept == CheckLiquidations(Started(st.d, t.ts), b, t)
      done == CASE c.trend = "BUY" /\ raw = "BUY" /\ StrongEdge(c.closes) ->
                     Enter(kept.d, kept.b, t, FractionPct)
                [] c.trend = "SELL" /\ raw = "SELL" /\ DeadcrossExit -> ExitSignal(kept.d, kept.b, t)
                [] OTHER -> kept
  IN  [st |-> [c |-> [st.c EXCEPT ![t.sym] = c], d |-> done.d], b |-> done.b]

-----------------------------------------------------------------------------
(***************************************************************************)
(* The signals of the disciplined strategies, over a full buffer: a        *)
(* channel of the prices before the last, two deviations around the mean,  *)
(* and the share of gains among the moves, 30 and 70 per cent.             *)
(***************************************************************************)
Breakout(buf) ==
  LET price == Last(buf)
      prior == ToSet(Front(buf))
  IN  IF price > Max(prior) THEN "BUY" ELSE IF price < Min(prior) THEN "SELL" ELSE "NONE"

Bollinger(buf) ==
  LET n   == Len(buf)
      off == n * Last(buf) - Sum(buf)
      var == n * Sum([i \in 1..n |-> buf[i] * buf[i]]) - Sum(buf) * Sum(buf)
  IN  IF var = 0 \/ off * off < DevSq * var THEN "NONE" ELSE IF off < 0 THEN "BUY" ELSE "SELL"

Rsi(buf) ==
  LET move == [i \in 1..(Len(buf) - 1) |-> buf[i + 1] - buf[i]]
      up   == Sum([i \in DOMAIN move |-> Max({0, move[i]})])
      down == Sum([i \in DOMAIN move |-> Max({0, -move[i]})])
  IN  CASE up + down = 0 -> "NONE"
        [] up + down > 0 /\ 100 * up <= 30 * (up + down) -> "BUY"
        [] up + down > 0 /\ 100 * up >= 70 * (up + down) -> "SELL"
        [] OTHER -> "NONE"

RuleSignal(rule, buf) ==
  CASE Len(buf) < Window -> "NONE"
    [] Len(buf) = Window /\ rule = "breakout" -> Breakout(buf)
    [] Len(buf) = Window /\ rule = "bollinger" -> Bollinger(buf)
    [] Len(buf) = Window /\ rule = "rsi" -> Rsi(buf)

\* DisciplinedStrategy.on_tick.
RuleStep(st, b, t, rule) ==
  LET buf  == Push(st.c[t.sym], t.price, Window)
      sig  == RuleSignal(rule, buf)
      kept == CheckLiquidations(Started(st.d, t.ts), b, t)
      done == CASE sig = "BUY" -> Enter(kept.d, kept.b, t, FractionPct)
                [] sig = "SELL" -> ExitSignal(kept.d, kept.b, t)
                [] OTHER -> kept
  IN  [st |-> [c |-> [st.c EXCEPT ![t.sym] = buf], d |-> done.d], b |-> done.b]

-----------------------------------------------------------------------------
(***************************************************************************)
(* The session strategies (intraday.py): one entry a day after the opening *)
(* bars, sold on the closing bar, or on the first one of a later day.      *)
(* Stocks have a closing time; a coin's day has none.                      *)
(***************************************************************************)
DayOf(ts) == ts \div DayLen
Closing(s, ts) == s \in Stocks /\ CloseAt - (ts % DayLen) <= BarLen

NoSession == [day |-> -1, first |-> 0, n |-> 0, hi |-> 0, close |-> 0, entered |-> FALSE]

Opening(ses, price) ==
  LET n == ses.n + 1
  IN  IF n > OpeningBars
      THEN [ses EXCEPT !.n = n]
      ELSE [ses EXCEPT !.n = n, !.hi = Max({@, price}),
                       !.close = IF n = OpeningBars THEN price ELSE @]

ShouldEnter(kind, ses, price) ==
  /\ ses.n >= OpeningBars
  /\ IF kind = "orb" THEN price > ses.hi
                     ELSE (ses.close - ses.first) * MomDen > MomNum * ses.first

\* A new day keeps what the old one has left.
SessionStepBug(st, b, t, kind) ==
  LET fresh == st[t.sym].day # DayOf(t.ts)
      ses   == Opening(IF fresh THEN [NoSession EXCEPT !.day = DayOf(t.ts), !.first = t.price]
                                ELSE st[t.sym], t.price)
      try   == Buy(b, t.sym, RoundEven(b.cash * FractionPct, 100 * t.price), t.price)
      shut  == Closing(t.sym, t.ts)
      buys  == /\ ~ shut /\ ~ ses.entered /\ b.pos[t.sym].qty = 0
               /\ ShouldEnter(kind, ses, t.price)
               /\ (b.cash * FractionPct) \div 100 >= MinOrder
               /\ try # b
  IN  [st |-> [st EXCEPT ![t.sym] = [ses EXCEPT !.entered = @ \/ shut \/ buys]],
       b  |-> IF shut THEN SellAll(b, t.sym, t.price) ELSE IF buys THEN try ELSE b]

SessionStep(st, b, t, kind) ==
  LET fresh == st[t.sym].day # DayOf(t.ts)
      ses   == Opening(IF fresh THEN [NoSession EXCEPT !.day = DayOf(t.ts), !.first = t.price]
                                ELSE st[t.sym], t.price)
      kept  == IF fresh THEN SellAll(b, t.sym, t.price) ELSE b
      try   == Buy(kept, t.sym, RoundEven(kept.cash * FractionPct, 100 * t.price), t.price)
      shut  == Closing(t.sym, t.ts)
      buys  == /\ ~ shut /\ ~ ses.entered /\ kept.pos[t.sym].qty = 0
               /\ ShouldEnter(kind, ses, t.price)
               /\ (kept.cash * FractionPct) \div 100 >= MinOrder
               /\ try # kept
  IN  [st |-> [st EXCEPT ![t.sym] = [ses EXCEPT !.entered = @ \/ shut \/ buys]],
       b  |-> IF shut THEN SellAll(kept, t.sym, t.price) ELSE IF buys THEN try ELSE kept]

-----------------------------------------------------------------------------
(***************************************************************************)
(* The cross-sectional strategies: at the first tick of a new bar the      *)
(* symbols seen in the last one are ranked by their return, and the first  *)
(* few are held with equal weights.  Cross-sections of one symbol, and     *)
(* bars that rank nobody, change nothing.                                  *)
(***************************************************************************)
Xs0 == [bar |-> -1, snap |-> << >>, hist |-> [s \in Symbols |-> << >>], seen |-> << >>]

Ranked(x) == {s \in DOMAIN x.snap : Len(x.hist[s]) >= XsLookback + 1}

\* Losers first (reversal) or winners first; equal returns in order of arrival.
Ahead(x, kind, a, b) ==
  LET up(s) == Last(x.hist[s])
      from(s) == x.hist[s][Len(x.hist[s]) - XsLookback]
      ra == up(a) * from(b)
      rb == up(b) * from(a)
      place(s) == CHOOSE i \in DOMAIN x.seen : x.seen[i] = s
  IN  \/ IF kind = "reversal" THEN ra < rb ELSE ra > rb
      \/ ra = rb /\ place(a) < place(b)

Rank(x, kind, s) == 1 + Cardinality({r \in Ranked(x) : Ahead(x, kind, r, s)})
Longs(x, kind) == {s \in Ranked(x) : Rank(x, kind, s) <= XsTop}

ShareOf(longs) ==
  IF Tenths <= XsWeight * Cardinality(longs) THEN [num |-> 1, den |-> Cardinality(longs)]
                                              ELSE [num |-> XsWeight, den |-> Tenths]

XsPrice(x, b, s) == IF s \in DOMAIN x.snap THEN x.snap[s] ELSE b.last[s]

\* Sales first, sized by the cash and equity before them.
XsSell(x, b, longs, s, acc) ==
  LET w     == IF s \in longs THEN ShareOf(longs) ELSE Unknown
      order == Decide(b.pos[s].qty, XsPrice(x, b, s), b.cash, Worth(b), w)
  IN  IF order.side = "SELL" THEN Obey(acc, s, order, XsPrice(x, b, s)) ELSE acc

XsSales(x, b, longs) ==
  FoldSet(LAMBDA s, acc : XsSell(x, b, longs, s, acc), b, Held(b) \union longs)

\* Then purchases in the order of their rank, sized by the cash and equity
\* after the sales.
XsBuy(x, b, longs, s, acc) ==
  LET order == Decide(acc.pos[s].qty, x.snap[s], b.cash, Worth(b), ShareOf(longs))
  IN  IF order.side = "BUY" THEN Obey(acc, s, order, x.snap[s]) ELSE acc

XsBuys(x, b, kind, longs) ==
  LET next(i) == {s \in longs : Rank(x, kind, s) = i}
  IN  FoldLeft(LAMBDA acc, i : FoldSet(LAMBDA s, a : XsBuy(x, b, longs, s, a), acc, next(i)),
               b, [i \in 1..XsTop |-> i])

OnBarClose(x, b, kind) ==
  IF Cardinality(DOMAIN x.snap) < 2 \/ Ranked(x) = {}
  THEN b
  ELSE XsBuys(x, XsSales(x, b, Longs(x, kind)), kind, Longs(x, kind))

CrossStep(x, b, t, kind) ==
  LET bar   == t.ts \div BarLen
      ends  == x.bar # -1 /\ bar # x.bar
      snap  == IF ends THEN << >> ELSE x.snap
      price == [s \in DOMAIN snap \union {t.sym} |-> IF s = t.sym THEN t.price ELSE snap[s]]
  IN  [st |-> [bar  |-> bar, snap |-> price,
               hist |-> [x.hist EXCEPT ![t.sym] = Push(@, t.price, XsLookback + 1)],
               seen |-> IF t.sym \in ToSet(x.seen) THEN x.seen ELSE Append(x.seen, t.sym)],
       b  |-> IF ends THEN OnBarClose(x, b, kind) ELSE b]
=============================================================================
