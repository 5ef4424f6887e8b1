------------------------------ MODULE Backtest ------------------------------
(***************************************************************************)
(* A backtest of one strategy over ticks that arrive as the data sources   *)
(* give them, in order of time and, at one time, of symbols                *)
(* (datasource.py, run.py); and, for the kind "walk", the bars of one      *)
(* symbol that a walk-forward evaluation is asked about as they grow.      *)
(***************************************************************************)
EXTENDS WalkForward

CONSTANTS
  Kinds,       \* strategies, and "walk"
  SymbolOrder, \* the symbols in the order of a query
  Prices,
  Gaps,        \* distances of two successive times
  MaxTicks, MaxBars   \* bounds

ASSUME BacktestAssumption ==
  /\ SymbolOrder \in Seq(Symbols) /\ SymbolOrder # << >>
  /\ ToSet(SymbolOrder) = Symbols /\ IsFiniteSet(Symbols)
  /\ Prices \subseteq Nat \ {0} /\ Gaps \subseteq Nat \ {0}
  /\ MaxTicks \in Nat /\ MaxBars \in Nat
  /\ Kinds \subseteq {"trend", "ensemble", "sma", "breakout", "bollinger", "rsi", "orb",
                      "momentum", "reversal", "winners", "walk"}

VARIABLES
  kind,
  tick,        \* the last tick, or NoTick
  ticks,       \* ticks so far
  run,         \* the engine
  bars,        \* bars of a walk-forward evaluation
  bought, sold \* history: when a symbol was last bought, and last sold

vars == <<kind, tick, ticks, run, bars, bought, sold>>

NoTick == [sym |-> SymbolOrder[Len(SymbolOrder)], price |-> 0, ts |-> 0]

Init ==
  /\ kind \in Kinds
  /\ tick = NoTick /\ ticks = 0
  /\ run = IF kind = "walk" THEN Idle(<< >>, Initial) ELSE Idle(State0(kind), Initial)
  /\ bars = << >>
  /\ bought = [s \in Symbols |-> Never] /\ sold = [s \in Symbols |-> Never]

Place(s) == CHOOSE i \in DOMAIN SymbolOrder : SymbolOrder[i] = s
Qty(r, s) == r.b.pos[s].qty

\* By time, and at one time by symbol.
InOrder(s, gap) == gap = 0 => Place(s) > Place(tick.sym)

Replay(s, price, gap) ==
  /\ kind # "walk" /\ ticks < MaxTicks
  /\ InOrder(s, gap)
  /\ LET t == [sym |-> s, price |-> price, ts |-> tick.ts + gap]
     IN  /\ tick' = t
         /\ run' = EngineStep(run, Step(kind, run.st, Priced(run.b, t), t), t)
         /\ bought' = [x \in Symbols |-> IF Qty(run', x) > Qty(run, x) THEN t.ts ELSE bought[x]]
         /\ sold' = [x \in Symbols |-> IF Qty(run', x) < Qty(run, x) THEN t.ts ELSE sold[x]]
  /\ ticks' = ticks + 1
  /\ UNCHANGED <<kind, bars>>

Collect(price, gap) ==
  /\ kind = "walk" /\ Len(bars) < MaxBars
  /\ bars' = Append(bars, [sym |-> SymbolOrder[1], price |-> price,
                           ts |-> IF bars = << >> THEN 0 ELSE Last(bars).ts + gap])
  /\ UNCHANGED <<kind, tick, ticks, run, bought, sold>>

Next ==
  \/ \E s \in Symbols, p \in Prices, gap \in Gaps \union {0} : Replay(s, p, gap)
  \/ \E p \in Prices, gap \in Gaps : Collect(p, gap)

Spec == Init /\ [][Next]_vars
-----------------------------------------------------------------------------
(***************************************************************************)
(* The closed trades account for the money: what was put in and what they  *)
(* earned is in the cash and, at cost, in the positions.  Cash and         *)
(* averages are rounded to a quantum at each fill (account.py).            *)
(***************************************************************************)
BooksBalance ==
  LET b     == run.b
      books == b.cash * Lot + MapThenSumSet(LAMBDA s : b.pos[s].qty * b.pos[s].avg, Symbols)
      paid  == Initial * Lot + b.closed.pnl
  IN  2 * Distance(books, paid) <= b.slack

(***************************************************************************)
(* A session strategy never carries a position into the next day beyond    *)
(* its first tick, also when the closing bar is missing (intraday.on_tick).*)
(***************************************************************************)
NeverOvernight ==
  kind \in {"orb", "momentum"} =>
    \A s \in Held(run.b) : DayOf(bought[s]) = run.st[s].day

(***************************************************************************)
(* The disciplined strategies buy only what they do not hold, never within *)
(* the cool-down after a sale for whatever reason, and never over the      *)
(* number of positions (disciplined.py, sma.py, sma_trader.py).            *)
(***************************************************************************)
KeepsDiscipline ==
  kind \in {"sma", "breakout", "bollinger", "rsi"} =>
    \A s \in Symbols : Qty(run', s) > Qty(run, s) =>
      /\ Qty(run, s) = 0
      /\ tick'.ts - sold[s] >= Cooldown
      /\ Cardinality(Held(run'.b)) <= MaxPositions

\* What the rules of a strategy promise of its trades, in every order of ticks.
StrategyRules == [][KeepsDiscipline /\ NeverOvernight']_vars

(***************************************************************************)
(* Parameters are chosen by what lies before the window they are judged    *)
(* on: without the bars from there on the choice is the same               *)
(* (walkforward.py).                                                       *)
(***************************************************************************)
ChoiceIsBlind ==
  bars # << >> =>
    \A o \in Folds(Head(bars).ts, Last(bars).ts) :
      Choice(bars, o) = Choice(SubSeq(bars, 1, Earlier(bars, o)), o)

(***************************************************************************)
(* Priming loses no out-of-sample bar to the warm-up: a fold trades as it  *)
(* would after all the bars there are, if these are regular                *)
(* (walkforward._evaluate).                                                *)
(***************************************************************************)
Regular == \A i \in 2..Len(bars) : bars[i].ts - bars[i - 1].ts = Sample

Lossless(load, o) ==
  OutOfSample(bars, load, o).b = Evaluate(bars, load, 0, o, o + OosLen).b

PrimingSuffices ==
  bars # << >> /\ Regular =>
    \A o \in Folds(Head(bars).ts, Last(bars).ts) : \A i \in DOMAIN Combos : Lossless(Combos[i], o)

\* A fold is judged by what it could know, and loses nothing of its window.
FoldsAreSound == ChoiceIsBlind /\ PrimingSuffices

(***************************************************************************)
(* The header of walkforward.py, of every data source it reads: priming    *)
(* before the window loses no out-of-sample data to the warm-up.           *)
(***************************************************************************)
NoDataLost ==
  bars # << >> =>
    \A o \in Folds(Head(bars).ts, Last(bars).ts) : \A i \in DOMAIN Combos : Lossless(Combos[i], o)

(***************************************************************************)
(* The comment on _on_bar_close: no look-ahead.  What is traded at a bar's *)
(* close does not depend on the price of the tick that shows it is over.   *)
(***************************************************************************)
CloseIsBlind ==
  kind \in {"reversal", "winners"} =>
    \A s \in Symbols, p, q \in Prices :
      OnBarClose(run.st, [run.b EXCEPT !.last[s] = p], kind).pos
        = OnBarClose(run.st, [run.b EXCEPT !.last[s] = q], kind).pos
=============================================================================
