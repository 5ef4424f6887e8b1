---------------------------- MODULE WalkForward ----------------------------
(***************************************************************************)
(* The replay of bars (engine.run) and its rolling evaluation              *)
(* (backtest/walkforward.py): each fold chooses parameters on its past and *)
(* is judged on what follows, with a new account and indicators primed on  *)
(* the bars before, without trading.                                       *)
(*                                                                         *)
(* A run is the engine's record; the peak and the drawdown, which only the *)
(* report reads, are left out.  A return is compared by the last value of  *)
(* the equity curve, as every evaluation starts with the same money.       *)
(***************************************************************************)
EXTENDS Strategies

CONSTANTS
  Initial,      \* initial cash
  Sample,       \* sample_sec, the distance of regular bars
  Combos,       \* _combos(): sequence of loads
  IsLen, OosLen, StepLen

ASSUME FoldAssumption ==
  /\ Initial \in Nat /\ Sample \in Nat \ {0}
  /\ Combos # << >> /\ Combos \in Seq([short : Nat \ {0}, long : Nat \ {0}])
  /\ IsLen \in Nat /\ OosLen \in Nat \ {0} /\ StepLen \in Nat \ {0}

State0(kind) ==
  CASE kind = "trend" -> [s \in Symbols |-> << >>]
    [] kind = "ensemble" -> [s \in Symbols |-> [closes |-> << >>, long |-> [n \in Loads |-> FALSE]]]
    [] kind = "sma" -> [c |-> [s \in Symbols |-> Sma0], d |-> Disciplined0]
    [] kind \in {"breakout", "bollinger", "rsi"} ->
         [c |-> [s \in Symbols |-> << >>], d |-> Disciplined0]
    [] kind \in {"orb", "momentum"} -> [s \in Symbols |-> NoSession]
    [] kind \in {"reversal", "winners"} -> Xs0

Step(kind, st, b, t) ==
  CASE kind = "trend" -> TrendStep(st, b, t, TrendLoad)
    [] kind = "ensemble" -> EnsembleStep(st, b, t)
    [] kind = "sma" -> SmaStep(st, b, t)
    [] kind \in {"breakout", "bollinger", "rsi"} -> RuleStep(st, b, t, kind)
    [] kind \in {"orb", "momentum"} -> SessionStep(st, b, t, kind)
    [] kind \in {"reversal", "winners"} -> CrossStep(st, b, t, kind)

(***************************************************************************)
(* engine.run: the price first, then the strategy, then the samples of the *)
(* curve up to now with the equity of the tick before.                     *)
(***************************************************************************)
Idle(st, cash) == [st |-> st, b |-> Opened(cash), curve |-> << >>, at |-> 0, eq |-> cash]

Priced(b, t) == [b EXCEPT !.last[t.sym] = t.price]

\* did: what the strategy has made of its state and the broker.
EngineStep(run, did, t) ==
  LET first == run.curve = << >>
      at    == IF first THEN t.ts ELSE run.at
      eq    == IF first THEN Worth(Priced(run.b, t)) ELSE run.eq
      due   == (t.ts - at) \div Sample
  IN  [st |-> did.st, b |-> did.b,
       curve |-> (IF first THEN <<eq>> ELSE run.curve) \o [i \in 1..due |-> eq],
       at |-> at + due * Sample, eq |-> Worth(did.b)]

-----------------------------------------------------------------------------
PrimeBars == Max({TrendBars(Combos[i]) : i \in DOMAIN Combos})

\* Bars come in order of time: how many are earlier than o.
Earlier(bars, o) == Cardinality({i \in DOMAIN bars : bars[i].ts < o})

\* (A definition named ...Bug is the one that follows it with a plausible
\* mistake; nothing uses it.)  The first bar after the window is let in.
WithinBug(bars, from, to) == SubSeq(bars, Earlier(bars, from) + 1, Earlier(bars, to + 1))
Within(bars, from, to) == SubSeq(bars, Earlier(bars, from) + 1, Earlier(bars, to))

\* The state of a trend load that has seen bars and did not trade.
Primed(bars, load) ==
  FoldLeft(LAMBDA st, t : TrendStep(st, Opened(0), t, load).st, State0("trend"), bars)

\* A new account over bars, with indicators primed before them.
Account(bars, load, st) ==
  FoldLeft(LAMBDA run, t :
             EngineStep(run, TrendStep(run.st, Priced(run.b, t), t, load), t),
           Idle(st, Initial), bars)

\* _evaluate of a trend load.
Evaluate(bars, load, prime, start, end) ==
  Account(Within(bars, start, end), load, Primed(Within(bars, prime, start), load))

\* What an evaluation is judged by; the initial cash without bars.
Score(run) == IF run.curve = << >> THEN Initial ELSE Last(run.curve)

\* Starts of the out-of-sample windows over bars from t0 to t1.
Folds(t0, t1) ==
  { o \in t0..t1 :
      /\ o >= t0 + PrimeBars * Sample + IsLen
      /\ (o - t0 - PrimeBars * Sample - IsLen) % StepLen = 0
      /\ o + OosLen <= t1 }

InSample(bars, load, o) ==
  Score(Evaluate(bars, load, o - IsLen - PrimeBars * Sample, o - IsLen, o))

\* The first of the best combinations.
Best(bars, o) ==
  LET best == Max({InSample(bars, Combos[i], o) : i \in DOMAIN Combos})
  IN  {i \in DOMAIN Combos : InSample(bars, Combos[i], o) = best}
Choice(bars, o) == Min(Best(bars, o))

OutOfSample(bars, load, o) == Evaluate(bars, load, o - PrimeBars * Sample, o, o + OosLen)

\* The folds that count: those with a return, that is two samples.
Results(bars) ==
  { [at |-> o, load |-> Choice(bars, o), run |-> OutOfSample(bars, Combos[Choice(bars, o)], o)] :
      o \in Folds(Head(bars).ts, Last(bars).ts) }
Report(bars) == {f \in Results(bars) : Len(f.run.curve) >= 2}
=============================================================================
