------------------------------- MODULE Trend -------------------------------
(***************************************************************************)
(* The trend signal of one load (plugins/trend_signal.py with the helpers  *)
(* of plugins/trend.py): a target weight from the closes it has been fed,  *)
(* in the order it was fed them.                                           *)
(*                                                                         *)
(* Averages are compared exactly, as sums multiplied across.  The          *)
(* annualised standard deviation of the returns is abstracted to their     *)
(* spread in tenths, which is 0 in the same cases and grows with the       *)
(* same moves.                                                             *)
(***************************************************************************)
EXTENDS Integers, Sequences, SequencesExt

CONSTANTS
  Lookback,      \* vol_lookback, returns in a volatility
  MaxVol,        \* regime_max_vol
  VolTarget,     \* vol_target
  MaxWeight      \* max_weight, in Tenths

ASSUME TrendAssumption ==
  /\ Lookback \in Nat \ {0} /\ MaxVol \in Nat /\ VolTarget \in Nat /\ MaxWeight \in Nat

Recent(closes, n) == SubSeq(closes, Len(closes) - n + 1, Len(closes))
Sum(closes) == FoldLeft(+, 0, closes)

\* _sma(closes, short) against _sma(closes, long).
Above(closes, load) ==
  Sum(Recent(closes, load.short)) * load.long > Sum(Recent(closes, load.long)) * load.short
Below(closes, load) ==
  Sum(Recent(closes, load.short)) * load.long < Sum(Recent(closes, load.long)) * load.short

Vol(closes) ==
  LET last == Recent(closes, Lookback + 1)
      rets == { (10 * last[i + 1]) \div last[i] : i \in 1..Lookback }
  IN  Max(rets) - Min(rets)

TargetWeight(vol) == IF vol = 0 THEN MaxWeight ELSE Min({MaxWeight, VolTarget \div vol})

WarmupBars(load) == Max({load.long, Lookback + 1})

(***************************************************************************)
(* TrendSignal.update: the latch of a load between the two averages, and   *)
(* the target it returns.  closes ends with the price just appended; the   *)
(* deque keeps warmup_bars + 1 of them, which is all the averages and the  *)
(* volatility read.                                                        *)
(***************************************************************************)
Update(long, closes, load) ==
  IF Len(closes) < WarmupBars(load)
  THEN [long |-> FALSE, target |-> 0]
  ELSE LET vol  == Vol(closes)
           stay == IF long THEN vol <= MaxVol /\ ~ Below(closes, load)
                           ELSE vol <= MaxVol /\ Above(closes, load)
       IN  [long |-> stay, target |-> IF stay THEN TargetWeight(vol) ELSE 0]

(***************************************************************************)
(* A signal after all the closes it was fed, from the first to the last.   *)
(***************************************************************************)
Fed(closes, load) ==
  FoldLeft(LAMBDA st, k : Update(st.long, SubSeq(closes, 1, k), load),
           [long |-> FALSE, target |-> 0],
           [k \in 1..Len(closes) |-> k])
=============================================================================
