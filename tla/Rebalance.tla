----------------------------- MODULE Rebalance -----------------------------
(***************************************************************************)
(* The sizing rules that every crypto path shares (core/rebalance.py): the *)
(* streaming commander, the daily runner and the backtest all turn a       *)
(* target weight into an order by decide.                                  *)
(*                                                                         *)
(* A quantity counts the least units of a coin (10^-8), a price is the     *)
(* money of one such unit, and money counts units of which one quantum of  *)
(* the fee (0.0001 won) has Quantum: products and sums are then exact, as  *)
(* they are in Decimal.  A weight is a fraction, num / den.                *)
(***************************************************************************)
EXTENDS Integers, FiniteSets, FiniteSetsExt, Functions

CONSTANTS
  FeeNum, FeeDen,    \* FEE_RATE = FeeNum / FeeDen
  Quantum,           \* _FEE_QUANT
  MinOrder,          \* MIN_ORDER_KRW
  BandNum, BandDen,  \* the rebalance band
  Tenths             \* the target 1.0 of a load

ASSUME FeeAssumption == FeeNum \in Nat /\ FeeDen \in Nat \ {0} /\ FeeNum <= FeeDen
ASSUME QuantumAssumption == Quantum \in Nat \ {0}
ASSUME MinOrderAssumption == MinOrder \in Nat /\ Quantum <= MinOrder
ASSUME BandAssumption ==
  BandNum \in Nat /\ BandDen \in Nat \ {0} /\ Tenths \in Nat \ {0}

None == [side |-> "NONE", qty |-> 0]
Order(side, qty) == [side |-> side, qty |-> qty]

(***************************************************************************)
(* n/d to whole quanta, half to even (Decimal.quantize) and half up        *)
(* (NUMERIC(20,4) of krw_balance).                                         *)
(***************************************************************************)
HalfEven(n, d) ==
  LET down == n \div (d * Quantum)
      rest == n % (d * Quantum)
      up   == 2 * rest > d * Quantum \/ (2 * rest = d * Quantum /\ down % 2 = 1)
  IN  (IF up THEN down + 1 ELSE down) * Quantum

HalfUp(m) == ((2 * m + Quantum) \div (2 * Quantum)) * Quantum

Fee(price, qty) == HalfEven(price * qty * FeeNum, FeeDen)
Cost(price, qty) == price * qty + Fee(price, qty)
Proceeds(price, qty) == price * qty - Fee(price, qty)

(***************************************************************************)
(* What a budget buys, with a quantum kept back for the rounding of the    *)
(* fee.  A budget below the quantum gives no positive quantity.            *)
(***************************************************************************)
AffordableQty(budget, price) ==
  IF budget < Quantum \/ price <= 0
  THEN 0
  ELSE ((budget - Quantum) * FeeDen) \div (price * (FeeDen + FeeNum))

Lesser(a, b) == IF a <= b THEN a ELSE b
Distance(a, b) == IF a >= b THEN a - b ELSE b - a

\* The drift of a holding from its target, against the band.
InBand(value, equity, w) ==
  Distance(value * w.den, equity * w.num) * BandDen < BandNum * w.num * equity

\* (A definition named ...Bug is the one that follows it with a plausible
\* mistake; nothing uses it.)  The whole target value is bought, whatever is held already.
DecideBug(qty, price, cash, equity, w) ==
  LET buy == AffordableQty(Lesser((equity * w.num) \div w.den, cash), price)
  IN  CASE price <= 0 \/ equity <= 0 -> None
        [] w.num <= 0 -> IF qty > 0 THEN Order("SELL", qty) ELSE None
        [] qty * price * w.den < equity * w.num -> IF buy > 0 THEN Order("BUY", buy) ELSE None
        [] OTHER -> None

(***************************************************************************)
(* From a holding to a target weight: nothing at all, everything sold,     *)
(* nothing inside the band, the difference bought as far as the cash goes, *)
(* or the difference sold.  Differences are in money times w.den.          *)
(***************************************************************************)
Decide(qty, price, cash, equity, w) ==
  LET value  == qty * price * w.den
      aim    == equity * w.num
      budget == Lesser((aim - value) \div w.den, cash)
      buy    == AffordableQty(budget, price)
      sell   == Lesser((value - aim) \div (price * w.den), qty)
  IN  IF price <= 0 \/ equity <= 0
        THEN None
      ELSE IF w.num <= 0
        THEN IF qty > 0 THEN Order("SELL", qty) ELSE None
      ELSE IF qty > 0 /\ InBand(qty * price, equity, w)
        THEN None
      ELSE IF aim > value
        THEN IF budget >= MinOrder /\ buy > 0 THEN Order("BUY", buy) ELSE None
        ELSE IF value - aim >= MinOrder * w.den /\ sell > 0
             THEN Order("SELL", sell) ELSE None

(***************************************************************************)
(* The roster's targets of one bar as one weight, a mean weighted by       *)
(* weights: latest[n] is [bar, target], a target is a number of Tenths.    *)
(* It has no value while a load has not reported the bar, or when all      *)
(* weights are 0.                                                          *)
(***************************************************************************)
RosterReady(latest, roster, bar) == \A n \in roster : latest[n].bar = bar

Weighted(latest, roster, weights) ==
  [num |-> SumFunction([n \in roster |-> weights[n] * latest[n].target]),
   den |-> Tenths * SumFunction([n \in roster |-> weights[n]])]

Unknown == [num |-> 0, den |-> 0]

CombinedForBar(latest, roster, bar, weights) ==
  IF RosterReady(latest, roster, bar) /\ (\E n \in roster : weights[n] > 0)
  THEN Weighted(latest, roster, weights)
  ELSE Unknown

(***************************************************************************)
(* load_weights: equal weights when adaptation is off, when a load has no  *)
(* row, or when the rows add up to nothing.                                *)
(***************************************************************************)
LoadWeights(roster, rows, adaptive) ==
  IF adaptive /\ roster \subseteq DOMAIN rows /\ (\E n \in roster : rows[n] > 0)
  THEN rows
  ELSE [n \in roster |-> 1]

(***************************************************************************)
(* Cash and what is held at the latest prices; a symbol without one is     *)
(* left out (commander._equity, trade_once.equity, account.equity).        *)
(***************************************************************************)
Equity(cash, held, prices) ==
  cash + SumFunction([s \in DOMAIN held \cap DOMAIN prices |-> held[s] * prices[s]])

(***************************************************************************)
(* What a decision is called (decision_record.classify).                   *)
(***************************************************************************)
Classify(order) == IF order.side = "NONE" THEN "HOLD" ELSE order.side
=============================================================================
