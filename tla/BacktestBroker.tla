--------------------------- MODULE BacktestBroker ---------------------------
(***************************************************************************)
(* The simulated account of the backtest (backtest/account.py, fills.py)   *)
(* and the orders a strategy may give to the engine (engine.py).           *)
(*                                                                         *)
(* A broker is a record: cash, positions, last prices, the totals of the   *)
(* closed trades, and, as history, twice what the roundings of its fills   *)
(* may amount to.  As in Rebalance a quantity counts least units and a     *)
(* price is the money of one; an average is the money of a Lot, a whole    *)
(* coin or share, in quanta, and so are cost bases and profits.            *)
(***************************************************************************)
EXTENDS Rebalance

CONSTANTS
  Symbols,
  Stocks,             \* symbols traded in whole Lots, their sales taxed
  Lot,
  SlipNum, SlipDen,   \* slippage_bps
  TaxNum, TaxDen      \* STOCK_SELL_TAX_RATE

ASSUME BrokerAssumption ==
  /\ Lot \in Nat \ {0} /\ SlipDen \in Nat \ {0} /\ TaxDen \in Nat \ {0}
  /\ SlipNum \in 0..SlipDen /\ TaxNum \in 0..TaxDen /\ Stocks \subseteq Symbols

\* n/d to whole quanta, half up; n/d to a whole number, half to even.
ToQuanta(n, d) == ((2 * n + d * Quantum) \div (2 * d * Quantum)) * Quantum
RoundEven(n, d) ==
  LET down == n \div d
      rest == 2 * (n % d)
  IN  IF rest > d \/ (rest = d /\ down % 2 = 1) THEN down + 1 ELSE down

Flat == [qty |-> 0, avg |-> 0, fee |-> 0]
NoTrades == [n |-> 0, pnl |-> 0, buyFee |-> 0, sellFee |-> 0, tax |-> 0]

\* An account that has done nothing; with no cash it is the _NullBroker.
Opened(cash) ==
  [cash |-> cash, pos |-> [s \in Symbols |-> Flat],
   last |-> [s \in Symbols |-> 0], closed |-> NoTrades, slack |-> 0]

Held(b) == {s \in Symbols : b.pos[s].qty > 0}
Worth(b) ==
  b.cash + MapThenSumSet(LAMBDA s : b.pos[s].qty * b.last[s], Held(b))

WholeLots(s, qty) == IF s \in Stocks THEN qty - (qty % Lot) ELSE qty
BuyPrice(p) == p + (p * SlipNum) \div SlipDen
SellPrice(p) == p - (p * SlipNum) \div SlipDen
Tax(s, p, qty) == IF s \in Stocks THEN HalfEven(p * qty * TaxNum, TaxDen) ELSE 0

(***************************************************************************)
(* engine.buy: refused, with nothing changed, when no whole lot is left,   *)
(* without a price, or when the cash does not cover the cost.  An addition *)
(* moves the average and leaves the entry fee as it was.                   *)
(***************************************************************************)
Buy(b, s, wanted, price) ==
  LET qty  == WholeLots(s, wanted)
      p    == BuyPrice(price)
      cost == Cost(p, qty)
      unit == ToQuanta(cost * Lot, qty)
      old  == b.pos[s]
      sum  == old.qty + qty
  IN  IF qty <= 0 \/ price <= 0 \/ b.cash < cost
      THEN b
      ELSE [b EXCEPT !.cash = HalfUp(@ - cost),
                     !.pos[s] = IF old.qty = 0
                                THEN [qty |-> qty, avg |-> unit, fee |-> Fee(p, qty)]
                                ELSE [old EXCEPT !.qty = sum,
                                        !.avg = ToQuanta(old.qty * old.avg + qty * unit, sum)],
                     !.slack = @ + Quantum * (Lot + qty + IF old.qty = 0 THEN 0 ELSE sum)]

\* (A definition named ...Bug is the one that follows it with a plausible
\* mistake; nothing uses it.)  The tax is in the trade and not in the cash.
SellBug(b, s, wanted, price) ==
  LET qty   == WholeLots(s, wanted)
      p     == SellPrice(price)
      old   == b.pos[s]
      tax   == Tax(s, p, qty)
      part  == ToQuanta(old.fee * qty, old.qty)
  IN  IF qty <= 0 \/ price <= 0 \/ old.qty < qty
      THEN b
      ELSE [b EXCEPT !.cash = HalfUp(@ + Proceeds(p, qty)),
                     !.pos[s] = IF old.qty = qty THEN Flat
                                ELSE [old EXCEPT !.qty = @ - qty, !.fee = @ - part],
                     !.closed = [n |-> @.n + 1,
                                 pnl |-> @.pnl + (Proceeds(p, qty) - tax) * Lot - qty * old.avg,
                                 buyFee |-> @.buyFee + part,
                                 sellFee |-> @.sellFee + Fee(p, qty),
                                 tax |-> @.tax + tax],
                     !.slack = @ + Quantum * Lot]

(***************************************************************************)
(* engine.sell: the proceeds less fee and tax, and a closed trade with its *)
(* share of the entry fee.                                                 *)
(***************************************************************************)
Sell(b, s, wanted, price) ==
  LET qty   == WholeLots(s, wanted)
      p     == SellPrice(price)
      old   == b.pos[s]
      tax   == Tax(s, p, qty)
      gain  == Proceeds(p, qty) - tax
      part  == ToQuanta(old.fee * qty, old.qty)
  IN  IF qty <= 0 \/ price <= 0 \/ old.qty < qty
      THEN b
      ELSE [b EXCEPT !.cash = HalfUp(@ + gain),
                     !.pos[s] = IF old.qty = qty THEN Flat
                                ELSE [old EXCEPT !.qty = @ - qty, !.fee = @ - part],
                     !.closed = [n |-> @.n + 1,
                                 pnl |-> @.pnl + gain * Lot - qty * old.avg,
                                 buyFee |-> @.buyFee + part,
                                 sellFee |-> @.sellFee + Fee(p, qty),
                                 tax |-> @.tax + tax],
                     !.slack = @ + Quantum * Lot]

SellAll(b, s, price) == Sell(b, s, b.pos[s].qty, price)

\* What a Decide order does at a price.
Obey(b, s, order, price) ==
  CASE order.side = "BUY" -> Buy(b, s, order.qty, price)
    [] order.side = "SELL" -> Sell(b, s, order.qty, price)
    [] OTHER -> b
=============================================================================
