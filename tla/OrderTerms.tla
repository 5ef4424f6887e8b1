----------------------------- MODULE OrderTerms -----------------------------
(***************************************************************************)
(* The vocabulary shared by the streaming order path and by its abstract   *)
(* specification: what an order is, when a limit price is met, and what an *)
(* execution costs or pays.  Money and quantities are integers (the least  *)
(* unit of NUMERIC(20,4) and NUMERIC(28,12)).                              *)
(***************************************************************************)
EXTENDS Integers

CONSTANTS
  OrderIds,      \* identifiers place_order may draw (uuid4)
  Accounts,
  Symbols,
  Prices,        \* market prices a tick may carry
  Forms,         \* the order requests the users of an instance may make
  FeeNum,        \* FEE_RATE = FeeNum / FeeDen, in least units of money
  FeeDen,
  NoForm,        \* an order id not drawn yet
  NoPrice        \* an absent price (a MARKET order, a symbol without a tick)

(***************************************************************************)
(* Every request that passes the checks of create_order: a LIMIT order has *)
(* a price, whichever, zero or below included; a MARKET order may carry    *)
(* one and nothing reads it.                                               *)
(***************************************************************************)
OrderForm ==
  { f \in [account : Accounts, symbol : Symbols, side : {"BUY", "SELL"},
           type : {"MARKET", "LIMIT"}, qty : Nat \ {0},
           price : Int \union {NoPrice}] :
      f.type = "LIMIT" => f.price # NoPrice }

ASSUME FormsAssumption == Forms \subseteq OrderForm
ASSUME PricesAssumption == Prices \subseteq Nat \ {0} /\ NoPrice \notin Int
ASSUME FeeAssumption == FeeNum \in Nat /\ FeeDen \in Nat \ {0} /\ FeeNum <= FeeDen
ASSUME NoFormAssumption == NoForm \notin OrderForm

(***************************************************************************)
(* (price * qty * FEE_RATE).quantize(...): rounding half to even.          *)
(***************************************************************************)
RoundHalfEven(n, d) ==
  LET down == n \div d
      rest == n % d
      up   == 2 * rest > d \/ (2 * rest = d /\ down % 2 = 1)
  IN  IF up THEN down + 1 ELSE down

Fee(p, q) == RoundHalfEven(p * q * FeeNum, FeeDen)

(***************************************************************************)
(* A LIMIT order executes at the market price, and only when that price is *)
(* at least as good for the trader as the limit; a MARKET order always.    *)
(***************************************************************************)
Crosses(f, p) ==
  f.type = "LIMIT" => IF f.side = "BUY" THEN p <= f.price ELSE p >= f.price

Cost(f, p)     == p * f.qty + Fee(p, f.qty)
Proceeds(f, p) == p * f.qty - Fee(p, f.qty)

(***************************************************************************)
(* The check before a fill, and the fill's effect on balance and holdings. *)
(***************************************************************************)
Covered(f, p, cash, held) ==
  IF f.side = "BUY" THEN Cost(f, p) <= cash[f.account]
                    ELSE f.qty <= held[f.account][f.symbol]

CashAfter(f, p, cash) ==
  [cash EXCEPT ![f.account] =
     IF f.side = "BUY" THEN @ - Cost(f, p) ELSE @ + Proceeds(f, p)]

HeldAfter(f, held) ==
  [held EXCEPT ![f.account][f.symbol] =
     IF f.side = "BUY" THEN @ + f.qty ELSE @ - f.qty]
=============================================================================
