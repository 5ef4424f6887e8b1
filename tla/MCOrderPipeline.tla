-------------------------- MODULE MCOrderPipeline --------------------------
(* Small instances of the streaming order path. *)
EXTENDS OrderPipelineProps, TLC

CONSTANTS o1, o2, acc, btc, eth, r1, r2

Request(s, side, type, qty, price) ==
  [account |-> acc, symbol |-> s, side |-> side, type |-> type, qty |-> qty,
   price |-> price]

\* Buys that compete for the balance, one of them with a limit.
BuyForms == {Request(btc, "BUY", "MARKET", 1, NoPrice),
             Request(btc, "BUY", "LIMIT", 1, 2)}

\* A sale and a buy that only fits if the sale comes first, then to the unit,
\* or if the price is low.  Both fees have a half to round.
TradeForms == {Request(btc, "BUY", "MARKET", 2, NoPrice),
               Request(btc, "SELL", "LIMIT", 1, 4)}

MCCash0 == [a \in Accounts |-> 9]
MCHeld0 == [a \in Accounts |-> [s \in Symbols |-> 1]]

\* What the run looks at: one fault, whichever it is, and at most one MARKET order.
OneFault == restarts + expiries <= 1
OneMarket ==
  \A o, p \in OrderIds :
    form[o] # NoForm /\ form[p] # NoForm /\ form[o].type = "MARKET" /\ form[p].type = "MARKET"
      => o = p

Symmetry == Permutations(OrderIds) \union Permutations(Relays)
=============================================================================
