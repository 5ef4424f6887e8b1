--------------------------- MODULE MCManualOrders ---------------------------
(* Small instances of the manual orders. *)
EXTENDS ManualOrders

CONSTANTS o1, o2, e1, e2

\* Two orders of one symbol.
MCWant == [o \in Orders |-> IF o = o1 THEN 2 ELSE 1]
MCSymbolOf == [o \in Orders |-> "AAPL"]
\* Sides are only compared.
MCSidesOf == [o \in Orders |-> IF o = o1 THEN {"BUY"} ELSE {"BUY", "SELL"}]
=============================================================================
