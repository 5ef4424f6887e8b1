----------------------------- MODULE MCBacktest -----------------------------
(* Loads and parameters for the instances of Backtest. *)
EXTENDS Backtest

CONSTANTS fast, slow, s1, s2, s3

Load(short, long) == [short |-> short, long |-> long]
MCLoadOf == [n \in Loads |-> IF n = fast THEN Load(1, 2) ELSE Load(1, 3)]
MCTrendLoad == Load(1, 2)
MCSmaLoad == Load(1, 2)
MCCombos == <<Load(1, 2), Load(1, 4)>>
MCOrder == <<s1, s2>>
MCOrderThree == <<s1, s2, s3>>
=============================================================================
