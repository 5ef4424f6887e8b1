--------------------------- MODULE MCIchimokuPaper ---------------------------
(* Small instances of the weekly paper runner. *)
EXTENDS IchimokuPaper

CONSTANTS a, b

MCRank == [s \in Symbols |-> IF s = a THEN 1 ELSE 2]

\* One row in each of the weeks 0, 1, ...
Weekly(prices) ==
  [k \in DOMAIN prices |-> [day |-> DaysPerWeek * (k - 1), price |-> prices[k]]]

\* A breakout of a in the third week; of either one in the fourth.
MCSeeds ==
  [s \in Symbols |->
     {Weekly(<<2, 2, 1, 1>>)} \union IF s = a THEN {Weekly(<<2, 2, 1, 3>>)} ELSE {}]
MCQuotes == [s \in Symbols |-> IF s = a THEN {0, 1, 3} ELSE {1, 3}]
=============================================================================
