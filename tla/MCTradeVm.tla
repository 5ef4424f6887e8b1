----------------------------- MODULE MCTradeVm -----------------------------
(***************************************************************************)
(* Calendars, prices and tables for the instances of TradeVm.  FINRA's     *)
(* days are real ones; the other calendars are scaled down.                *)
(***************************************************************************)
EXTENDS TradeVm

CONSTANTS btc, eth, acc, flows, shorts, s1, s2

MCLastDay == [f \in Flows |-> CASE f = "coin" -> 7 [] f \in {"fill", "stock"} -> 12 [] OTHER -> 9]
\* A third boot of the coin flow up to its sixth day.
ThirdBootEarly == flow = "coin" => boots < 3 \/ today < 7
MCListed == [c \in Coins |-> IF c = btc THEN 1 ELSE 6]
MCCoinList == <<btc, eth>>
\* A fee quantum is what 2.5 units of a coin of 40 cost: a coin of 4,000 won.
MCQuotes == { [c \in {btc, eth} |-> IF c = btc THEN 40 ELSE 60], [c \in {btc, eth} |-> 60],
              [c \in {btc} |-> 40] }
MCTargets == { [num |-> 0, den |-> 10], [num |-> 6, den |-> 10] }
MCLastRun == [s \in Sources |->
  CASE s = "finra" -> 140 [] s = "krx" -> 6 [] s \in {"filings", "holdings", "dart"} -> 9
    [] s = "members" -> 12 [] s = "lookup" -> 3 [] OTHER -> 0]
MCLag == [t \in Tables |-> IF t = flows THEN 0 ELSE 1]
MCPostgres == <<2, 1, 1>>
MCClickhouse == <<2, 2, 1>>
MCSteps == <<"candles", "edgar", "dart">>
MCFeeds == [f \in {"candles", "edgar", "dart"} |->
  IF f = "candles" THEN {"stock_candles_1d"} ELSE {"fundamentals_quarterly"}]
MCCritical == [t \in {"stock_candles_1d", "fundamentals_quarterly"} |->
  IF t = "stock_candles_1d" THEN 0 ELSE 1]
=============================================================================
