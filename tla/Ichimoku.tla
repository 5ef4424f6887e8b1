------------------------------- MODULE Ichimoku -------------------------------
(***************************************************************************)
(* The weekly cloud signal (common/marketdata/ichimoku.py): daily rows to  *)
(* weekly bars, the lines, and the signal of the last complete week.  A    *)
(* row is [day, price]; high, low and close of a day are its price.        *)
(***************************************************************************)
EXTENDS Integers, Sequences, SequencesExt, FiniteSetsExt

CONSTANTS
  DaysPerWeek,                    \* weekdays of a week
  Tenkan, Kijun, SenkouB, Disp    \* 9, 26, 52, 26 in the code

ASSUME WindowsAssumption ==
  {DaysPerWeek, Tenkan, Kijun, SenkouB, Disp} \subseteq Nat \ {0}

\* A row or a line that does not exist; prices are positive.
None == [none |-> TRUE]

Undefined == -1

WeekOf(d) == d \div DaysPerWeek

-----------------------------------------------------------------------------
\* The members of S in the order R, a set of pairs: each at the place that as
\* many come before as there are smaller ones.
InOrder(S, R) ==
  [k \in 1..Cardinality(S) |->
     CHOOSE x \in S : Cardinality({y \in S : <<y, x>> \in R}) = k - 1]

Earlier(weeks) == {p \in weeks \X weeks : p[1] < p[2]}

\* The rows of week w as one bar.
Bar(rows, w) ==
  LET days   == {i \in DOMAIN rows : WeekOf(rows[i].day) = w}
      prices == {rows[i].price : i \in days}
  IN  [week  |-> w,
       high  |-> Max(prices),
       low   |-> Min(prices),
       close |-> rows[Max(days)].price]

\* Keeps the week that is still open.
WeeklyBarsBug(rows, today) ==
  LET weeks == {WeekOf(rows[i].day) : i \in DOMAIN rows}
      order == InOrder(weeks, Earlier(weeks))
  IN  [k \in DOMAIN order |-> Bar(rows, order[k])]

WeeklyBars(rows, today) ==
  LET weeks == {WeekOf(rows[i].day) : i \in DOMAIN rows} \ {WeekOf(today)}
      order == InOrder(weeks, Earlier(weeks))
  IN  [k \in DOMAIN order |-> Bar(rows, order[k])]

\* The middle of the last win bars before and at i, doubled.
Mid(bars, win, i) ==
  IF i < win
    THEN Undefined
    ELSE Max({bars[k].high : k \in (i - win + 1)..i})
           + Min({bars[k].low : k \in (i - win + 1)..i})

\* The upper edge of the cloud at i, computed Disp bars before it, times four.
CloudTop(bars, i) ==
  IF i - Disp < Max({Tenkan, Kijun, SenkouB})
    THEN Undefined
    ELSE Max({Mid(bars, Tenkan, i - Disp) + Mid(bars, Kijun, i - Disp),
              2 * Mid(bars, SenkouB, i - Disp)})

\* The last bar was not above its cloud: the next one can break out of it.
BelowCloud(bars, i) ==
  /\ CloudTop(bars, i) # Undefined
  /\ 4 * bars[i].close <= CloudTop(bars, i)

LatestSignal(bars, rule) ==
  LET n   == Len(bars)
      top == CloudTop(bars, n)
      up  == Mid(bars, Tenkan, n) > Mid(bars, Kijun, n)
  IN  IF n < 2 \/ top = Undefined
        THEN None
        ELSE [bar   |-> bars[n].week,
              close |-> bars[n].close,
              top   |-> top,
              entry |-> 4 * bars[n].close > top /\ up /\ BelowCloud(bars, n - 1),
              exit  |-> IF rule = "tk_cross"
                          THEN Mid(bars, Tenkan, n) < Mid(bars, Kijun, n)
                          ELSE 4 * bars[n].close <= top]

\* a breaks out further above its cloud than b does.
Stronger(a, b) == (4 * a.close - a.top) * b.top > (4 * b.close - b.top) * a.top
=============================================================================
