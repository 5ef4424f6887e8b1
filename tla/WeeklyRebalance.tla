--------------------------- MODULE WeeklyRebalance ---------------------------
(***************************************************************************)
(* The weekly stock runners, KR (stock_trade_once) and US (us_trade_once), *)
(* and the marker that keeps them to one rebalance per week                *)
(* (weekly_marker).  A scheduler starts the runner on every weekday, and a *)
(* second time in case the first did not start; one process runs at a time *)
(* and ends within its trading day.                                        *)
(*                                                                         *)
(* Orders are day orders: what is open when the day ends lapses.  A chase  *)
(* (US) is what ChaseContract promises, from its begin to its end.         *)
(***************************************************************************)
EXTENDS Integers, FiniteSets

CONSTANTS
  Markets,      \* subset of {"KR", "US"}
  Symbols,
  Lot,          \* bound: the largest quantity of one buy
  MaxOrders,    \* max_orders, buys of one run
  LastDay,      \* bound: weekdays are 0..LastDay
  Weeks, WeekOf,\* ISO weeks, and the week of each day
  RunsPerDay,   \* starts by the scheduler and its sweeper
  Closed,       \* days on which the exchange is closed
  Listed        \* those that is_market_holiday knows

ASSUME MarketsAssumption == Markets \subseteq {"KR", "US"}
ASSUME SymbolsAssumption == IsFiniteSet(Symbols)
ASSUME SizesAssumption ==
  /\ Lot \in Nat \ {0} /\ MaxOrders \in Nat \ {0}
  /\ LastDay \in Nat /\ RunsPerDay \in Nat
ASSUME CalendarAssumption ==
  /\ WeekOf \in [0..LastDay -> Weeks]
  /\ Listed \subseteq Closed

VARIABLES
  market,             \* the runner
  day, runs, plans,   \* today, its runs, and those of them that made a plan
  most,               \* the most plans any day has seen, at least 1
  marker,             \* rows of weekly_rebalance: weeks
  held,               \* broker: holdings
  openBuy, openSell,  \* broker: open day orders
  pc,                 \* the run
  ranked,             \* plan.targets is not empty
  aligned,            \* nothing to do in the plan
  before,             \* holdings when planned
  asked,              \* symbols with an order or an attempt of one
  buys, sells,        \* those still to be sent
  accepted,           \* orders the runner knows to be accepted
  filled,             \* symbols seen filled
  tradedOn, alignedOn \* history: days with an execution, with an aligned plan

clock == <<day, runs, plans, most>>
broker == <<held, openBuy, openSell>>
plan == <<ranked, aligned, before, asked>>
progress == <<buys, sells, accepted, filled>>
history == <<tradedOn, alignedOn>>
vars == <<market, clock, marker, broker, pc, plan, progress, history>>

Days == 0..LastDay

Week == WeekOf[day]
Larger(a, b) == IF a >= b THEN a ELSE b
Held == {s \in Symbols : held[s] > 0}

Init ==
  /\ market \in Markets
  /\ day = 0 /\ runs = 0 /\ plans = 0 /\ most = 1
  /\ marker = {}
  /\ held \in [Symbols -> {0, Lot}]
  /\ openBuy = [s \in Symbols |-> 0]
  /\ openSell = [s \in Symbols |-> 0]
  /\ pc = "idle"
  /\ ranked = FALSE /\ aligned = FALSE
  /\ before = [s \in Symbols |-> 0]
  /\ asked = {} /\ buys = {} /\ sells = {}
  /\ accepted = 0 /\ filled = {}
  /\ tradedOn = {} /\ alignedOn = {}

-----------------------------------------------------------------------------
(***************************************************************************)
(* The exchange.                                                           *)
(***************************************************************************)
Execute(s) ==
  /\ day \notin Closed
  /\ \/ \E q \in 1..openBuy[s] :
          /\ openBuy' = [openBuy EXCEPT ![s] = @ - q]
          /\ held' = [held EXCEPT ![s] = @ + q]
          /\ UNCHANGED openSell
     \/ \E q \in 1..openSell[s] :
          /\ q <= held[s]
          /\ openSell' = [openSell EXCEPT ![s] = @ - q]
          /\ held' = [held EXCEPT ![s] = @ - q]
          /\ UNCHANGED openBuy
  /\ tradedOn' = tradedOn \union {day}
  /\ UNCHANGED <<market, clock, marker, pc, plan, progress, alignedOn>>

DayEnds ==
  /\ pc = "idle"
  /\ day < LastDay
  /\ day' = day + 1
  /\ runs' = 0 /\ plans' = 0
  /\ openBuy' = [s \in Symbols |-> 0]
  /\ openSell' = [s \in Symbols |-> 0]
  /\ UNCHANGED <<market, most, marker, held, pc, plan, progress, history>>

-----------------------------------------------------------------------------
(***************************************************************************)
(* A run up to its plan.  The guard stops it in a week that is marked and  *)
(* on a known holiday, the US runner also outside its session.  Candles,   *)
(* scores or the balance may fail before any order.                        *)
(***************************************************************************)
Starts == pc = "idle" /\ runs < RunsPerDay

Skip ==
  /\ Starts
  /\ Week \in marker \/ day \in Listed \/ market = "US"
  /\ runs' = runs + 1
  /\ UNCHANGED <<market, day, plans, most, marker, broker, pc, plan, progress,
                 history>>

RunFails ==
  /\ Starts
  /\ runs' = runs + 1
  /\ UNCHANGED <<market, day, plans, most, marker, broker, pc, plan, progress,
                 history>>

Guard == Week \notin marker /\ day \notin Listed

\* (A definition named ...Bug is the one that follows it with a plausible
\* mistake; nothing uses it.)  Buys every target, held or not.
MissingBug(targets) == targets

Missing(targets) == targets \ Held

Plan(targets) ==
  /\ Starts
  /\ Guard
  /\ runs' = runs + 1 /\ plans' = plans + 1
  /\ most' = Larger(most, plans + 1)
  /\ \E chosen \in SUBSET Missing(targets) :
       /\ \/ chosen = Missing(targets) /\ Cardinality(chosen) <= MaxOrders
          \/ Cardinality(chosen) = MaxOrders
       /\ buys' = chosen
  /\ sells' = IF market = "KR" THEN Held \ targets ELSE {}
  /\ asked' = buys' \union sells'
  /\ ranked' = (targets # {})
  /\ aligned' = (asked' = {})
  /\ before' = held
  /\ accepted' = 0 /\ filled' = {}
  /\ pc' = "send"
  /\ alignedOn' = IF asked' = {} /\ targets # {} THEN alignedOn \union {day}
                  ELSE alignedOn
  /\ UNCHANGED <<market, day, marker, broker, tradedOn>>

-----------------------------------------------------------------------------
(***************************************************************************)
(* Orders.  An answer that is lost leaves an order at the broker that the  *)
(* runner takes for refused.                                               *)
(***************************************************************************)
SendSell(s) ==
  /\ pc = "send" /\ s \in sells
  /\ before[s] <= held[s] - openSell[s]
  /\ openSell' = [openSell EXCEPT ![s] = @ + before[s]]
  /\ sells' = sells \ {s}
  /\ accepted' \in {accepted, accepted + 1}
  /\ UNCHANGED <<market, clock, marker, held, openBuy, pc, plan, buys, filled,
                 history>>

SendBuy(s) ==
  /\ pc = "send" /\ sells = {} /\ s \in buys
  /\ market = "KR"
  /\ \E q \in 1..Lot : openBuy' = [openBuy EXCEPT ![s] = @ + q]
  /\ buys' = buys \ {s}
  /\ accepted' \in {accepted, accepted + 1}
  /\ UNCHANGED <<market, clock, marker, held, openSell, pc, plan, sells,
                 filled, history>>

\* Refused, or not attempted: no price, or a quantity below one.
NotSent(s) ==
  /\ pc = "send"
  /\ s \in sells \/ (sells = {} /\ s \in buys)
  /\ sells' = sells \ {s}
  /\ buys' = IF s \in sells THEN buys ELSE buys \ {s}
  /\ UNCHANGED <<market, clock, marker, broker, pc, plan, accepted, filled,
                 history>>

\* A chase in the US: e executed and k left open of at most Lot, and told only
\* what was executed.
ChaseBuy(s, e, k, told) ==
  /\ pc = "send" /\ s \in buys
  /\ market = "US"
  /\ e + k \in 1..Lot
  /\ day \in Closed => e = 0
  /\ told => e > 0
  /\ held' = [held EXCEPT ![s] = @ + e]
  /\ openBuy' = [openBuy EXCEPT ![s] = @ + k]
  /\ buys' = buys \ {s}
  /\ filled' = IF told THEN filled \union {s} ELSE filled
  /\ tradedOn' = IF e > 0 THEN tradedOn \union {day} ELSE tradedOn
  /\ UNCHANGED <<market, clock, marker, openSell, pc, plan, sells, accepted,
                 alignedOn>>

AllSent ==
  /\ pc = "send" /\ sells = {} /\ buys = {}
  /\ pc' = IF market = "KR" THEN "confirm" ELSE "mark"
  /\ UNCHANGED <<market, clock, marker, broker, plan, progress, history>>

-----------------------------------------------------------------------------
(***************************************************************************)
(* confirm_fills (KR): fills are changes of the holdings since the plan.   *)
(* Polling ends when as many symbols have changed as orders were accepted, *)
(* or at the deadline; a poll that fails is passed over.                   *)
(***************************************************************************)
\* Takes an accepted order for a filled one.
SeenBug ==
  IF accepted > 0 THEN asked
  ELSE {s \in asked : IF before[s] = 0 THEN held[s] > 0 ELSE held[s] < before[s]}

Seen ==
  {s \in asked : IF before[s] = 0 THEN held[s] > 0 ELSE held[s] < before[s]}

Confirm ==
  /\ pc = "confirm"
  /\ filled' = Seen
  /\ pc' = IF Cardinality(filled') >= accepted THEN "mark" ELSE "confirm"
  /\ UNCHANGED <<market, clock, marker, broker, plan, buys, sells, accepted,
                 history>>

ConfirmOver ==
  /\ pc = "confirm"
  /\ pc' = "mark"
  /\ UNCHANGED <<market, clock, marker, broker, plan, progress, history>>

(***************************************************************************)
(* completed, mark_week_done and the end of the run.  A run may also die   *)
(* anywhere, by an exception, a lost database or a stopped machine.        *)
(***************************************************************************)
Completed == ranked /\ (aligned \/ filled # {})

RunOver ==
  /\ pc' = "idle"
  /\ ranked' = FALSE /\ aligned' = FALSE
  /\ before' = [s \in Symbols |-> 0]
  /\ asked' = {} /\ buys' = {} /\ sells' = {}
  /\ accepted' = 0 /\ filled' = {}

Mark ==
  /\ pc = "mark"
  /\ marker' = IF Completed THEN marker \union {Week} ELSE marker
  /\ RunOver
  /\ UNCHANGED <<market, clock, broker, history>>

RunDies ==
  /\ pc # "idle"
  /\ RunOver
  /\ UNCHANGED <<market, clock, marker, broker, history>>

-----------------------------------------------------------------------------
Next ==
  \/ DayEnds \/ Skip \/ RunFails
  \/ \E targets \in SUBSET Symbols : Plan(targets)
  \/ \E s \in Symbols :
       \/ Execute(s) \/ SendSell(s) \/ SendBuy(s) \/ NotSent(s)
       \/ \E e, k \in 0..Lot, told \in BOOLEAN : ChaseBuy(s, e, k, told)
  \/ AllSent \/ Confirm \/ ConfirmOver \/ Mark \/ RunDies

Spec == Init /\ [][Next]_vars
=============================================================================
