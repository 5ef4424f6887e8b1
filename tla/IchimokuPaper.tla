---------------------------- MODULE IchimokuPaper ----------------------------
(***************************************************************************)
(* The weekly paper runner on the cloud signal (kr_ichimoku_trade_once):   *)
(* started on every weekday and again by the sweeper, one process at a     *)
(* time, it trades once a week in the simulated ledger (paper_ledger) and  *)
(* marks the week last.  Every fill is a transaction of its own.  Money is *)
(* in 1/2000 of a won: the fees of 0.05% and 0.25% are integers then.      *)
(***************************************************************************)
EXTENDS Ichimoku

CONSTANTS
  Symbols, Rank,      \* Rank orders symbols of equal strength
  Quotes,             \* Quotes[s]: the prices s trades at, 0 for no trading
  Seeds,              \* Seeds[s]: sequences of rows before the first day
  Cash,               \* the account to begin with
  MaxPositions,       \* --max-positions, the values looked at
  FirstDay, LastDay,  \* bound: the weekdays of a behaviour
  RunsPerDay,         \* starts by the scheduler and its sweeper
  Holidays,           \* days is_market_holiday knows
  Window,             \* days one refresh loads (14)
  Recent,             \* a symbol without a row for longer has left (30)
  StaleHold,          \* a holding without a row for longer is sold (14)
  MaxStale,           \* no trade if the latest row of all is older (7)
  Rules               \* --exit-rule, subset of {"tk_cross", "cloud"}

ASSUME SymbolsAssumption ==
  /\ IsFiniteSet(Symbols)
  /\ Rank \in [Symbols -> Int]
  /\ \A s, t \in Symbols : s # t => Rank[s] # Rank[t]
ASSUME RowsAssumption ==
  \A s \in Symbols :
    /\ Quotes[s] \subseteq Nat
    /\ Seeds[s] \subseteq Seq([day : Nat, price : Nat \ {0}])
    /\ \A q \in Seeds[s] : \A i, j \in DOMAIN q :
         i <= j => q[i].day <= q[j].day /\ q[j].day < FirstDay
ASSUME SizesAssumption ==
  /\ {Cash, FirstDay, RunsPerDay, Window, Recent, StaleHold, MaxStale} \subseteq Nat
  /\ MaxPositions \subseteq Nat \ {0}
ASSUME RulesAssumption == Rules \subseteq {"tk_cross", "cloud"}

VARIABLES
  rule, slots,        \* the arguments of the runner
  day, runs,          \* today, starts of today
  traded,             \* the exchange: what each symbol traded at, in order
  rows,               \* stock_candles_1d: what of it has been loaded
  marker,             \* rows of weekly_rebalance under KR_ICHIMOKU
  cash, held,         \* the account kr_ichimoku and its positions
  todo,               \* the run: orders planned and not yet filled
  pc,                 \* "idle" or "fill"
  purchases           \* history: symbol, breakout and day of every purchase

arguments == <<rule, slots>>
account == <<cash, held, purchases>>
vars == <<arguments, day, runs, traded, rows, marker, account, todo, pc>>

Won      == 2000
BuyCost  == 2001   \* with the fee
SellKeep == 1995   \* less the fee and the tax

Init ==
  /\ rule \in Rules /\ slots \in MaxPositions
  /\ day = FirstDay /\ runs = 0
  /\ traded \in {f \in [Symbols -> UNION {Seeds[s] : s \in Symbols}] :
                   \A s \in Symbols : f[s] \in Seeds[s]}
  /\ rows = traded
  /\ marker = {}
  /\ cash = Cash /\ held = [s \in Symbols |-> 0]
  /\ todo = <<>> /\ pc = "idle"
  /\ purchases = {}

Week == WeekOf(day)
Held == {s \in Symbols : held[s] > 0}

-----------------------------------------------------------------------------
(***************************************************************************)
(* Rows: what the exchange adds every day, and what a refresh loads of it. *)
(* A day has a row when it is over, and none is loaded before (fetch_daily *)
(* leaves out today's).                                                    *)
(***************************************************************************)
NextDay ==
  /\ pc = "idle"
  /\ day < LastDay
  /\ day' = day + 1 /\ runs' = 0
  /\ \E quote \in [Symbols -> UNION {Quotes[s] : s \in Symbols} \union {0}] :
       /\ \A s \in Symbols :
            quote[s] \in IF day \in Holidays THEN {0} ELSE Quotes[s]
       /\ traded' = [s \in Symbols |->
                       IF quote[s] = 0
                         THEN traded[s]
                         ELSE Append(traded[s], [day |-> day, price |-> quote[s]])]
  /\ UNCHANGED <<arguments, rows, marker, account, todo, pc>>

\* Days without a row; a symbol with no rows at all has none for ever.
Lag(rs) == IF rs = <<>> THEN day + Recent + 1 ELSE day - Last(rs).day

Alive == {s \in Symbols : Lag(rows[s]) <= Recent}

\* The rows that are newer than those loaded; they are the last of traded.
\* Those of the window loaded before are written again, which changes none: no
\* stock is split within a behaviour (CandleJobs has what a split does to rows).
Loaded(s) ==
  LET new == {i \in DOMAIN traded[s] : /\ traded[s][i].day > day - Window
                                       /\ day - traded[s][i].day < Lag(rows[s])}
  IN  IF new = {}
        THEN rows[s]
        ELSE rows[s] \o SubSeq(traded[s], Min(new), Len(traded[s]))

\* The fetch of a symbol may fail, which the others do not notice.
Refresh(S) ==
  \E ok \in SUBSET S :
    rows' = [s \in Symbols |-> IF s \in ok THEN Loaded(s) ELSE rows[s]]

-----------------------------------------------------------------------------
(***************************************************************************)
(* The plan, from rows rs.                                                 *)
(***************************************************************************)
Signals(rs) ==
  [s \in Symbols |->
     IF s \in Alive
       THEN LatestSignal(WeeklyBars(rs[s], day), rule)
       ELSE None]

Leaves(s, rs, sig) ==
  sig = None \/ sig.exit \/ s \notin Alive \/ Lag(rs[s]) > StaleHold

Sells(rs, sigs) == {s \in Held : Leaves(s, rs, sigs[s])}

\* Breakouts of symbols that are not held, the strongest first.
Before(sigs, S) ==
  {p \in S \X S : \/ Stronger(sigs[p[1]], sigs[p[2]])
                  \/ /\ ~Stronger(sigs[p[2]], sigs[p[1]])
                     /\ Rank[p[1]] < Rank[p[2]]}

CandidatesBug(rs, sigs) ==
  LET S == {s \in Symbols : sigs[s] # None /\ sigs[s].entry}
  IN  InOrder(S, Before(sigs, S))

Candidates(rs, sigs) ==
  LET S == {s \in Symbols \ Held : sigs[s] # None /\ sigs[s].entry}
  IN  InOrder(S, Before(sigs, S))

Value(S, rs, unit) ==
  SumFunction([s \in S |-> held[s] * Last(rs[s]).price * unit])

\* Cash once the sales are made, and all of it with what is kept.
Available(rs, sigs) == cash + Value(Sells(rs, sigs), rs, SellKeep)
Equity(rs, sigs) == Available(rs, sigs) + Value(Held \ Sells(rs, sigs), rs, Won)

\* Every purchase may take all that is available.
BuysBug(rs, sigs) ==
  LET budget == Available(rs, sigs)
  IN  FoldLeft(LAMBDA acc, s :
                 LET px  == Last(rs[s]).price
                     qty == budget \div (px * BuyCost)
                 IN  IF qty < 1 THEN acc
                     ELSE Append(acc, [side |-> "BUY", sym |-> s,
                                       qty |-> qty, px |-> px]),
               <<>>, Candidates(rs, sigs))

\* One slot's share of the equity for s, while slots and cash last.
Take(acc, s, rs, equity, free) ==
  LET px  == Last(rs[s]).price
      qty == Min({equity \div (slots * px * BuyCost),
                  acc.remaining \div (px * BuyCost)})
  IN  IF Len(acc.buys) >= free \/ qty < 1
        THEN acc
        ELSE [buys      |-> Append(acc.buys,
                              [side |-> "BUY", sym |-> s, qty |-> qty, px |-> px]),
              remaining |-> acc.remaining - qty * px * BuyCost]

Buys(rs, sigs) ==
  FoldLeft(LAMBDA acc, s : Take(acc, s, rs, Equity(rs, sigs),
                                slots - Cardinality(Held \ Sells(rs, sigs))),
           [buys |-> <<>>, remaining |-> Available(rs, sigs)],
           Candidates(rs, sigs)).buys

SellOrders(rs, sigs) ==
  LET S     == Sells(rs, sigs)
      order == InOrder(S, {p \in S \X S : Rank[p[1]] < Rank[p[2]]})
  IN  [k \in DOMAIN order |->
         [side |-> "SELL", sym |-> order[k],
          qty |-> held[order[k]], px |-> Last(rs[order[k]]).price]]

-----------------------------------------------------------------------------
(***************************************************************************)
(* A run.                                                                  *)
(***************************************************************************)
Starts == pc = "idle" /\ runs < RunsPerDay

Fresh(rs) == \E s \in Alive : Lag(rs[s]) <= MaxStale

\* The week is done or the exchange closed: only the holdings are loaded.
Skip ==
  /\ Starts
  /\ Week \in marker \/ day \in Holidays
  /\ runs' = runs + 1
  /\ Refresh(Held)
  /\ UNCHANGED <<arguments, day, traded, marker, account, todo, pc>>

\* A database is down, or the rows are too old to trade on.
Fails ==
  /\ Starts
  /\ runs' = runs + 1
  /\ Refresh(Alive)
  /\ UNCHANGED <<arguments, day, traded, marker, account, todo, pc>>

Plan ==
  /\ Starts
  /\ Week \notin marker /\ day \notin Holidays
  /\ runs' = runs + 1
  /\ Refresh(Alive)
  /\ Fresh(rows')
  /\ \E sigs \in {Signals(rows')} :
       todo' = SellOrders(rows', sigs) \o Buys(rows', sigs)
  /\ pc' = "fill"
  /\ UNCHANGED <<arguments, day, traded, marker, account>>

Fillable(o) ==
  IF o.side = "BUY" THEN cash >= o.qty * o.px * BuyCost ELSE held[o.sym] >= o.qty

\* The breakout a purchase of s is made on.
Breakout(s) == LatestSignal(WeeklyBars(rows[s], day), rule).bar

\* simulate_fill: applied, or rejected without a trace in the ledger.
Fill ==
  /\ pc = "fill" /\ todo # <<>>
  /\ todo' = Tail(todo)
  /\ LET o == Head(todo)
     IN  IF ~Fillable(o)
           THEN UNCHANGED account
           ELSE \/ /\ o.side = "BUY"
                   /\ cash' = cash - o.qty * o.px * BuyCost
                   /\ held' = [held EXCEPT ![o.sym] = @ + o.qty]
                   /\ purchases' = purchases \union
                        {[sym |-> o.sym, bar |-> Breakout(o.sym), day |-> day]}
                \/ /\ o.side = "SELL"
                   /\ cash' = cash + o.qty * o.px * SellKeep
                   /\ held' = [held EXCEPT ![o.sym] = @ - o.qty]
                   /\ UNCHANGED purchases
  /\ UNCHANGED <<arguments, day, runs, traded, rows, marker, pc>>

\* Marks the week before the orders are filled.
MarkBug ==
  /\ pc = "fill"
  /\ marker' = marker \union {Week}
  /\ pc' = IF todo = <<>> THEN "idle" ELSE "fill"
  /\ UNCHANGED <<arguments, day, runs, traded, rows, account, todo>>

Mark ==
  /\ pc = "fill" /\ todo = <<>>
  /\ marker' = marker \union {Week}
  /\ pc' = "idle"
  /\ UNCHANGED <<arguments, day, runs, traded, rows, account, todo>>

\* Between two fills, or before the marker.
Dies ==
  /\ pc = "fill"
  /\ pc' = "idle" /\ todo' = <<>>
  /\ UNCHANGED <<arguments, day, runs, traded, rows, marker, account>>

Next == NextDay \/ Skip \/ Fails \/ Plan \/ Fill \/ Mark \/ Dies

Spec == Init /\ [][Next]_vars
-----------------------------------------------------------------------------
(***************************************************************************)
(* Every planned order is applied when its turn comes: what is bought is   *)
(* covered by the cash, the sales before it included, and what is sold is  *)
(* held.  That a run may be marked without looking at the results rests on *)
(* it (kr_ichimoku_trade_once.py:172).                                     *)
(***************************************************************************)
PlanIsCovered == pc = "fill" /\ todo # <<>> => Fillable(Head(todo))

(***************************************************************************)
(* Through runs that die between two fills and are planned again, there    *)
(* are never more positions than slots, and a position is bought once:     *)
(* nothing is added to it.                                                 *)
(***************************************************************************)
SlotsHold ==
  [][/\ Cardinality({s \in Symbols : held'[s] > 0}) <= slots
     /\ \A s \in Symbols : held'[s] > held[s] => held[s] = 0]_vars

(***************************************************************************)
(* A week is marked only with an account that is aligned: of the holdings  *)
(* that the signals of the loaded rows would sell none is left, but what   *)
(* was bought the same day (a stale symbol may be: see BreakoutBoughtOnce).*)
(***************************************************************************)
AlignedWhenMarked ==
  [][marker' # marker =>
       \A s \in Sells(rows, Signals(rows)) :
         \E p \in purchases : p.sym = s /\ p.day = day]_vars

(***************************************************************************)
(* A week that is not over does not speak: loading rows of this week       *)
(* changes the signal of no symbol (ichimoku.py:27).                       *)
(***************************************************************************)
NoLookahead ==
  [][\A s \in Symbols :
       /\ rows'[s] # rows[s]
       /\ \A i \in DOMAIN rows'[s] \ DOMAIN rows[s] :
            WeekOf(rows'[s][i].day) = Week
       => LatestSignal(WeeklyBars(rows'[s], day), rule)
            = LatestSignal(WeeklyBars(rows[s], day), rule)]_vars

(***************************************************************************)
(* A breakout is an entry once (kr_ichimoku_trade_once.py:8, docs: "one    *)
(* entry at the breakout").  Not so when a symbol stops trading: it is     *)
(* sold as stale, and its last week is still a breakout when the next      *)
(* week plans.                                                             *)
(***************************************************************************)
BreakoutBoughtOnce ==
  \A p, q \in purchases : p.sym = q.sym /\ p.bar = q.bar => p.day = q.day
=============================================================================
