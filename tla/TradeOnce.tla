----------------------------- MODULE TradeOnce -----------------------------
(***************************************************************************)
(* A boot of the trading VM in its coin branch (infra/trade-vm-startup.sh, *)
(* runners/trade_once.py): db-init mends the equity curve, the backfill    *)
(* completes candles_1d, and the runner decides on every coin, commits one *)
(* decision after another, takes a snapshot and reports.                   *)
(*                                                                         *)
(* The VM is started once a day, again by the sweeper and by hand at any   *)
(* time; it is one machine, so boots follow each other.  It may be stopped *)
(* anywhere, and midnight may pass anywhere.  The targets of a run are any *)
(* (SignalPath models how they are computed).                              *)
(***************************************************************************)
EXTENDS CandleJobs, Rebalance, SequencesExt

CONSTANTS
  Accounts, Cash0,  \* accounts with auto_trade, their first cash
  CoinList,         \* ENSEMBLE_SYMBOLS
  Quotes,           \* answers of the ticker: coin -> price
  Targets,          \* combined target weights
  MaxStale,         \* _MAX_STALE_DAYS
  MaxBoots          \* bound

ASSUME TradeAssumption ==
  /\ IsFiniteSet(Accounts) /\ Cash0 \in Nat
  /\ CoinList \in Seq(Coins)
  /\ ToSet(CoinList) = Coins /\ Len(CoinList) = Cardinality(Coins)
  /\ MaxStale \in Nat /\ MaxBoots \in Nat
  \* the plan's fees, not rounded in the code, are whole here
  /\ \A q \in Quotes : \A c \in DOMAIN q : (q[c] * FeeNum) % FeeDen = 0

VARIABLES
  step,       \* what the boot does next, or "off"
  work,       \* decisions planned and not committed yet
  prices,     \* the quotes of this run
  cash, held, \* accounts, positions
  decisions,  \* trade_decisions, in the order of their commits
  snapshots,  \* equity_snapshots: <<account, day>> -> equity
  mended,     \* db-init of this boot went through
  told,       \* history: Told of the last run that ended
  boots

runVars == <<step, work, prices>>
bookVars == <<cash, held, decisions>>
tradeVars == <<runVars, bookVars, snapshots, mended, told, boots>>

NothingTold == [failed |-> FALSE, heard |-> FALSE, lost |-> FALSE]

InitTrade ==
  /\ step = "off" /\ work = << >> /\ prices = << >>
  /\ cash = [a \in Accounts |-> Cash0]
  /\ held = [a \in Accounts |-> [c \in Coins |-> 0]]
  /\ decisions = << >> /\ snapshots = << >>
  /\ mended = FALSE
  /\ told = NothingTold
  /\ boots = 0

\* notify_telegram.send: sent or not; nothing in it raises.
Sent == BOOLEAN

\* notify_fail: the shell speaks for a job whose exit code is not 0 or 70.
ShellSpeaks(exit) == exit \notin {0, 70}

(***************************************************************************)
(* Who is told of a job: its own message was sent, or the shell's was, and *)
(* that goes the same way and may fail too (answers): then it is lost.     *)
(***************************************************************************)
Told(failed, exit, sent, answers) ==
  [failed |-> failed,
   heard  |-> sent \/ (ShellSpeaks(exit) /\ answers),
   lost   |-> ShellSpeaks(exit) /\ ~ sent /\ ~ answers]

-----------------------------------------------------------------------------
NoValue == -1
Valued == {d \in ToSet(decisions) : d.equity # NoValue}

\* (A definition named ...Bug is the one that follows it with a plausible
\* mistake; nothing uses it.)  Only days with a trade are mended.
RepairBug ==
  LET traded == {d \in Valued : d.executed}
  IN  Over(snapshots, [k \in {<<d.account, d.day>> : d \in traded} |->
        Max({d.equity : d \in {e \in traded : <<e.account, e.day>> = k}})])

(***************************************************************************)
(* postgres_repair.sql: a day with valued decisions and no snapshot gets   *)
(* the largest equity they were made at.                                   *)
(***************************************************************************)
Repair ==
  Over(snapshots, [k \in {<<d.account, d.day>> : d \in Valued} |->
    Max({d.equity : d \in {e \in Valued : <<e.account, e.day>> = k}})])

Boot ==
  /\ step = "off" /\ boots < MaxBoots
  /\ boots' = boots + 1
  /\ mended' \in BOOLEAN
  /\ snapshots' = IF mended' THEN Repair ELSE snapshots
  /\ step' = "backfill"
  /\ UNCHANGED <<today, coinVars, work, prices, bookVars, told>>

BackfillCoins ==
  /\ step = "backfill" /\ step' = "trade"
  /\ \E failed \in SUBSET Coins : BackfillDaily(failed)
  /\ UNCHANGED <<today, work, prices, bookVars, snapshots, mended, told, boots>>

-----------------------------------------------------------------------------
AlreadyRanToday == \E d \in ToSet(decisions) : d.day = today

Start ==
  /\ step = "trade"
  /\ step' = IF AlreadyRanToday THEN "off" ELSE "plan"
  /\ UNCHANGED <<today, coinVars, work, prices, bookVars, snapshots, mended, told, boots>>

(***************************************************************************)
(* stale_bar_reason: no candle at all, or none young enough in any coin.   *)
(***************************************************************************)
BarDate(c) == IF daily[c] = {} THEN 0 ELSE Max(daily[c])
StaleBars ==
  \/ \A c \in Coins : daily[c] = {}
  \/ today - Max({BarDate(c) : c \in Coins}) > MaxStale

(***************************************************************************)
(* plan_decisions of an account, one coin after the other: what a decision *)
(* moves is in the cash and the holdings that the next one starts from.    *)
(* Without a price, or without a target, nothing is traded.                *)
(***************************************************************************)
Decided(a, targets, quote, plan, c) ==
  LET priced == c \in DOMAIN quote
      equity == Equity(plan.cash, plan.held, quote)
      order  == IF priced /\ targets[c] # Unknown
                THEN Decide(plan.held[c], quote[c], plan.cash, equity, targets[c])
                ELSE None
      value  == IF priced THEN order.qty * quote[c] ELSE 0
      fee    == (value * FeeNum) \div FeeDen
      sign   == IF order.side = "BUY" THEN 1 ELSE -1
  IN  [cash |-> plan.cash - sign * value - fee,
       held |-> [plan.held EXCEPT ![c] = @ + sign * order.qty],
       made |-> Append(plan.made,
                  [account |-> a, day |-> today, bar |-> BarDate(c), sym |-> c,
                   action |-> Classify(order), qty |-> order.qty,
                   price |-> IF priced THEN quote[c] ELSE NoValue,
                   equity |-> IF priced THEN equity ELSE NoValue])]

Planned(a, targets, quote) ==
  FoldLeft(LAMBDA plan, c : Decided(a, targets, quote, plan, c),
           [cash |-> cash[a], held |-> held[a], made |-> << >>], CoinList).made

PlanDecisions(targets, quote) ==
  FoldLeft(LAMBDA all, a : all \o Planned(a, targets, quote), << >>, SetToSeq(Accounts))

(***************************************************************************)
(* compute_targets gives a target where there is a candle.                 *)
(***************************************************************************)
Known(targets) == \A c \in Coins : (targets[c] = Unknown) = (daily[c] = {})

Plan ==
  /\ step = "plan" /\ ~ StaleBars
  /\ \E quote \in Quotes, targets \in [Coins -> Targets \union {Unknown}] :
       /\ Known(targets)
       /\ prices' = quote
       /\ work' = PlanDecisions(targets, quote)
  /\ step' = "commit"
  /\ UNCHANGED <<today, coinVars, bookVars, snapshots, mended, told, boots>>

(***************************************************************************)
(* An exception: stale candles, no answer of the ticker, a database error. *)
(* A transaction it interrupts leaves nothing.                             *)
(***************************************************************************)
Fail ==
  /\ step \in {"plan", "commit"}
  /\ step' = "off" /\ work' = << >> /\ prices' = << >>
  /\ \E sent, answers \in Sent : told' = Told(TRUE, IF sent THEN 70 ELSE 1, sent, answers)
  /\ UNCHANGED <<today, coinVars, bookVars, snapshots, mended, boots>>

-----------------------------------------------------------------------------
(***************************************************************************)
(* apply_execution of a market order at the planned price.                 *)
(***************************************************************************)
Covered(d) ==
  CASE d.action = "BUY"  -> Cost(d.price, d.qty) <= cash[d.account]
    [] d.action = "SELL" -> d.qty <= held[d.account][d.sym]
    [] OTHER -> FALSE

Settled(books, d) ==
  IF d.action = "BUY"
  THEN [cash |-> [books.cash EXCEPT ![d.account] = HalfUp(@ - Cost(d.price, d.qty))],
        held |-> [books.held EXCEPT ![d.account][d.sym] = @ + d.qty]]
  ELSE [cash |-> [books.cash EXCEPT ![d.account] = HalfUp(@ + Proceeds(d.price, d.qty))],
        held |-> [books.held EXCEPT ![d.account][d.sym] = @ - d.qty]]

Recorded(d) == Over(d, [executed |-> Covered(d)])

\* The execution is committed before the record.
CommitBug ==
  /\ step = "commit" /\ work # << >>
  /\ LET d     == Head(work)
         after == IF Covered(d) THEN Settled([cash |-> cash, held |-> held], d)
                                ELSE [cash |-> cash, held |-> held]
     IN  /\ cash' = after.cash /\ held' = after.held
         /\ \/ decisions' = Append(decisions, Recorded(d)) /\ work' = Tail(work) /\ step' = step
            \/ decisions' = decisions /\ work' = << >> /\ step' = "off"
  /\ UNCHANGED <<today, coinVars, prices, snapshots, mended, told, boots>>

(***************************************************************************)
(* One decision, its execution and its record, in one transaction.         *)
(***************************************************************************)
Commit ==
  /\ step = "commit" /\ work # << >>
  /\ LET d     == Head(work)
         after == IF Covered(d) THEN Settled([cash |-> cash, held |-> held], d)
                                ELSE [cash |-> cash, held |-> held]
     IN  /\ cash' = after.cash /\ held' = after.held
         /\ decisions' = Append(decisions, Recorded(d))
  /\ work' = Tail(work)
  /\ UNCHANGED <<today, coinVars, step, prices, snapshots, mended, told, boots>>

(***************************************************************************)
(* record_snapshot, under the date of now and over what it holds already;  *)
(* whatever fails in it is swallowed.                                      *)
(***************************************************************************)
Snapshot ==
  /\ step = "commit" /\ work = << >>
  /\ step' = "report"
  /\ \E saved \in SUBSET Accounts :
       snapshots' = Over([k \in {<<a, today>> : a \in saved} |->
                            Equity(cash[k[1]], held[k[1]], prices)], snapshots)
  /\ UNCHANGED <<today, coinVars, work, prices, bookVars, mended, told, boots>>

(***************************************************************************)
(* The message, and the exit code: 70 if an order was rejected.            *)
(***************************************************************************)
Rejected(d) == d.action # "HOLD" /\ ~ d.executed
LatestRows == LET n == Len(CoinList) * Cardinality(Accounts)
              IN  SubSeq(decisions, Len(decisions) - n + 1, Len(decisions))

Report ==
  /\ step = "report"
  /\ LET failed == \E d \in ToSet(LatestRows) : Rejected(d)
     IN  \E sent, answers \in Sent :
           told' = Told(failed, IF failed THEN 70 ELSE 0, sent, answers)
  /\ step' = "off" /\ prices' = << >>
  /\ UNCHANGED <<today, coinVars, work, bookVars, snapshots, mended, boots>>

\* The watchdog of the VM, or any other stop: nobody is told.
PowerOff ==
  /\ step # "off" /\ step' = "off"
  /\ work' = << >> /\ prices' = << >>
  /\ UNCHANGED <<today, coinVars, bookVars, snapshots, mended, told, boots>>

TradeStep ==
  /\ flow = "coin"
  /\ Boot \/ BackfillCoins \/ Start \/ Plan \/ Fail \/ Commit \/ Snapshot \/ Report \/ PowerOff
  /\ UNCHANGED <<flow, cacheVars, stockVars>>

-----------------------------------------------------------------------------
\* The books that recorded decisions make of the first ones.
FirstBooks == [cash |-> [a \in Accounts |-> Cash0],
               held |-> [a \in Accounts |-> [c \in Coins |-> 0]]]
Booked(books, d) == IF d.executed THEN Settled(books, d) ELSE books
Replayed(records) == FoldLeft(Booked, FirstBooks, records)

(***************************************************************************)
(* Cash and holdings are what the decisions recorded as executed make of   *)
(* the first cash, whatever boots were cut short (trade_once.run: no       *)
(* execution without its record).                                          *)
(***************************************************************************)
BooksMatchDecisions == [cash |-> cash, held |-> held] = Replayed(decisions)

(***************************************************************************)
(* However often the VM is started on a day, an account decides once on a  *)
(* coin (trade_once._already_ran_today).                                   *)
(***************************************************************************)
OncePerDay ==
  \A i, j \in 1..Len(decisions) : i # j =>
    \/ decisions[i].day # decisions[j].day
    \/ decisions[i].account # decisions[j].account
    \/ decisions[i].sym # decisions[j].sym

\* The record of a day is all that was traded, and no day is traded twice.
TradesAreRecorded == BooksMatchDecisions /\ OncePerDay

(***************************************************************************)
(* Once a boot's db-init went through, every day that decided at a price   *)
(* is on the equity curve, whether its snapshot failed or its run was cut  *)
(* short (postgres_repair.sql).                                            *)
(***************************************************************************)
CurveHasEveryDay ==
  mended /\ step \in {"backfill", "trade", "plan"} =>
    \A d \in Valued : <<d.account, d.day>> \in DOMAIN snapshots

(***************************************************************************)
(* stale_bar_reason's comment: it blocks at the moment a target would be   *)
(* computed from old data.                                                 *)
(***************************************************************************)
NoStaleTrade ==
  \A d \in ToSet(work) : d.action # "HOLD" => d.day - d.bar <= MaxStale

(***************************************************************************)
(* run's docstring: 70 is returned once the message has been sent, and for *)
(* the rest there is the shell.                                            *)
(***************************************************************************)
FailureIsHeard == told.failed => told.heard \/ told.lost
=============================================================================
