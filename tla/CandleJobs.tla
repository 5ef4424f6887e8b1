----------------------------- MODULE CandleJobs -----------------------------
(***************************************************************************)
(* The jobs that keep candles: the daily coin backfill into candles_1d     *)
(* (backfill_daily.py, upbit_daily.py), the CSV cache of minute candles    *)
(* (upbit_candles.py) and the split-adjusted stock closes                  *)
(* (refresh_stock_daily.py, selective_stock_backfill.py).                  *)
(*                                                                         *)
(* A source hands out pages of Page candles, newest first, and a job pages *)
(* back until it has met what it looks for.  A store is the set of days or *)
(* minutes it holds, numbered from 1; today, the candle still open, is     *)
(* never stored.  A behaviour is about one flow, chosen at the start: the  *)
(* flows share nothing but the clock.                                      *)
(***************************************************************************)
EXTENDS Integers, FiniteSets, FiniteSetsExt, Functions

CONSTANTS
  Flows,            \* the flows to look at
  Coins, Listed,    \* Listed[c]: a coin's first day
  Page,             \* HTTP_PAGE
  Days,             \* --days of the coin backfill
  Depths,           \* days a caller of the minute cache asks for
  RefreshDays,      \* DAYS
  RecentDays,       \* RECENT_DAYS
  ProbeDays,        \* _PROBE_DAYS
  StaleDays,        \* _STALE_DAYS
  Seeded,           \* days the stock store starts with
  LastDay,          \* bounds: per flow the last day,
  MaxSplits         \*   splits

ASSUME CandleAssumption ==
  /\ IsFiniteSet(Coins) /\ Listed \in [Coins -> Nat \ {0}]
  /\ Page \in Nat \ {0} /\ Days \in Nat \ {0} /\ Depths \subseteq Nat \ {0}
  /\ RefreshDays \in Nat \ {0} /\ ProbeDays \in Nat \ {0}
  /\ RecentDays \in Nat /\ StaleDays \in Nat
  /\ Seeded \in Nat \ {0} /\ MaxSplits \in Nat
  /\ LastDay \in [Flows -> Nat] /\ \A f \in Flows : Seeded < LastDay[f]

VARIABLES
  flow, today,
  daily,       \* candles_1d: per coin the days stored
  backfilled,  \* history: per coin the day its backfill last succeeded, or 0,
  apart,       \*   and the most days between two that did
  file,        \* the cached minutes
  torn,        \* history: a fill towards the newest minute was cut short
  done,        \* history: what the last completed backfill was to leave
  closes,      \* stock_candles_1d: day -> adjustment of its stored close
  splits,      \* splits so far: the adjustment of all that is served now
  passed,      \* history: day of the last selective pass that did its work
  regular      \* history: no two of them were too far apart

coinVars == <<daily, backfilled, apart>>
cacheVars == <<file, torn, done>>
stockVars == <<closes, splits, passed, regular>>
candleVars == <<flow, today, coinVars, cacheVars, stockVars>>

InitCandles ==
  /\ flow \in Flows
  /\ today = Seeded + 1
  /\ daily = [c \in Coins |-> {}]
  /\ backfilled = [c \in Coins |-> 0]
  /\ apart = [c \in Coins |-> 0]
  /\ file = {} /\ torn = FALSE
  /\ done = [from |-> 1, to |-> 0]
  /\ closes = [d \in 1..Seeded |-> 0]
  /\ splits = 0
  /\ passed = Seeded + 1 /\ regular = TRUE

-----------------------------------------------------------------------------
(***************************************************************************)
(* Pages of candles from top back: how many it takes to meet bound, and    *)
(* what n of them hold.  Before first there are no candles: a short page.  *)
(***************************************************************************)
PagesTo(top, bound, first) ==
  IF top < first THEN 0 ELSE (top - Max({bound, first})) \div Page + 1

Candles(top, n) == {d \in 1..today - 1 : d <= top /\ d > top - n * Page}

\* (A definition named ...Bug is the one that follows it with a plausible
\* mistake; nothing uses it.)  An incremental fetch is one page.
FetchDailyBug(c) ==
  LET first == Listed[c]
      pages == IF daily[c] = {} THEN PagesTo(today, today - Days, first) ELSE 1
  IN  {d \in Candles(today, pages) : d >= first}

(***************************************************************************)
(* fetch_daily: back to the last stored day, or over the whole window if   *)
(* none is stored.                                                         *)
(***************************************************************************)
FetchDaily(c) ==
  LET bound == Max(daily[c] \union {today - Days})
      first == Listed[c]
  IN  {d \in Candles(today, PagesTo(today, bound, first)) : d >= first}

(***************************************************************************)
(* backfill_daily.main.  A coin whose requests fail is passed over: its    *)
(* pages are gathered before any is stored.  The exit code is 1 then.      *)
(***************************************************************************)
BackfillDaily(failed) ==
  /\ daily' = [c \in Coins |-> IF c \in failed THEN daily[c] ELSE daily[c] \union FetchDaily(c)]
  /\ backfilled' = [c \in Coins |-> IF c \in failed THEN backfilled[c] ELSE today]
  /\ apart' = [c \in Coins |-> IF c \in failed \/ backfilled[c] = 0 THEN apart[c]
                               ELSE Max({apart[c], today - backfilled[c]})]

-----------------------------------------------------------------------------
(***************************************************************************)
(* _backfill_one and _finalize for one market.  Ends of the file are read  *)
(* once, then pages are appended, first from now back to the newest cached *)
(* minute, then from the oldest back to the window's start.  The process   *)
(* may end after any page (stop, of all): what it has appended stays.      *)
(***************************************************************************)
Backfill(depth, stop) ==
  LET forward == IF file = {} THEN 0 ELSE PagesTo(today, Max(file), 1)
      top     == IF file = {} THEN today ELSE Min(file) - 1
      back    == IF top < today - depth THEN 0 ELSE PagesTo(top, today - depth, 1)
      all     == forward + back
  IN  /\ stop \in 0..all
      /\ file' = file \union Candles(today, Min({stop, forward}))
                      \union Candles(top, Max({0, stop - forward}))
      /\ torn' = (torn \/ stop \in 1..forward - 1)
      /\ done' = IF stop = all THEN [from |-> today - depth, to |-> today - 1] ELSE done

-----------------------------------------------------------------------------
(***************************************************************************)
(* The source re-adjusts the whole history at a split: the closes of the   *)
(* last n days as a request made now returns them.                         *)
(***************************************************************************)
Served(n) == [d \in {x \in 1..today - 1 : x > today - n} |-> splits]

\* Rows written over those of the same keys.
Over(new, old) ==
  [k \in DOMAIN new \union DOMAIN old |-> IF k \in DOMAIN new THEN new[k] ELSE old[k]]

Split ==
  /\ splits < MaxSplits
  /\ splits' = splits + 1
  /\ UNCHANGED <<closes, passed, regular>>

Alive == \E d \in DOMAIN closes : d >= today - RecentDays

\* refresh, of a symbol that is alive and whose request is answered.
Refresh ==
  /\ Alive
  /\ closes' = Over(Served(RefreshDays), closes)
  /\ UNCHANGED <<splits, passed, regular>>

\* The probe looks no further back than the refresh.
NeedsFullBug ==
  LET recent == {d \in DOMAIN closes : d > today - RefreshDays}
  IN  \/ recent = {} \/ today - Max(recent) > StaleDays
      \/ \E d \in recent : closes[d] # splits

(***************************************************************************)
(* _needs_full: nothing stored in the probed days, a last day too old, or  *)
(* a probed close that is no longer the one served.                        *)
(***************************************************************************)
NeedsFull ==
  LET recent == {d \in DOMAIN closes : d > today - ProbeDays}
  IN  \/ recent = {} \/ today - Max(recent) > StaleDays
      \/ \E d \in recent : closes[d] # splits

\* backfill_stock_daily of a symbol: its whole history again.
Refilled == Over(Served(LastDay[flow]), closes)

(***************************************************************************)
(* selective_stock_backfill.run with its requests answered.  (One that is  *)
(* not answered passes over the symbol: nothing changes, and the pass is   *)
(* none of those counted in passed and regular.)                           *)
(***************************************************************************)
SelectiveBackfill ==
  /\ closes' = IF NeedsFull THEN Refilled ELSE closes
  /\ passed' = today
  /\ regular' = (regular /\ today - passed < ProbeDays - RefreshDays)
  /\ UNCHANGED splits

-----------------------------------------------------------------------------
NextDay ==
  /\ today < LastDay[flow]
  /\ today' = today + 1
  /\ UNCHANGED <<flow, coinVars, cacheVars, stockVars>>

FillStep ==
  /\ flow = "fill"
  /\ \E failed \in SUBSET Coins : BackfillDaily(failed)
  /\ UNCHANGED <<flow, today, cacheVars, stockVars>>

CacheStep ==
  /\ flow = "cache"
  /\ \E depth \in Depths : \E stop \in 0..LastDay[flow] : Backfill(depth, stop)
  /\ UNCHANGED <<flow, today, coinVars, stockVars>>

StockStep ==
  /\ flow = "stock"
  /\ Split \/ Refresh \/ SelectiveBackfill
  /\ UNCHANGED <<flow, today, coinVars, cacheVars>>

-----------------------------------------------------------------------------
Gapless(days, from, to) == \A d \in from..to : d \in days

(***************************************************************************)
(* Whichever requests failed, candles_1d has no hole: nothing is missing   *)
(* between a coin's first stored day and the day before its last backfill, *)
(* unless that was farther from the one before than the window is long     *)
(* (backfill_daily's increment starts at the last stored day,              *)
(* upbit_daily.fetch_daily pages back that far, within --days).            *)
(***************************************************************************)
CoinDaysAreWhole ==
  \A c \in Coins : daily[c] # {} /\ apart[c] <= Days =>
    Gapless(daily[c], Min(daily[c]), backfilled[c] - 1)

(***************************************************************************)
(* A backfill of the cache that ends leaves all the minutes asked for,     *)
(* also when the ones before it were cut short; but for one that was cut   *)
(* short on its way to the newest minute (CacheIsWhole below).             *)
(***************************************************************************)
CacheResumes == ~ torn => Gapless(file, Max({1, done.from}), done.to)

\* Between pages of a store nothing is lost.
StoresAreWhole == CoinDaysAreWhole /\ CacheResumes

(***************************************************************************)
(* The header of upbit_candles.py: a cache that exists is completed in     *)
(* both directions.                                                        *)
(***************************************************************************)
CacheIsWhole == Gapless(file, Max({1, done.from}), done.to)

(***************************************************************************)
(* A selective pass leaves stored closes of one adjustment, if passes were *)
(* never further apart than the probe reaches beyond the daily refresh     *)
(* and the days probed have no hole (selective_stock_backfill.py, header:  *)
(* the stock part of monthly maintenance).                                 *)
(***************************************************************************)
OneAdjustment ==
  flow = "stock" /\ SelectiveBackfill /\ regular'
    /\ Gapless(DOMAIN closes, 1, Max(DOMAIN closes))
  => \A d \in DOMAIN closes' : closes'[d] = splits
OneFactor == [][OneAdjustment]_candleVars
=============================================================================
