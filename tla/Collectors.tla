----------------------------- MODULE Collectors -----------------------------
(***************************************************************************)
(* The collectors that monthly maintenance runs (batch/rawdata): FINRA     *)
(* short interest, scanned over a window of days; KRX flows, fetched from  *)
(* where the tables end; quarterly filings, fetched by year through a      *)
(* cache of zips; the reports of a Korean company, fetched by year without *)
(* one; identifiers, looked up through a cache on a volume; and index      *)
(* membership, derived again from snapshots.                               *)
(*                                                                         *)
(* Whatever a source has published can be fetched later.  What a store     *)
(* misses, then, is what no run asked for, or what one that asked did not  *)
(* get and none asked for again.                                           *)
(***************************************************************************)
EXTENDS Integers, FiniteSets, FiniteSetsExt, SequencesExt

CONSTANTS
  Sources,           \* the collectors to look at
  Symbols,
  LastRun,           \* bound: per source the last day (filings: month) of a run
  Gaps, LongGap,     \* days between two runs, and the most of them: no two
                     \*   such gaps follow each other
  Settlement,        \* FINRA: days between two settlement dates,
  ShortLag,          \*   until one is published,
  ShortDays,         \*   --days of finra_short,
  Stops,             \*   days scanned when a run ends,
  MaxRefused,        \*   bound: settlement dates refused in all
  Tables, Lag,       \* KRX: tables, days until a day of one is published,
  BufferDays,        \*   _INCR_BUFFER_DAYS,
  Months, Quarters,  \* filings: months of a quarter, quarters of a year
  GridDays,          \* membership: days of the grid,
  Weekdays,          \*   days of trading,
  RunDays            \*   days on which the collector is run

ASSUME CollectorAssumption ==
  /\ IsFiniteSet(Symbols) /\ LastRun \in [Sources -> Nat]
  /\ Gaps \subseteq Nat \ {0} /\ LongGap \in Gaps
  /\ Settlement \in Nat \ {0} /\ ShortLag \in Nat /\ ShortDays \in Nat
  /\ Stops \subseteq 0..ShortDays + 1 /\ MaxRefused \in Nat
  /\ IsFiniteSet(Tables) /\ Lag \in [Tables -> Nat] /\ BufferDays \in Nat
  /\ Months \in Nat \ {0} /\ Quarters \in Nat \ {0, 1}
  /\ GridDays \subseteq Weekdays /\ Weekdays \subseteq Nat /\ RunDays \subseteq Nat

VARIABLES
  source,      \* the collector looked at
  now,         \* the day (filings: the month) of its last run
  short,       \* stock_short, US: settlement dates stored
  phase,       \* the first settlement date
  refused,     \* history: dates passed over, their file published,
  whole,       \*   day of the last run that ended normally,
  row, misses, \*   runs since then that did not, the most of them in a row,
  gap,         \*   days between the last two runs
  krx,         \* krx[t][s]: days stored
  dropped,     \* history: days passed over by the bulk load,
  lost,        \*   symbols passed over by a run that stored others
  zips,        \* cached zips: quarter -> "torn" or "good"
  filings,     \* insider_transactions: quarters stored
  skipped,     \* history: quarters passed over, their zip published,
  ended,       \*   months in which a run got through its quarters
  corp,        \* corp_map.json: the company is "known", "unknown", or "unasked"
  reports,     \* its quarters in fundamentals_quarterly
  blank,       \* reports the last run has cached as empty
  complete,    \* history: reports of runs that were answered in full
  cusip, sic,  \* symbols found, kept in a cache;
  unknown,     \*   in that of sic also those not found
  joined,      \* per symbol the days it is in the index
  membership,  \* index_membership: <<symbol, from, to>>
  changes,     \* index_changes: <<day, symbol, what>>
  blanked      \* history: an empty list on a day of trading

finraVars == <<short, refused, phase, whole, row, misses, gap>>
krxVars == <<krx, dropped, lost>>
zipVars == <<zips, filings, skipped, ended>>
dartVars == <<corp, reports, blank, complete>>
lookupVars == <<cusip, sic, unknown>>
memberVars == <<joined, membership, changes, blanked>>
collectorVars ==
  <<source, now, finraVars, krxVars, zipVars, dartVars, lookupVars, memberVars>>

InitCollectors ==
  /\ source \in Sources
  /\ now = 0
  /\ phase \in IF source = "finra" THEN 1..Settlement ELSE {1}
  /\ short = {} /\ refused = {} /\ whole = 0 /\ row = 0 /\ misses = 0 /\ gap = 0
  /\ krx = [t \in Tables |-> [s \in Symbols |-> {}]]
  /\ dropped = {} /\ lost = {}
  /\ zips = << >> /\ filings = {} /\ skipped = {} /\ ended = {}
  /\ corp = "unasked" /\ reports = {} /\ blank = {} /\ complete = {}
  /\ cusip = {} /\ sic = {} /\ unknown = {}
  /\ IF source = "members"
     THEN \E one \in Symbols, from, to \in 1..LastRun["members"] :
            joined = [s \in Symbols |-> IF s = one THEN 1..LastRun["members"] ELSE from..to]
     ELSE joined = [s \in Symbols |-> {}]
  /\ membership = {} /\ changes = {} /\ blanked = FALSE

-----------------------------------------------------------------------------
(***************************************************************************)
(* FINRA (finra_short.collect): a run on day t scans the days from t back, *)
(* ShortDays of them before t.  Whatever is not answered with a file is    *)
(* passed over, a day without one and a refusal (403, 429, 5xx) alike; an  *)
(* error of the connection ends the run, and so does, after the last day,  *)
(* not one file.                                                           *)
(***************************************************************************)
Settles(d) == d >= phase /\ (d - phase) % Settlement = 0

\* (A definition named ...Bug is the one that follows it with a plausible
\* mistake; nothing uses it.)  The days since the last run are scanned.
ScannedBug(t, n) == {d \in 1..t : d > t - n /\ d > now}
Scanned(t, n) == {d \in 1..t : d > t - n}

Published(t, n) == {d \in Scanned(t, n) : Settles(d) /\ d + ShortLag <= t}

FinraRun(t, n, refusals) ==
  LET files  == Published(t, n) \ refusals
      normal == n = ShortDays + 1 /\ files # {}
  IN  /\ t - now \in Gaps /\ (gap = LongGap => t - now # LongGap)
      /\ gap' = t - now
      /\ short' = short \union files
      /\ refused' = refused \union refusals
      /\ whole' = IF normal THEN t ELSE whole
      /\ row' = IF normal THEN 0 ELSE row + 1
      /\ misses' = Max({misses, row'})
      /\ UNCHANGED phase

-----------------------------------------------------------------------------
(***************************************************************************)
(* KRX.  What a request on day t returns of table b, from a day on; the    *)
(* parts of a row that are missing are filled with zeros.                  *)
(***************************************************************************)
Rows(b, from, t) == {d \in 1..t : d >= from /\ d + Lag[b] <= t}

(***************************************************************************)
(* The first load goes day by day and passes over days that fail           *)
(* (krx_bulk.store_kr_bulk).                                               *)
(***************************************************************************)
BulkLoad(t, failed) ==
  /\ now = 0
  /\ krx' = [b \in Tables |-> [s \in Symbols |-> Rows(b, 1, t) \ failed]]
  /\ dropped' = failed
  /\ UNCHANGED lost

Stored(b) == UNION {krx[b][s] : s \in Symbols}

(***************************************************************************)
(* _auto_start: some days before the last day of the shortest table, taken *)
(* over all symbols.                                                       *)
(***************************************************************************)
AutoStart == Min({Max(Stored(b)) : b \in Tables}) - BufferDays

(***************************************************************************)
(* krx.store_kr_market: symbols that fail are passed over.  An empty table *)
(* and a run without a row are errors that leave the store as it was.      *)
(***************************************************************************)
KrxRun(t, failed) ==
  /\ \A b \in Tables : Stored(b) # {}
  /\ failed # Symbols
  /\ krx' = [b \in Tables |-> [s \in Symbols |->
       IF s \in failed THEN krx[b][s]
       ELSE krx[b][s] \union Rows(b, AutoStart, t)]]
  /\ lost' = lost \union failed
  /\ UNCHANGED dropped

-----------------------------------------------------------------------------
(***************************************************************************)
(* Filings by quarter (insider.collect, sec_13f.collect): maintenance asks *)
(* for the quarters of the year of its run.  A quarter is published after  *)
(* its end, and until then skipped.                                        *)
(***************************************************************************)
QuarterOf(month) == (month - 1) \div Months + 1
YearOf(quarter) == (quarter - 1) \div Quarters
Asked(t) == {q \in 1..QuarterOf(t) - 1 : YearOf(q) = YearOf(QuarterOf(t))}

(***************************************************************************)
(* _fetch_zip: a zip that does not open is deleted and downloaded again.   *)
(* It has none for a quarter whose second zip does not open either, or     *)
(* (insider) whose request is answered 403 or 404, as one not published.   *)
(***************************************************************************)
Readable(q, none) == q \notin none

Whole(q) == q \in DOMAIN zips /\ zips[q] = "good"

\* A zip that is not cached whole is torn when the run is killed at it.
Kept(good, cut, none) ==
  [q \in (DOMAIN zips \union good \union cut) \ none |->
     IF q \in good \/ Whole(q) THEN "good" ELSE "torn"]

(***************************************************************************)
(* The quarters in turn; an error ends the run at upto, or a kill while it *)
(* writes the zip of upto (tear).  (One that stored nothing fails at its   *)
(* very end.)                                                              *)
(***************************************************************************)
Quarterly(t, upto, tear, read, none) ==
  LET before == {q \in Asked(t) : q < upto}
  IN  /\ none \subseteq {q \in before : ~ Whole(q) /\ q \notin read}
      /\ filings' = filings \union {q \in before : Readable(q, none)}
      /\ skipped' = skipped \union none
      /\ zips' = Kept((before \ none) \union read, {q \in Asked(t) : tear /\ q = upto}, none)
      /\ ended' = IF before = Asked(t) THEN ended \union {t} ELSE ended

ZipRun(t, upto, tear, none) == Quarterly(t, upto, tear, {}, none)

(***************************************************************************)
(* sec_13f.collect reads one zip first, for the identifiers, and fails if  *)
(* no quarter of the year is published or that zip does not open; then the *)
(* quarters in turn.                                                       *)
(***************************************************************************)
HoldingsRun(t, boot, upto, tear, none) ==
  /\ boot \in Asked(t)
  /\ \/ upto > 0 /\ Quarterly(t, upto, tear, {boot}, none)
     \/ /\ upto = 0 /\ none \subseteq {q \in {boot} : ~ Whole(q)}
        /\ zips' = Kept({}, {q \in {boot} : tear}, none)
        /\ UNCHANGED <<filings, skipped, ended>>

-----------------------------------------------------------------------------
(***************************************************************************)
(* DART reports of one company (kr_fundamentals).  A run asks for the      *)
(* reports of every year from start on, in maintenance of the year it runs *)
(* in, and takes what does not come for empty.  The last quarter of a year *)
(* is the annual report less the sum in the one before.  The map of        *)
(* companies is downloaded once.  (A request that raises leaves out the    *)
(* company, as one does for which nothing comes.)                          *)
(***************************************************************************)
YearEnd(q) == q % Quarters = 0
DartAsked(t, start) ==
  {q \in 1..Quarters * (YearOf(QuarterOf(t)) + 1) : YearOf(q) >= start}

\* _fetch_report: its cache ends with the container.
Fetched(q, answered) == q \in answered

DartRun(t, start, answered) ==
  LET asked == DartAsked(t, start)
      got   == {q \in asked : Fetched(q, answered)}
      due   == asked \cap 1..QuarterOf(t) - 1
  IN  /\ answered \subseteq due
      /\ corp' \in IF corp = "unasked" THEN {"known", "unknown"} ELSE {corp}
      /\ reports' = IF corp' = "known"
                    THEN reports \union {q \in got : YearEnd(q) => q - 1 \in got}
                    ELSE reports
      /\ blank' = asked \ got
      /\ complete' = IF answered = due THEN complete \union due ELSE complete

-----------------------------------------------------------------------------
(***************************************************************************)
(* Identifiers are looked up once: CUSIPs, of which an answer is kept      *)
(* (sec_13f._cusip_to_ticker), and SIC codes, of which a failed request is *)
(* kept as well, as no code (sec_sector.fetch_sic).                        *)
(***************************************************************************)
LookUp(answered) ==
  /\ cusip' = cusip \union answered
  /\ sic' = sic \union (answered \ unknown)
  /\ unknown' = unknown \union (Symbols \ (answered \union sic))

-----------------------------------------------------------------------------
(***************************************************************************)
(* KR index membership (kr_index_membership).  Snapshots are taken of the  *)
(* days of the grid and of today, t, and empty ones dropped: those of days *)
(* without trading, and what a lost login is answered (empty).             *)
(***************************************************************************)
\* Today is always kept.
SnapshotsBug(t) == {d \in GridDays \union {t} : d <= t}
Snapshots(t) == {d \in (GridDays \union {t}) \cap Weekdays : d <= t}

Before(days, d) == {e \in days : e < d}

(***************************************************************************)
(* _diff: a symbol is a member from the first snapshot that has it to the  *)
(* last, or for good; the first snapshot of all makes no event.            *)
(***************************************************************************)
Far == 2099
In(s, d) == d \in joined[s]
Joins(s, days) == {d \in days : In(s, d) /\ (Before(days, d) = {} \/ ~ In(s, Max(Before(days, d))))}
Leaves(s, days) == {d \in days : ~ In(s, d) /\ Before(days, d) # {} /\ In(s, Max(Before(days, d)))}
MemberTo(s, d, days) ==
  LET out == {e \in Leaves(s, days) : e > d}
  IN  IF out = {} THEN Far ELSE Max(Before(days, Min(out)))
Intervals(days) == UNION {{<<s, d, MemberTo(s, d, days)>> : d \in Joins(s, days)} : s \in Symbols}
Events(days) ==
  UNION {{<<d, s, "add">> : d \in {x \in Joins(s, days) : Before(days, x) # {}}}
         \union {<<d, s, "drop">> : d \in Leaves(s, days)} : s \in Symbols}

\* store_kr_membership: an interval replaces one of the same symbol and start.
MemberRun(t, empty) ==
  LET snaps   == Snapshots(t) \ empty
      derived == Intervals(snaps)
  IN  /\ t \in RunDays /\ snaps # {}
      /\ membership' = derived \union
           {m \in membership : \A i \in derived : <<i[1], i[2]>> # <<m[1], m[2]>>}
      /\ changes' = changes \union Events(snaps)
      /\ blanked' = (blanked \/ empty # {})
      /\ UNCHANGED joined

-----------------------------------------------------------------------------
FinraStep(t) ==
  /\ source = "finra"
  /\ \E n \in Stops : \E refusals \in SUBSET Published(t, n) :
       Cardinality(refused \union refusals) <= MaxRefused /\ FinraRun(t, n, refusals)
  /\ UNCHANGED <<krxVars, zipVars, dartVars, lookupVars, memberVars>>
KrxStep(t) ==
  /\ source = "krx"
  /\ \/ \E failed \in SUBSET (1..t) : BulkLoad(t, failed)
     \/ \E failed \in SUBSET Symbols : KrxRun(t, failed)
  /\ UNCHANGED <<finraVars, zipVars, dartVars, lookupVars, memberVars>>
ZipStep(t) ==
  /\ \E upto \in 0..QuarterOf(t), tear \in BOOLEAN, none \in SUBSET Asked(t) :
       \/ source = "filings" /\ ZipRun(t, upto, tear, none)
       \/ source = "holdings" /\ \E boot \in Asked(t) : HoldingsRun(t, boot, upto, tear, none)
  /\ UNCHANGED <<finraVars, krxVars, dartVars, lookupVars, memberVars>>
DartStep(t) ==
  /\ source = "dart"
  /\ \E start \in {0, YearOf(QuarterOf(t))}, answered \in SUBSET (1..QuarterOf(t) - 1) :
       DartRun(t, start, answered)
  /\ UNCHANGED <<finraVars, krxVars, zipVars, lookupVars, memberVars>>
LookUpStep ==
  /\ source = "lookup" /\ \E answered \in SUBSET Symbols : LookUp(answered)
  /\ UNCHANGED <<finraVars, krxVars, zipVars, dartVars, memberVars>>
MemberStep(t) ==
  /\ source = "members" /\ \E empty \in SUBSET Snapshots(t) : MemberRun(t, empty)
  /\ UNCHANGED <<finraVars, krxVars, zipVars, dartVars, lookupVars>>

(***************************************************************************)
(* Maintenance comes to a collector on a day t after its last run.         *)
(***************************************************************************)
CollectorStep ==
  \E t \in now + 1..LastRun[source] :
    /\ now' = t /\ UNCHANGED source
    /\ FinraStep(t) \/ KrxStep(t) \/ ZipStep(t) \/ DartStep(t) \/ LookUpStep \/ MemberStep(t)

-----------------------------------------------------------------------------
(***************************************************************************)
(* FINRA's window outlasts one month that failed: if never two runs in a   *)
(* row were cut short, of all that was published by the last whole run a   *)
(* file is missing only if it was refused, and so at every run that could  *)
(* ask for it (finra_short.collect's days, maintenance on first            *)
(* Saturdays).                                                             *)
(***************************************************************************)
OneMissHeals ==
  misses <= 1 =>
    \A d \in 1..whole : Settles(d) /\ d + ShortLag <= whole => d \in short \union refused

(***************************************************************************)
(* A day of a KRX table is missing only for a symbol that some run passed  *)
(* over, or where the first load passed over the day: the start taken from *)
(* the tables skips none (krx._auto_start).                                *)
(***************************************************************************)
KrxGapsAreFailures ==
  source = "krx" =>
    \A b \in Tables : \A s \in Symbols \ lost : \A d \in 1..now - Lag[b] :
      d \in krx[b][s] \/ d \in dropped

(***************************************************************************)
(* Of the quarters a run got through none is missing but for an answer: a  *)
(* zip that an earlier run left half written on the volume keeps none out, *)
(* a 403, or a second zip that does not open, may (insider._fetch_zip).    *)
(***************************************************************************)
TornZipHeals ==
  \A t \in ended : \A q \in 1..QuarterOf(t) - 1 :
    YearOf(q) = YearOf(QuarterOf(t)) => q \in filings \union skipped

(***************************************************************************)
(* Once a run was answered in full, its reports are stored, the fourth     *)
(* quarter with them, however little of them earlier runs were given       *)
(* (kr_fundamentals; docker-compose.yml leaves .dart_cache cold).          *)
(***************************************************************************)
ColdCacheHeals == corp = "known" => complete \subseteq reports

\* A published period is missing only where failures explain it.
GapsHaveACause == OneMissHeals /\ KrxGapsAreFailures /\ TornZipHeals /\ ColdCacheHeals

(***************************************************************************)
(* A membership without an end is one of the last snapshot: runs derive    *)
(* all of them again, and, if the source never answered for a day of       *)
(* trading with an empty list, leave nothing of an earlier one behind      *)
(* (kr_index_membership.store_kr_membership, maintenance on Saturdays).    *)
(***************************************************************************)
NoGhostMember ==
  ~ blanked => \A m \in membership : m[3] = Far => In(m[1], Max({d \in GridDays : d <= now}))

(***************************************************************************)
(* The header of krx.py: once a month leaves no gap.                       *)
(***************************************************************************)
KrxHasNoHole ==
  \A b \in Tables : \A s \in Symbols : \A d, e \in krx[b][s] :
    (d..e) \ dropped \subseteq krx[b][s]

(***************************************************************************)
(* The header of maintenance_once.py: published filings are collected by   *)
(* running the collectors again.  (All runs so far have come through.)     *)
(***************************************************************************)
EveryReportCollected ==
  skipped = {} /\ (\A t \in ended : 1..t \subseteq ended) =>
    \A t \in ended : \A q \in 1..QuarterOf(t) - 1 : q \in filings

(***************************************************************************)
(* common/cache.py: what the reference cache keeps never changes, and so   *)
(* a run whose requests are all answered knows every code.                 *)
(***************************************************************************)
AllAnswered == cusip' = Symbols /\ source = "lookup" => sic' = Symbols
CodesAreFound == [][AllAnswered]_collectorVars
=============================================================================
