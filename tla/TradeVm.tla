------------------------------ MODULE TradeVm ------------------------------
(***************************************************************************)
(* What the trading VM does besides trading stocks: schema migrations at   *)
(* every boot (common/migrations.py, scripts/init_db.py), the jobs that    *)
(* keep candles (CandleJobs), the daily coin run (TradeOnce), monthly      *)
(* maintenance (jobs/maintenance_once.py) with its collectors (Collectors) *)
(* and its check of freshness (jobs/verify_freshness.py).                  *)
(*                                                                         *)
(* Jobs of one boot follow each other and share tables only as said here,  *)
(* so a behaviour is about one flow.                                       *)
(***************************************************************************)
EXTENDS TradeOnce, Collectors

CONSTANTS
  Postgres, Clickhouse,  \* statements of a migration: version -> number
  Repo,                  \* bound: versions in the repository
  Steps,                 \* steps of maintenance but the last, in order
  Feeds,                 \* step -> the tables it feeds
  Critical,              \* critical table -> months it may be old
  Outcomes,              \* what becomes of a step
  MaxMonths              \* bound

ASSUME VmAssumption ==
  /\ Repo \in Nat \ {0} /\ Postgres \in [1..Repo -> Nat] /\ Clickhouse \in [1..Repo -> Nat]
  /\ DOMAIN Feeds = ToSet(Steps)
  /\ Critical \in [DOMAIN Critical -> Nat]
  /\ Outcomes \subseteq {"fed", "empty", "exit", "error"} /\ MaxMonths \in Nat

VARIABLES
  boot,      \* db-init: "off", "postgres", "clickhouse"
  repo,      \* newest version pulled
  pg, ch,    \* [ran |-> statements, rows |-> schema_migrations]
  tx,        \* pg as the open transaction sees it
  at,        \* db-init is about to apply this version,
  stmt,      \*   and this statement of it
  month, todo,  \* maintenance: steps still to run, "none" between runs
  failures,  \* steps that failed
  fedIn,     \* step -> month in which it last stored anything
  report     \* history: Told of the last maintenance

schemaVars == <<boot, repo, pg, ch, tx, at, stmt>>
upkeepVars == <<month, todo, failures, fedIn, report>>
vmVars == <<candleVars, tradeVars, collectorVars, schemaVars, upkeepVars>>

NoSchema == [ran |-> {}, rows |-> {}]
Resting == << "none" >>

Init ==
  /\ InitCandles /\ InitTrade /\ InitCollectors
  /\ (flow = "collect") = (source # "none")
  /\ boot = "off" /\ repo = 1
  /\ pg = NoSchema /\ ch = NoSchema /\ tx = NoSchema
  /\ at = 0 /\ stmt = 0
  /\ month = 1 /\ todo = Resting /\ failures = 0
  /\ fedIn = [f \in ToSet(Steps) |-> 1]
  /\ report = NothingTold

-----------------------------------------------------------------------------
(***************************************************************************)
(* db-init of one boot.  Versions not recorded are applied in order.       *)
(* psycopg opens a transaction with the first statement, so the one block  *)
(* per file is a savepoint in it: all of Postgres commits at the end, with *)
(* the repair.                                                             *)
(***************************************************************************)
Pending(schema) == {v \in 1..repo : v \notin schema.rows}
Statements(files, v) == {<<v, i>> : i \in 1..files[v]}

Pull ==
  /\ boot = "off"
  /\ repo' \in {r \in 1..Repo : r >= repo}
  /\ boot' = "postgres"
  /\ tx' = pg
  /\ UNCHANGED <<pg, ch, at, stmt>>

ApplyPostgres ==
  /\ boot = "postgres" /\ Pending(tx) # {}
  /\ LET v == Min(Pending(tx))
     IN  tx' = [ran |-> tx.ran \union Statements(Postgres, v), rows |-> tx.rows \union {v}]
  /\ UNCHANGED <<boot, repo, pg, ch, at, stmt>>

\* After the repair; ClickHouse comes next.
CommitPostgres ==
  /\ boot = "postgres" /\ Pending(tx) = {}
  /\ pg' = tx
  /\ boot' = "clickhouse" /\ at' = 0 /\ stmt' = 0
  /\ UNCHANGED <<repo, ch, tx>>

\* A statement or the repair fails, or the VM stops: the boot goes on.
FailInit ==
  /\ boot # "off" /\ boot' = "off"
  /\ at' = 0 /\ stmt' = 0 /\ tx' = pg
  /\ UNCHANGED <<repo, pg, ch>>

\* (A definition named ...Bug is the one that follows it with a plausible
\* mistake; nothing uses it.)  The row is written before the statements.
ApplyClickhouseBug ==
  /\ boot = "clickhouse" /\ UNCHANGED <<repo, pg, tx>>
  /\ IF at = 0
     THEN IF Pending(ch) = {}
          THEN boot' = "off" /\ UNCHANGED <<ch, at, stmt>>
          ELSE at' = Min(Pending(ch)) /\ stmt' = 1 /\ UNCHANGED boot
               /\ ch' = [ch EXCEPT !.rows = @ \union {Min(Pending(ch))}]
     ELSE /\ ch' = IF stmt <= Clickhouse[at] THEN [ch EXCEPT !.ran = @ \union {<<at, stmt>>}] ELSE ch
          /\ IF stmt <= Clickhouse[at] THEN stmt' = stmt + 1 /\ UNCHANGED at
                                       ELSE stmt' = 0 /\ at' = 0
          /\ UNCHANGED boot

(***************************************************************************)
(* ClickHouse has no transactions: the statements of a version one by one, *)
(* each of them stays, and the row after the last.                         *)
(***************************************************************************)
ApplyClickhouse ==
  /\ boot = "clickhouse" /\ UNCHANGED <<repo, pg, tx>>
  /\ IF at = 0
     THEN IF Pending(ch) = {}
          THEN boot' = "off" /\ UNCHANGED <<ch, at, stmt>>
          ELSE at' = Min(Pending(ch)) /\ stmt' = 1 /\ UNCHANGED <<boot, ch>>
     ELSE /\ ch' = IF stmt <= Clickhouse[at] THEN [ch EXCEPT !.ran = @ \union {<<at, stmt>>}]
                                             ELSE [ch EXCEPT !.rows = @ \union {at}]
          /\ IF stmt <= Clickhouse[at] THEN stmt' = stmt + 1 /\ UNCHANGED at
                                       ELSE stmt' = 0 /\ at' = 0
          /\ UNCHANGED boot

SchemaStep ==
  /\ flow = "schema"
  /\ Pull \/ ApplyPostgres \/ CommitPostgres \/ FailInit \/ ApplyClickhouse
  /\ UNCHANGED <<candleVars, tradeVars, collectorVars, upkeepVars>>

-----------------------------------------------------------------------------
(***************************************************************************)
(* Maintenance.  A step stores something, finds nothing to store, returns  *)
(* an exit code or raises; the next one runs in any case.                  *)
(***************************************************************************)
StartUpkeep ==
  /\ todo = Resting /\ month < MaxMonths
  /\ month' = month + 1
  /\ todo' = Steps /\ failures' = 0
  /\ UNCHANGED <<fedIn, report>>

RunStep(outcome) ==
  /\ todo \notin {Resting, << >>}
  /\ todo' = Tail(todo)
  /\ fedIn' = IF outcome = "fed" THEN [fedIn EXCEPT ![Head(todo)] = month] ELSE fedIn
  /\ failures' = failures + (IF outcome \in {"exit", "error"} THEN 1 ELSE 0)
  /\ UNCHANGED <<month, report>>

(***************************************************************************)
(* The last step, verify_freshness, looks for the newest row of a table,   *)
(* whichever step stored it; a critical table too old makes it fail.       *)
(***************************************************************************)
Newest(table) == Max({fedIn[f] : f \in {x \in DOMAIN Feeds : table \in Feeds[x]}})
Breached == {t \in DOMAIN Critical : month - Newest(t) > Critical[t]}

\* The exit code says that the message was sent.
ExitBug(failed, sent) == IF failed THEN 70 ELSE 0
Exit(failed, sent) == IF failed THEN (IF sent THEN 70 ELSE 1) ELSE 0

EndUpkeep ==
  /\ todo = << >> /\ todo' = Resting
  /\ LET failed == failures > 0 \/ Breached # {}
     IN  \E sent, answers \in Sent : report' = Told(failed, Exit(failed, sent), sent, answers)
  /\ UNCHANGED <<month, failures, fedIn>>

\* The watchdog of the VM.
KillUpkeep ==
  /\ todo # Resting /\ todo' = Resting
  /\ UNCHANGED <<month, failures, fedIn, report>>

UpkeepStep ==
  /\ flow = "upkeep"
  /\ StartUpkeep \/ EndUpkeep \/ KillUpkeep \/ \E outcome \in Outcomes : RunStep(outcome)
  /\ UNCHANGED <<candleVars, tradeVars, collectorVars, schemaVars>>

-----------------------------------------------------------------------------
Next ==
  \/ /\ flow \in {"coin", "fill", "cache", "stock"} /\ NextDay
     /\ UNCHANGED <<tradeVars, collectorVars, schemaVars, upkeepVars>>
  \/ /\ FillStep \/ CacheStep \/ StockStep
     /\ UNCHANGED <<tradeVars, collectorVars, schemaVars, upkeepVars>>
  \/ /\ TradeStep
     /\ UNCHANGED <<collectorVars, schemaVars, upkeepVars>>
  \/ SchemaStep
  \/ UpkeepStep
  \/ /\ flow = "collect" /\ CollectorStep
     /\ UNCHANGED <<candleVars, tradeVars, schemaVars, upkeepVars>>

Spec == Init /\ [][Next]_vmVars

-----------------------------------------------------------------------------
(***************************************************************************)
(* What schema_migrations records has been applied, in both databases and  *)
(* however many boots failed half way (migrations.apply_clickhouse writes  *)
(* its row last, apply_postgres commits rows with statements).             *)
(***************************************************************************)
RecordedIsApplied ==
  /\ \A v \in pg.rows : Statements(Postgres, v) \subseteq pg.ran
  /\ \A v \in ch.rows : Statements(Clickhouse, v) \subseteq ch.ran

(***************************************************************************)
(* The header of migrations.py: each file is a transaction of its own, and *)
(* a failing statement rolls back its own file.                            *)
(***************************************************************************)
FilesStay == boot = "postgres" /\ boot' = "off" => tx.rows \subseteq pg'.rows
FileByFile == [][FilesStay]_vmVars

(***************************************************************************)
(* A maintenance that ended with a failed step, or with a critical table   *)
(* that has not grown for too long, was heard of, or both its own message  *)
(* and the shell's got lost (maintenance_once.main: exit codes 70 and 1,   *)
(* the shell's notify_fail).                                               *)
(***************************************************************************)
UpkeepIsHeard == report.failed => report.heard \/ report.lost

(***************************************************************************)
(* The header of verify_freshness.py: a collector that fails silently is   *)
(* found by its table.                                                     *)
(***************************************************************************)
SilentFeedIsFound ==
  todo = << >> /\ failures = 0 /\ Breached = {} =>
    \A f \in DOMAIN Feeds : \A t \in Feeds[f] \cap DOMAIN Critical :
      month - fedIn[f] <= Critical[t]
=============================================================================
