------------------------------ MODULE KisChase ------------------------------
(***************************************************************************)
(* place_and_chase (common/broker/kis_chase.py): place an order at KIS,    *)
(* poll the balance for its fills, cancel what is left and place that      *)
(* again, at most MaxAttempts times in the US and once in Korea.           *)
(*                                                                         *)
(* The broker executes what is open at any moment, and any call may fail   *)
(* with or without having taken effect.  What a balance query returns      *)
(* includes every execution before it.                                     *)
(***************************************************************************)
EXTENDS Integers

CONSTANTS
  Markets,          \* subset of {"KR", "US"}
  Sides,            \* subset of {"BUY", "SELL"}
  Quantities,       \* quantities that are asked for
  Holdings,         \* holdings of the symbol before the chase
  MaxAttempts,      \* max_attempts
  MaxPolls,         \* polls that fit in confirm_window
  ThrottleRetries,  \* len(_RETRY_WAITS)
  MaxOutside        \* bound: trades of the symbol by others of the account

ASSUME RequestsAssumption ==
  /\ Markets \subseteq {"KR", "US"}
  /\ Sides \subseteq {"BUY", "SELL"}
  /\ Quantities \subseteq Nat \ {0}
  /\ Holdings \subseteq Nat
ASSUME LimitsAssumption ==
  /\ MaxAttempts \in Nat \ {0}
  /\ MaxPolls \in Nat
  /\ ThrottleRetries \in Nat
  /\ MaxOutside \in Nat

VARIABLES
  market, side, qty,      \* the request
  book,                   \* broker: open remainder of each attempt's order
  executed,               \* broker: shares executed for this chase
  held,                   \* broker: holding of the symbol
  outside,                \* trades by others so far
  pc,                     \* where the chase is
  n,                      \* attempt, from 1
  base,                   \* holding before the first order
  remaining, seen,        \* remaining; filled_total, the last fill observed
  polls, tries,           \* polls of this window, posts of this order
  firstFailed             \* "error" in attempts[0]

requestVars == <<market, side, qty>>
brokerVars  == <<book, executed, held, outside>>
chaseVars == <<requestVars, brokerVars, pc, n, base, remaining, seen, polls, tries,
              firstFailed>>

Attempts == 1..MaxAttempts
AttemptLimit == IF market = "US" THEN MaxAttempts ELSE 1

Greater(a, b) == IF a >= b THEN a ELSE b
Lesser(a, b) == IF a <= b THEN a ELSE b

ChaseInit ==
  /\ market \in Markets /\ side \in Sides /\ qty \in Quantities
  /\ held \in Holdings
  /\ book = [m \in Attempts |-> 0]
  /\ executed = 0
  /\ outside = 0
  /\ pc = "setup"
  /\ n = 1
  /\ base = 0
  /\ remaining = qty
  /\ seen = 0
  /\ polls = 0
  /\ tries = 0
  /\ firstFailed = FALSE

-----------------------------------------------------------------------------
(***************************************************************************)
(* The broker.  A sale executes only what is held.                         *)
(***************************************************************************)
Execute(m) ==
  /\ \E q \in 1..(IF side = "BUY" THEN book[m] ELSE Lesser(book[m], held)) :
       /\ book' = [book EXCEPT ![m] = @ - q]
       /\ executed' = executed + q
       /\ held' = IF side = "BUY" THEN held + q ELSE held - q
  /\ UNCHANGED <<requestVars, outside, pc, n, base, remaining, seen, polls,
                 tries, firstFailed>>

\* An order of another actor of the account in the same symbol: a manual order
\* while the weekly runner chases, or the other way round.
OutsideTrade ==
  /\ outside < MaxOutside
  /\ outside' = outside + 1
  /\ held' \in {held + 1} \union (IF held > 0 THEN {held - 1} ELSE {})
  /\ UNCHANGED <<requestVars, book, executed, pc, n, base, remaining, seen,
                 polls, tries, firstFailed>>

-----------------------------------------------------------------------------
(***************************************************************************)
(* Before the first order: the exchange and the baseline are looked up.  A *)
(* failure is raised to the caller.  (A definition named ...Bug is the one *)
(* that follows it with a plausible mistake; nothing uses it.)             *)
(***************************************************************************)
\* Takes a balance it could not read for an empty one.
SetupBug ==
  /\ pc = "setup"
  /\ base' \in {held, 0}
  /\ pc' = "send"
  /\ UNCHANGED <<requestVars, brokerVars, n, remaining, seen, polls, tries,
                 firstFailed>>

Setup ==
  /\ pc = "setup"
  /\ base' = held
  /\ pc' = "send"
  /\ UNCHANGED <<requestVars, brokerVars, n, remaining, seen, polls, tries,
                 firstFailed>>

SetupFails ==
  /\ pc = "setup"
  /\ pc' = "raised"
  /\ UNCHANGED <<requestVars, brokerVars, n, base, remaining, seen, polls,
                 tries, firstFailed>>

-----------------------------------------------------------------------------
(***************************************************************************)
(* post_order: only a refusal of the gateway for the call rate is repeated *)
(* (the order has not been accepted).  Everything else that is not success *)
(* is raised, be the order accepted or not, and the chase ends.            *)
(***************************************************************************)

Throttled ==
  /\ pc \in {"send", "cancel"}
  /\ tries < ThrottleRetries
  /\ tries' = tries + 1
  /\ UNCHANGED <<requestVars, brokerVars, pc, n, base, remaining, seen, polls,
                 firstFailed>>

GiveUp ==
  /\ pc' = "over"
  /\ firstFailed' = (firstFailed \/ n = 1)
  /\ UNCHANGED <<requestVars, executed, held, outside, n, base, remaining,
                 seen, polls, tries>>

PlaceRefused ==  \* also: no price, hashkey failed, throttled too often
  /\ pc = "send"
  /\ GiveUp
  /\ UNCHANGED book

\* Takes an answer that was lost for a refusal and posts the order again.
PlaceLostBug ==
  /\ pc = "send"
  /\ tries < ThrottleRetries
  /\ book' = [book EXCEPT ![n] = @ + remaining]
  /\ tries' = tries + 1
  /\ UNCHANGED <<requestVars, executed, held, outside, pc, n, base, remaining,
                 seen, polls, firstFailed>>

PlaceLost ==
  /\ pc = "send"
  /\ book' = [book EXCEPT ![n] = @ + remaining]
  /\ GiveUp

Place ==
  /\ pc = "send"
  /\ book' = [book EXCEPT ![n] = @ + remaining]
  /\ pc' = "poll"
  /\ seen' = 0
  /\ polls' = 0
  /\ tries' = 0
  /\ UNCHANGED <<requestVars, executed, held, outside, n, base, remaining,
                 firstFailed>>

-----------------------------------------------------------------------------
(***************************************************************************)
(* _filled_since: the change of the holding, never negative.               *)
(***************************************************************************)
FilledSince == Greater(0, IF side = "BUY" THEN held - base ELSE base - held)

Polling == pc = "poll" /\ polls < MaxPolls /\ seen < qty

Poll ==
  /\ Polling
  /\ seen' = FilledSince
  /\ polls' = polls + 1
  /\ UNCHANGED <<requestVars, brokerVars, pc, n, base, remaining, tries,
                 firstFailed>>

\* The query fails: the last fill observed stands.
PollFails ==
  /\ Polling
  /\ polls' = polls + 1
  /\ UNCHANGED <<requestVars, brokerVars, pc, n, base, remaining, seen, tries,
                 firstFailed>>

PollOver ==
  /\ pc = "poll" /\ ~ Polling
  /\ remaining' = qty - seen
  /\ pc' = IF remaining' <= 0 \/ market = "KR" THEN "over" ELSE "cancel"
  /\ UNCHANGED <<requestVars, brokerVars, n, base, seen, polls, tries,
                 firstFailed>>

-----------------------------------------------------------------------------
(***************************************************************************)
(* cancel_overseas_order takes back `remaining` shares of this attempt's   *)
(* order, or is refused, or its answer is lost.                            *)
(***************************************************************************)
Withdrawn == [book EXCEPT ![n] = Greater(0, @ - remaining)]

Cancel ==
  /\ pc = "cancel"
  /\ book' = Withdrawn
  /\ pc' = "recheck"
  /\ tries' = 0
  /\ UNCHANGED <<requestVars, executed, held, outside, n, base, remaining,
                 seen, polls, firstFailed>>

CancelFails ==
  /\ pc = "cancel"
  /\ book' \in {book, Withdrawn}
  /\ pc' = "lastlook"
  /\ UNCHANGED <<requestVars, executed, held, outside, n, base, remaining,
                 seen, polls, tries, firstFailed>>

(***************************************************************************)
(* After a cancel that succeeded the fills are read once more, and the     *)
(* rest is placed again.  Without knowing both, nothing is.                *)
(***************************************************************************)

\* Chases until everything is filled.
RecheckLoopBug ==
  /\ pc = "recheck"
  /\ remaining' = qty - FilledSince
  /\ pc' = IF remaining' > 0 THEN "send" ELSE "over"
  /\ UNCHANGED <<requestVars, brokerVars, n, base, seen, polls, tries,
                 firstFailed>>

Recheck ==
  /\ pc = "recheck"
  /\ remaining' = qty - FilledSince
  /\ IF remaining' > 0 /\ n < AttemptLimit THEN pc' = "send" /\ n' = n + 1
                                           ELSE pc' = "over" /\ n' = n
  /\ UNCHANGED <<requestVars, brokerVars, base, seen, polls, tries,
                 firstFailed>>

LastLook ==
  /\ pc = "lastlook"
  /\ remaining' = qty - FilledSince
  /\ pc' = "over"
  /\ UNCHANGED <<requestVars, brokerVars, n, base, seen, polls, tries,
                 firstFailed>>

\* Goes on with the fills observed before the cancel.
LookFailsBug ==
  /\ pc \in {"recheck", "lastlook"}
  /\ IF pc = "recheck" /\ n < AttemptLimit THEN pc' = "send" /\ n' = n + 1
                                           ELSE pc' = "over" /\ n' = n
  /\ UNCHANGED <<requestVars, brokerVars, base, remaining, seen, polls, tries,
                 firstFailed>>

LookFails ==
  /\ pc \in {"recheck", "lastlook"}
  /\ pc' = "over"
  /\ UNCHANGED <<requestVars, brokerVars, n, base, remaining, seen, polls,
                 tries, firstFailed>>

-----------------------------------------------------------------------------
(***************************************************************************)
(* The result, returned at the end.                                        *)
(***************************************************************************)
Reported == qty - remaining

Result ==
  IF remaining <= 0 THEN "FILLED"
  ELSE IF Reported > 0 THEN "PARTIAL"
  ELSE IF firstFailed THEN "REJECTED" ELSE "UNFILLED"

Return ==
  /\ pc = "over"
  /\ pc' = "returned"
  /\ UNCHANGED <<requestVars, brokerVars, n, base, remaining, seen, polls,
                 tries, firstFailed>>

Ended == pc \in {"returned", "raised"}

Chase ==
  \/ Setup \/ SetupFails
  \/ Throttled \/ PlaceRefused \/ PlaceLost \/ Place
  \/ Poll \/ PollFails \/ PollOver
  \/ Cancel \/ CancelFails \/ Recheck \/ LastLook \/ LookFails
  \/ Return

ChaseNext ==
  \/ Chase
  \/ \E m \in Attempts : Execute(m)
  \/ OutsideTrade

ChaseSpec == ChaseInit /\ [][ChaseNext]_chaseVars

\* The chase is a sequential program whose calls all have time limits.
FairChaseSpec == ChaseSpec /\ WF_chaseVars(Chase)

-----------------------------------------------------------------------------
(* The variables stay in their types. *)
ChaseTypeOK ==
  /\ market \in Markets /\ side \in Sides /\ qty \in Quantities
  /\ book \in [Attempts -> Nat]
  /\ executed \in Nat /\ held \in Nat
  /\ outside \in 0..MaxOutside
  /\ pc \in {"setup", "send", "poll", "cancel", "recheck", "lastlook", "over",
             "returned", "raised"}
  /\ n \in Attempts
  /\ base \in Nat
  /\ remaining \in Int /\ seen \in Nat
  /\ polls \in 0..MaxPolls /\ tries \in 0..ThrottleRetries
  /\ firstFailed \in BOOLEAN

(***************************************************************************)
(* Unless other orders of the account trade the symbol meanwhile, the      *)
(* chase never has more than the requested quantity executed or open at    *)
(* the broker: at most one of its orders is open, and what that one may    *)
(* still execute fits.  This is the rule the module is about               *)
(* (kis_chase.py:7, no order while the state is unknown).                  *)
(***************************************************************************)
Alone == outside = 0

Fits ==
  /\ \A m \in Attempts : executed + book[m] <= qty
  /\ \A l, m \in Attempts : book[l] > 0 /\ book[m] > 0 => l = m

NeverOverExecutes == Alone => Fits

(***************************************************************************)
(* A fill is reported only if it happened: last fills observed, lost       *)
(* answers and failed queries may hide executions, and never invent them.  *)
(***************************************************************************)
ReportIsTrue == Alone /\ pc = "returned" => Reported \in 0..executed

(***************************************************************************)
(* An order reaches the broker only while nothing of an earlier attempt is *)
(* open, and for exactly what has not been executed: the fills between the *)
(* last poll and the cancel are counted (kis_chase.py:115).                *)
(***************************************************************************)
ReordersTheRest ==
  [][\A m \in Attempts :
       Alone /\ book'[m] > book[m] => /\ \A l \in Attempts : book[l] = 0
                                      /\ book'[m] = qty - executed]_chaseVars

(***************************************************************************)
(* The chase ends: windows, attempts and retries are all limited, whatever *)
(* the broker answers.                                                     *)
(***************************************************************************)
ChaseEnds == <>Ended

(* The chase implements what its callers rely on. *)
Contract ==
  INSTANCE ChaseContract WITH
    Wants <- Quantities,
    want <- qty,
    open <- book[n],
    report <- IF pc = "returned" THEN Reported ELSE -1,
    others <- outside

ContractSpec == Contract!Spec

(***************************************************************************)
(* kis_chase.py:137 on REJECTED: rejected from the first order on, nothing *)
(* was accepted.  Not so when the answer to the first order is lost.       *)
(***************************************************************************)
RejectedMeansNothingAccepted ==
  pc = "returned" /\ Result = "REJECTED" =>
    executed = 0 /\ \A m \in Attempts : book[m] = 0

-----------------------------------------------------------------------------
(* An order is sent only for a positive quantity, whoever else trades. *)
SendsSomething == pc \in {"setup", "send"} => remaining > 0

(***************************************************************************)
(* Inductive for a chase that nobody else's trades disturb: fills are      *)
(* read correctly, and what is left is known exactly before an order.      *)
(***************************************************************************)
Untouched ==
  pc \in {"setup", "raised"} =>
    /\ executed = 0
    /\ \A m \in Attempts : book[m] = 0
    /\ n = 1 /\ remaining = qty

Baseline ==
  pc \notin {"setup", "raised"} =>
    held = IF side = "BUY" THEN base + executed ELSE base - executed

Knowledge ==
  /\ qty - remaining \in 0..executed
  /\ seen <= executed
  /\ pc \in {"send", "recheck"} => \A m \in Attempts : book[m] = 0
  /\ pc = "send" => remaining = qty - executed

OnlyCurrentOpen == \A m \in Attempts : book[m] > 0 => m = n

Chased == Untouched /\ Baseline /\ SendsSomething /\ Knowledge /\ OnlyCurrentOpen
          /\ Fits
=============================================================================
