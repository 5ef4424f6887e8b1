---------------------------- MODULE ManualOrders ----------------------------
(***************************************************************************)
(* Manual stock orders: rows of manual_stock_orders that the API creates   *)
(* and cancels (api/routes/stock_orders.py), and the executor task of each *)
(* API process that claims due rows, has them chased at the broker and     *)
(* writes the outcome (api/stock_order_executor.py).                       *)
(*                                                                         *)
(* The chase is place_and_chase (common/broker/kis_chase.py) as KisChase   *)
(* has it, without the number of its polls and of its posts: it measures   *)
(* its fills by how far the account's holding of the symbol has moved, so  *)
(* every order of the symbol that executes meanwhile enters its count.     *)
(* In Korea a chase is one attempt without a cancel: what it does is what  *)
(* an American one does whose cancel fails without an effect.              *)
(*                                                                         *)
(* A chase lasts a few minutes: a row does not grow older than _ORPHAN_MIN *)
(* while its chase runs.  A sale always finds the shares it sells.         *)
(***************************************************************************)
EXTENDS Integers

CONSTANTS
  Orders, NoOrder,
  Executors,       \* API processes
  Want,            \* quantity of an order, amounts resolved
  SymbolOf,        \* symbol of an order
  SidesOf,         \* sides it may be asked for, of "BUY" and "SELL"
  ChaseLimit,      \* max_attempts of a chase
  MaxStops,        \* bound: ends of API processes
  MaxDbFaults,     \* bound: database failures in the executor's loop
  MaxStartFaults   \* bound: database failures when the executor starts

ASSUME OrdersAssumption == NoOrder \notin Orders
ASSUME WantAssumption == Want \in [Orders -> Nat \ {0}]
ASSUME SidesAssumption == SidesOf \in [Orders -> SUBSET {"BUY", "SELL"}]
ASSUME ChaseLimitAssumption == ChaseLimit \in Nat \ {0}
ASSUME BoundsAssumption ==
  MaxStops \in Nat /\ MaxDbFaults \in Nat /\ MaxStartFaults \in Nat

VARIABLES
  row,               \* status of the row, "ABSENT" before the request
  sideOf,            \* its side
  due,               \* scheduled_at <= now()
  old,               \* updated_at is _ORPHAN_MIN minutes ago
  partial,           \* detail.partial
  task,              \* executor: "down", "up", or "dead" in a live process
  job, phase,        \* executor: the order it works on, and where
  round,             \* executor: attempt of the chase, from 1
  filled,            \* executor: qty - remaining, or the fills seen by the polls
  moved,             \* the holding less its baseline, in the order's direction
  open, traded,      \* broker: open of each attempt's order, and executed
  disturbed,         \* history: another order of the symbol was executed
                     \* while this one was chased
  stops, dbFaults, startFaults

rows == <<row, sideOf, due, old, partial>>
work == <<job, phase, round, filled>>
broker == <<moved, open, traded, disturbed>>
faults == <<stops, dbFaults, startFaults>>
vars == <<rows, task, work, broker, faults>>

Settled == {"FILLED", "FAILED", "CANCELED"}
Rounds == 1..ChaseLimit

Init ==
  /\ row = [o \in Orders |-> "ABSENT"]
  /\ sideOf = [o \in Orders |-> "BUY"]
  /\ due = [o \in Orders |-> FALSE]
  /\ old = [o \in Orders |-> FALSE]
  /\ partial = [o \in Orders |-> FALSE]
  /\ task = [e \in Executors |-> "down"]
  /\ job = [e \in Executors |-> NoOrder]
  /\ phase = [e \in Executors |-> "idle"]
  /\ round = [e \in Executors |-> 1]
  /\ filled = [e \in Executors |-> 0]
  /\ moved = [e \in Executors |-> 0]
  /\ open = [o \in Orders |-> [m \in Rounds |-> 0]]
  /\ traded = [o \in Orders |-> 0]
  /\ disturbed = [o \in Orders |-> FALSE]
  /\ stops = 0 /\ dbFaults = 0 /\ startFaults = 0

-----------------------------------------------------------------------------
(***************************************************************************)
(* Requests and time.                                                      *)
(***************************************************************************)
Create(o, s, now) ==
  /\ row[o] = "ABSENT"
  /\ row' = [row EXCEPT ![o] = "PENDING"]
  /\ sideOf' = [sideOf EXCEPT ![o] = s]
  /\ due' = [due EXCEPT ![o] = now]
  /\ UNCHANGED <<old, partial, task, work, broker, faults>>

BecomesDue(o) ==
  /\ row[o] = "PENDING" /\ ~ due[o]
  /\ due' = [due EXCEPT ![o] = TRUE]
  /\ UNCHANGED <<row, sideOf, old, partial, task, work, broker, faults>>

\* (A definition named ...Bug is the one that follows it with a plausible
\* mistake; nothing uses it.)  Cancels whatever has not ended.
CancelOrderBug(o) ==
  /\ row[o] \in {"PENDING", "PLACED"}
  /\ row' = [row EXCEPT ![o] = "CANCELED"]
  /\ UNCHANGED <<sideOf, due, old, partial, task, work, broker, faults>>

CancelOrder(o) ==
  /\ row[o] = "PENDING"
  /\ row' = [row EXCEPT ![o] = "CANCELED"]
  /\ UNCHANGED <<sideOf, due, old, partial, task, work, broker, faults>>

GrowsOld(o) ==
  /\ row[o] = "PLACED" /\ ~ old[o]
  /\ \A e \in Executors : job[e] # o
  /\ old' = [old EXCEPT ![o] = TRUE]
  /\ UNCHANGED <<row, sideOf, due, partial, task, work, broker, faults>>

-----------------------------------------------------------------------------
(***************************************************************************)
(* The task starts with its process: once, it fails the rows that stayed   *)
(* PLACED too long.  If the database fails here the task ends, and the     *)
(* process goes on without it: this call is outside the loop's try.        *)
(***************************************************************************)
Orphans == {o \in Orders : row[o] = "PLACED" /\ old[o]}

\* Does not ask how old a PLACED row is.
StartBug(e) ==
  /\ task[e] = "down"
  /\ task' = [task EXCEPT ![e] = "up"]
  /\ row' = [o \in Orders |-> IF row[o] = "PLACED" THEN "FAILED" ELSE row[o]]
  /\ UNCHANGED <<sideOf, due, old, partial, work, broker, faults>>

Start(e) ==
  /\ task[e] = "down"
  /\ task' = [task EXCEPT ![e] = "up"]
  /\ row' = [o \in Orders |-> IF o \in Orphans THEN "FAILED" ELSE row[o]]
  /\ UNCHANGED <<sideOf, due, old, partial, work, broker, faults>>

StartFails(e) ==
  /\ task[e] = "down"
  /\ startFaults < MaxStartFaults
  /\ startFaults' = startFaults + 1
  /\ task' = [task EXCEPT ![e] = "dead"]
  /\ UNCHANGED <<rows, work, broker, stops, dbFaults>>

(***************************************************************************)
(* The process ends, by a shutdown (which waits for nobody) or a kill.     *)
(* What its chase has open stays open.                                     *)
(***************************************************************************)
Idle(e) ==
  /\ job' = [job EXCEPT ![e] = NoOrder]
  /\ phase' = [phase EXCEPT ![e] = "idle"]
  /\ round' = [round EXCEPT ![e] = 1]
  /\ filled' = [filled EXCEPT ![e] = 0]
  /\ moved' = [moved EXCEPT ![e] = 0]

Stop(e) ==
  /\ task[e] # "down"
  /\ stops < MaxStops
  /\ stops' = stops + 1
  /\ task' = [task EXCEPT ![e] = "down"]
  /\ Idle(e)
  /\ UNCHANGED <<rows, open, traded, disturbed, dbFaults, startFaults>>

-----------------------------------------------------------------------------
(***************************************************************************)
(* The loop.  FOR UPDATE SKIP LOCKED makes the claim one atomic step.  Its *)
(* commit may succeed and the answer be lost: the loop logs and goes on.   *)
(***************************************************************************)
\* Takes up again what an earlier process left behind.
ClaimedBug(e, o) ==
  /\ task[e] = "up" /\ phase[e] = "idle"
  /\ row[o] = "PENDING" \/ (row[o] = "PLACED" /\ old[o])
  /\ due[o]
  /\ row' = [row EXCEPT ![o] = "PLACED"]
  /\ old' = [old EXCEPT ![o] = FALSE]

\* Works on one order at a time, whoever holds it.
ClaimedOneBug(e, o) ==
  /\ task[e] = "up" /\ phase[e] = "idle"
  /\ row[o] = "PENDING"
  /\ due[o]
  /\ \A p \in Orders : row[p] # "PLACED"
  /\ row' = [row EXCEPT ![o] = "PLACED"]
  /\ old' = [old EXCEPT ![o] = FALSE]

Claimed(e, o) ==
  /\ task[e] = "up" /\ phase[e] = "idle"
  /\ row[o] = "PENDING"
  /\ due[o]
  /\ row' = [row EXCEPT ![o] = "PLACED"]
  /\ old' = [old EXCEPT ![o] = FALSE]

Claim(e, o) ==
  /\ Claimed(e, o)
  /\ job' = [job EXCEPT ![e] = o]
  /\ phase' = [phase EXCEPT ![e] = "resolve"]
  /\ UNCHANGED <<sideOf, due, partial, task, round, filled, broker, faults>>

ClaimLost(e, o) ==
  /\ Claimed(e, o)
  /\ dbFaults < MaxDbFaults
  /\ dbFaults' = dbFaults + 1
  /\ UNCHANGED <<sideOf, due, partial, task, work, broker, stops, startFaults>>

(***************************************************************************)
(* No price, a quantity below one, or a chase that raises before it sends  *)
(* anything: the row will be FAILED.  Otherwise the baseline is read.      *)
(***************************************************************************)
Steps(e, from, to) == phase[e] = from /\ phase' = [phase EXCEPT ![e] = to]

NotSent(e) ==
  /\ Steps(e, "resolve", "finish")
  /\ UNCHANGED <<rows, task, job, round, filled, broker, faults>>

BeginChase(e) ==
  /\ Steps(e, "resolve", "send")
  /\ UNCHANGED <<rows, task, job, round, filled, broker, faults>>

-----------------------------------------------------------------------------
(***************************************************************************)
(* The chase.  An order that is sent is for what remains; it is refused,   *)
(* or accepted, and the answer may be lost: then the chase ends.           *)
(***************************************************************************)
Remaining(e) == Want[job[e]] - filled[e]

Accepted(e) ==
  open' = [open EXCEPT ![job[e]][round[e]] = @ + Remaining(e)]

ChaseAccept(e) ==
  /\ Steps(e, "send", "poll")
  /\ Accepted(e)
  /\ filled' = [filled EXCEPT ![e] = 0]
  /\ UNCHANGED <<rows, task, job, round, moved, traded, disturbed, faults>>

ChaseGivesUp(e) ==
  /\ Steps(e, "send", "finish")
  /\ open' = open \/ Accepted(e)
  /\ UNCHANGED <<rows, task, job, round, filled, moved, traded, disturbed, faults>>

(***************************************************************************)
(* What it takes for its fills (_filled_since), polled until that is all   *)
(* of it or the window is over.                                            *)
(***************************************************************************)
Measured(e) == IF moved[e] > 0 THEN moved[e] ELSE 0

ChasePoll(e) ==
  /\ phase[e] = "poll"
  /\ Remaining(e) > 0
  /\ filled' = [filled EXCEPT ![e] = Measured(e)]
  /\ UNCHANGED <<rows, task, job, phase, round, broker, faults>>

ChaseFilled(e) ==
  /\ Steps(e, "poll", "finish")
  /\ Remaining(e) <= 0
  /\ UNCHANGED <<rows, task, job, round, filled, broker, faults>>

(***************************************************************************)
(* The cancel takes back what remains of this attempt's order, or is       *)
(* refused, or its answer is lost.                                         *)
(***************************************************************************)
Withdrawal(e) ==
  open' = [open EXCEPT ![job[e]][round[e]] =
                         IF @ > Remaining(e) THEN @ - Remaining(e) ELSE 0]

ChaseCancel(e) ==
  /\ Steps(e, "poll", "recheck")
  /\ Remaining(e) > 0
  /\ Withdrawal(e)
  /\ UNCHANGED <<rows, task, job, round, filled, moved, traded, disturbed, faults>>

ChaseCancelFails(e) ==
  /\ Steps(e, "poll", "lastlook")
  /\ Remaining(e) > 0
  /\ open' = open \/ Withdrawal(e)
  /\ UNCHANGED <<rows, task, job, round, filled, moved, traded, disturbed, faults>>

(***************************************************************************)
(* After a cancel that succeeded the fills are read again, and the rest is *)
(* sent.  Without knowing both nothing is.                                 *)
(***************************************************************************)
Look(e) == filled' = [filled EXCEPT ![e] = Measured(e)]

ChaseRecheck(e) ==
  /\ phase[e] = "recheck"
  /\ Look(e)
  /\ IF Want[job[e]] > Measured(e) /\ round[e] < ChaseLimit
     THEN Steps(e, "recheck", "send") /\ round' = [round EXCEPT ![e] = @ + 1]
     ELSE Steps(e, "recheck", "finish") /\ round' = round
  /\ UNCHANGED <<rows, task, job, broker, faults>>

ChaseLookFails(e) ==
  /\ Steps(e, "recheck", "finish") \/ Steps(e, "lastlook", "finish")
  /\ UNCHANGED <<rows, task, job, round, filled, broker, faults>>

ChaseLastLook(e) ==
  /\ Look(e)
  /\ Steps(e, "lastlook", "finish")
  /\ UNCHANGED <<rows, task, job, round, broker, faults>>

ChaseStep(e) ==
  \/ ChaseAccept(e) \/ ChaseGivesUp(e)
  \/ ChasePoll(e) \/ ChaseFilled(e)
  \/ ChaseCancel(e) \/ ChaseCancelFails(e)
  \/ ChaseRecheck(e) \/ ChaseLookFails(e) \/ ChaseLastLook(e)

-----------------------------------------------------------------------------
(***************************************************************************)
(* The broker executes what is open, the order being chased, left by a     *)
(* chase that ended or by a process that died.  Every running chase of the *)
(* symbol finds the holding moved.                                         *)
(***************************************************************************)
Chasing(e) == phase[e] \in {"send", "poll", "recheck", "lastlook"}

Watches(e, o) == Chasing(e) /\ SymbolOf[job[e]] = SymbolOf[o]

Toward(e, o, q) == IF sideOf[job[e]] = sideOf[o] THEN q ELSE -q

Execution(o, m) ==
  /\ \E q \in 1..open[o][m] :
       /\ open' = [open EXCEPT ![o][m] = @ - q]
       /\ traded' = [traded EXCEPT ![o] = @ + q]
       /\ moved' = [e \in Executors |->
                      IF Watches(e, o) THEN moved[e] + Toward(e, o, q) ELSE moved[e]]
  /\ disturbed' = [p \in Orders |->
                     \/ disturbed[p]
                     \/ p # o /\ \E e \in Executors : job[e] = p /\ Watches(e, o)]
  /\ UNCHANGED <<rows, task, work, faults>>

-----------------------------------------------------------------------------
(***************************************************************************)
(* _finish writes the outcome whatever the row holds by then.              *)
(***************************************************************************)
Outcome(e) == IF filled[e] > 0 THEN "FILLED" ELSE "FAILED"

\* Forgets to mark the partial fill.
FinishBug(e) ==
  /\ phase[e] = "finish"
  /\ row' = [row EXCEPT ![job[e]] = Outcome(e)]
  /\ Idle(e)
  /\ UNCHANGED <<sideOf, due, old, partial, task, open, traded, disturbed, faults>>

Finish(e) ==
  /\ phase[e] = "finish"
  /\ row' = [row EXCEPT ![job[e]] = Outcome(e)]
  /\ partial' = [partial EXCEPT ![job[e]] = filled[e] \in 1..(Want[job[e]] - 1)]
  /\ Idle(e)
  /\ UNCHANGED <<sideOf, due, old, task, open, traded, disturbed, faults>>

FinishFails(e) ==
  /\ phase[e] = "finish"
  /\ dbFaults < MaxDbFaults
  /\ dbFaults' = dbFaults + 1
  /\ Idle(e)
  /\ UNCHANGED <<rows, task, open, traded, disturbed, stops, startFaults>>

-----------------------------------------------------------------------------
Loop(e) ==
  \/ \E o \in Orders : Claim(e, o)
  \/ NotSent(e) \/ BeginChase(e) \/ ChaseStep(e) \/ Finish(e)

Next ==
  \/ \E o \in Orders :
       \/ \E s \in SidesOf[o], now \in BOOLEAN : Create(o, s, now)
       \/ BecomesDue(o) \/ CancelOrder(o) \/ GrowsOld(o)
       \/ \E m \in Rounds : Execution(o, m)
  \/ \E e \in Executors :
       Start(e) \/ StartFails(e) \/ Stop(e) \/ Loop(e) \/ FinishFails(e)
  \/ \E e \in Executors, o \in Orders : ClaimLost(e, o)

Spec == Init /\ [][Next]_vars

\* docker-compose restarts the API, its task is scheduled, and every call of
\* a chase has a time limit; the broker and the users owe nothing.
FairSpec ==
  /\ Spec
  /\ \A e \in Executors : WF_vars(Start(e)) /\ WF_vars(Loop(e))

-----------------------------------------------------------------------------
(* The variables stay in their types. *)
TypeOK ==
  /\ row \in [Orders -> Settled \union {"ABSENT", "PENDING", "PLACED"}]
  /\ sideOf \in [Orders -> {"BUY", "SELL"}]
  /\ due \in [Orders -> BOOLEAN] /\ old \in [Orders -> BOOLEAN]
  /\ partial \in [Orders -> BOOLEAN]
  /\ task \in [Executors -> {"down", "up", "dead"}]
  /\ job \in [Executors -> Orders \union {NoOrder}]
  /\ phase \in [Executors -> {"idle", "resolve", "send", "poll", "recheck",
                              "lastlook", "finish"}]
  /\ round \in [Executors -> Rounds]
  /\ filled \in [Executors -> Nat] /\ moved \in [Executors -> Int]
  /\ open \in [Orders -> [Rounds -> Nat]] /\ traded \in [Orders -> Nat]
  /\ disturbed \in [Orders -> BOOLEAN]
  /\ stops \in 0..MaxStops /\ dbFaults \in 0..MaxDbFaults
  /\ startFaults \in 0..MaxStartFaults

(***************************************************************************)
(* Across restarts, lost answers and several executors an order is worked  *)
(* on by one executor, and never again after it; and unless another order  *)
(* of its symbol was executed during its chase, one of its attempts at     *)
(* most is open, and the broker never has more of it, executed or open,    *)
(* than was asked for.                                                     *)
(***************************************************************************)
OneExecutor ==
  \A e, f \in Executors : job[e] = job[f] /\ job[e] # NoOrder => e = f

OrderFits(o) ==
  /\ \A m \in Rounds : traded[o] + open[o][m] <= Want[o]
  /\ \A l, m \in Rounds : open[o][l] > 0 /\ open[o][m] > 0 => l = m

NeverSendsTwice ==
  /\ OneExecutor
  /\ \A o \in Orders : ~ disturbed[o] => OrderFits(o)

(***************************************************************************)
(* What kis_chase.py:9-10 says without that condition: the confirmed       *)
(* cancel before every new order makes a double execution impossible.      *)
(***************************************************************************)
NoDoubleFill == \A o \in Orders : traded[o] <= Want[o]

(***************************************************************************)
(* Cancelling races the claim: an order whose cancellation was confirmed   *)
(* is never sent, not even in part (stock_orders.py:75).                   *)
(***************************************************************************)
CancelledNeverTrades ==
  \A o \in Orders : row[o] = "CANCELED" =>
    /\ traded[o] = 0
    /\ \A m \in Rounds : open[o][m] = 0
    /\ \A e \in Executors : job[e] # o

(***************************************************************************)
(* A row that has an outcome keeps it, although _finish and the recovery   *)
(* of orphans write without asking what the row holds.                     *)
(***************************************************************************)
OutcomesStand ==
  [][\A o \in Orders : row[o] \in Settled => row'[o] = row[o]]_vars

(***************************************************************************)
(* FILLED rows were executed, in full unless they say partial, if no other *)
(* order of the symbol was executed during the chase.                      *)
(***************************************************************************)
FilledIsTrue ==
  \A o \in Orders : row[o] = "FILLED" /\ ~ disturbed[o] =>
    traded[o] > 0 /\ (~ partial[o] => traded[o] = Want[o])

(***************************************************************************)
(* A due order is taken up or cancelled, whatever ends the process and     *)
(* whichever database call of the loop fails, unless the database was away *)
(* when an executor started: that one stays dead as long as its process    *)
(* lives.                                                                  *)
(***************************************************************************)
DueOrdersAreTaken ==
  \A o \in Orders :
    (row[o] = "PENDING" /\ due[o]) ~> (row[o] # "PENDING" \/ startFaults > 0)

-----------------------------------------------------------------------------
(***************************************************************************)
(* Inductive: what the broker has of an order follows from the row and the *)
(* executor that works on it.  Undisturbed, the holding has moved by what  *)
(* was executed; nothing is open when the rest is sent, and while the      *)
(* polls run the attempt has open what is missing.                         *)
(***************************************************************************)
NothingOpen(o) == \A m \in Rounds : open[o][m] = 0

OnlyOpen(o, m) == \A l \in Rounds : l # m => open[o][l] = 0

AtWork(e, o) ==
  /\ row[o] = "PLACED" /\ ~ old[o]
  /\ phase[e] = "resolve" =>
       /\ NothingOpen(o) /\ traded[o] = 0 /\ ~ disturbed[o]
       /\ moved[e] = 0 /\ filled[e] = 0
  /\ phase[e] = "send" => filled[e] < Want[o]

Undisturbed(e, o) ==
  /\ Chasing(e) => moved[e] = traded[o]
  /\ filled[e] <= traded[o]
  /\ phase[e] \in {"send", "recheck"} => NothingOpen(o)
  /\ phase[e] = "send" => filled[e] = traded[o]
  /\ OnlyOpen(o, round[e])
  /\ phase[e] = "poll" => traded[o] + open[o][round[e]] = Want[o]

Working ==
  \A e \in Executors :
    /\ phase[e] = "idle" <=> job[e] = NoOrder
    /\ job[e] = NoOrder => filled[e] = 0 /\ moved[e] = 0
    /\ \A o \in Orders : job[e] = o =>
         AtWork(e, o) /\ (~ disturbed[o] => Undisturbed(e, o))

NotYetSent ==
  \A o \in Orders : row[o] \in {"ABSENT", "PENDING", "CANCELED"} =>
    traded[o] = 0 /\ NothingOpen(o) /\ ~ old[o] /\ ~ disturbed[o]

Handled == Working /\ NotYetSent /\ NeverSendsTwice /\ FilledIsTrue
=============================================================================
