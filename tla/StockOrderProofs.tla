--------------------------- MODULE StockOrderProofs ---------------------------
(***************************************************************************)
(* Theorems about stock orders, for every value of the constants: first    *)
(* the chase of one order (KisChase), then the manual orders that are      *)
(* chased (ManualOrders).                                                  *)
(***************************************************************************)
EXTENDS KisChase, ManualOrders, TLAPS

(* Types, and the positive quantity that keeps the book non-negative. *)
Typed == ChaseTypeOK /\ SendsSomething

LEMMA GreaterType ==
  ASSUME NEW a \in Int, NEW b \in Int
  PROVE  /\ Greater(a, b) \in Int
         /\ Greater(a, b) >= a /\ Greater(a, b) >= b
         /\ Greater(a, b) = a \/ Greater(a, b) = b
BY DEF Greater

LEMMA LimitType == AttemptLimit \in Attempts
BY LimitsAssumption DEF AttemptLimit, Attempts

LEMMA FilledSinceType ==
  ASSUME ChaseTypeOK
  PROVE  FilledSince \in Nat
BY GreaterType DEF ChaseTypeOK, FilledSince, Greater

LEMMA TypedInit == ChaseInit => Typed
<1> SUFFICES ASSUME ChaseInit PROVE Typed
  OBVIOUS
<1> USE DEF ChaseInit
<1>1. 1 \in Attempts /\ book \in [Attempts -> Nat]
  BY LimitsAssumption DEF Attempts
<1>2. qty \in Quantities /\ qty \in Nat \ {0} /\ held \in Nat
  BY RequestsAssumption
<1>3. outside \in 0..MaxOutside /\ polls \in 0..MaxPolls
      /\ tries \in 0..ThrottleRetries
  BY LimitsAssumption
<1>4. n \in Attempts /\ executed \in Nat /\ base \in Nat /\ seen \in Nat
      /\ remaining \in Int
  BY <1>1, <1>2
<1>5. ChaseTypeOK
  BY <1>1, <1>2, <1>3, <1>4, Zenon DEF ChaseTypeOK
<1>6. SendsSomething
  BY <1>2 DEF SendsSomething
<1> QED BY <1>5, <1>6 DEF Typed

LEMMA TypedStep == Typed /\ [ChaseNext]_chaseVars => Typed'
<1> SUFFICES ASSUME Typed, [ChaseNext]_chaseVars PROVE Typed'
  OBVIOUS
<1> USE DEF Typed, ChaseTypeOK, SendsSomething
<1>0. qty \in Nat \ {0} /\ Attempts \subseteq Nat
  BY RequestsAssumption DEF Attempts
<1>1. CASE UNCHANGED chaseVars
  BY <1>1 DEF chaseVars, requestVars, brokerVars, Attempts
<1>2. ASSUME NEW m \in Attempts, Execute(m) PROVE Typed'
  <2>1. PICK q \in 1..(IF side = "BUY" THEN book[m] ELSE Lesser(book[m], held)) :
          /\ book' = [book EXCEPT ![m] = @ - q]
          /\ executed' = executed + q
          /\ held' = IF side = "BUY" THEN held + q ELSE held - q
    BY <1>2 DEF Execute
  <2>2. q \in Nat /\ q <= book[m] /\ (side # "BUY" => q <= held)
    BY <2>1 DEF Lesser
  <2>3. book' \in [Attempts -> Nat] /\ executed' \in Nat /\ held' \in Nat
    BY <2>1, <2>2
  <2> QED BY <1>2, <2>3 DEF Execute, requestVars, Attempts
<1>3. CASE OutsideTrade
  BY <1>3, LimitsAssumption DEF OutsideTrade, requestVars, Attempts
<1>4. CASE Chase
  <2>1. CASE Setup
    BY <2>1, <1>0 DEF Setup, requestVars, brokerVars, Attempts
  <2>2. CASE SetupFails
    BY <2>2 DEF SetupFails, requestVars, brokerVars, Attempts
  <2>3. CASE Throttled
    BY <2>3, LimitsAssumption
       DEF Throttled, requestVars, brokerVars, Attempts
  <2>4. CASE PlaceRefused
    BY <2>4 DEF PlaceRefused, GiveUp, requestVars, Attempts
  <2>5. CASE PlaceLost
    <3>1. book' \in [Attempts -> Nat]
      BY <2>5 DEF PlaceLost
    <3> QED BY <2>5, <3>1 DEF PlaceLost, GiveUp, requestVars, Attempts
  <2>6. CASE Place
    <3>1. book' \in [Attempts -> Nat]
      BY <2>6 DEF Place
    <3> QED BY <2>6, <3>1, LimitsAssumption
            DEF Place, requestVars, Attempts
  <2>7. CASE Poll
    BY <2>7, FilledSinceType, LimitsAssumption
       DEF Poll, Polling, requestVars, brokerVars, Attempts
  <2>8. CASE PollFails
    BY <2>8, LimitsAssumption
       DEF PollFails, Polling, requestVars, brokerVars, Attempts
  <2>9. CASE PollOver
    BY <2>9, <1>0 DEF PollOver, requestVars, brokerVars, Attempts
  <2>10. ASSUME Cancel \/ CancelFails PROVE Typed'
    <3>1. Withdrawn \in [Attempts -> Nat]
      BY GreaterType, <1>0 DEF Withdrawn, Greater
    <3>2. book' \in [Attempts -> Nat]
      BY <2>10, <3>1 DEF Cancel, CancelFails
    <3>3. tries' \in 0..ThrottleRetries
      BY <2>10, LimitsAssumption DEF Cancel, CancelFails
    <3> QED BY <2>10, <3>2, <3>3
            DEF Cancel, CancelFails, requestVars, Attempts
  <2>11. CASE Recheck
    <3>1. n' \in Attempts
      BY <2>11, LimitType, LimitsAssumption DEF Recheck, Attempts
    <3> QED BY <2>11, <3>1, <1>0, FilledSinceType
            DEF Recheck, requestVars, brokerVars, Attempts
  <2>12. CASE LastLook
    BY <2>12, <1>0, FilledSinceType
       DEF LastLook, requestVars, brokerVars, Attempts
  <2>13. CASE LookFails
    BY <2>13 DEF LookFails, requestVars, brokerVars, Attempts
  <2>14. CASE Return
    BY <2>14 DEF Return, requestVars, brokerVars, Attempts
  <2> QED
    BY <1>4, <2>1, <2>2, <2>3, <2>4, <2>5, <2>6, <2>7, <2>8, <2>9, <2>10,
       <2>11, <2>12, <2>13, <2>14 DEF Chase
<1> QED BY <1>1, <1>2, <1>3, <1>4 DEF ChaseNext

(* Every variable of the chase stays in its type, others trading or not. *)
THEOREM ChaseTypes == ChaseSpec => []ChaseTypeOK
<1>1. ChaseInit => Typed
  BY TypedInit
<1>2. Typed /\ [ChaseNext]_chaseVars => Typed'
  BY TypedStep
<1>3. Typed => ChaseTypeOK
  BY DEF Typed
<1> QED BY <1>1, <1>2, <1>3, PTL DEF ChaseSpec
-----------------------------------------------------------------------------
(***************************************************************************)
(* The quantities, when nobody else trades the symbol: a look at the       *)
(* balance then tells exactly what has been executed.                      *)
(***************************************************************************)
LEMMA LooksAreExact ==
  ASSUME ChaseTypeOK, Baseline, pc \notin {"setup", "raised"}
  PROVE  FilledSince = executed
BY DEF ChaseTypeOK, Baseline, FilledSince, Greater

LEMMA ChasedInit == ChaseInit => Chased
<1> SUFFICES ASSUME ChaseInit PROVE Chased
  OBVIOUS
<1> USE DEF ChaseInit
<1>1. \A m \in Attempts : book[m] = 0
  OBVIOUS
<1>2. qty \in Nat \ {0} /\ executed = 0 /\ remaining = qty /\ n = 1
      /\ pc = "setup" /\ seen = 0
  BY RequestsAssumption
<1>3. Untouched /\ Baseline /\ SendsSomething
  BY <1>1, <1>2 DEF Untouched, Baseline, SendsSomething
<1>4. Knowledge
  BY <1>1, <1>2 DEF Knowledge
<1>5. OnlyCurrentOpen /\ Fits
  BY <1>1, <1>2 DEF OnlyCurrentOpen, Fits
<1> QED BY <1>3, <1>4, <1>5 DEF Chased

\* The invariant about quantities, without the conjunct that Typed repeats.
Quantified == Untouched /\ Baseline /\ Knowledge /\ OnlyCurrentOpen
              /\ \A m \in Attempts : executed + book[m] <= qty

LEMMA QuantifiedIsChased ==
  ASSUME Typed
  PROVE  Quantified <=> Chased
BY DEF Typed, ChaseTypeOK, Quantified, Chased, Fits, OnlyCurrentOpen

LEMMA QuantifiedStep ==
  ASSUME Alone', Typed, Typed', Quantified, [ChaseNext]_chaseVars
  PROVE  Quantified'
<1>0. qty \in Nat \ {0} /\ Attempts \subseteq Nat /\ n \in Attempts
      /\ remaining \in Int /\ seen \in Nat /\ executed \in Nat
      /\ held \in Nat /\ base \in Nat /\ book \in [Attempts -> Nat]
  <2>1. qty \in Nat \ {0} /\ Attempts \subseteq Nat
    <3>1. qty \in Quantities
      BY Zenon DEF Typed, ChaseTypeOK
    <3> QED BY <3>1, RequestsAssumption DEF Attempts
  <2>2. /\ n \in Attempts /\ remaining \in Int /\ seen \in Nat
        /\ executed \in Nat /\ held \in Nat /\ base \in Nat
        /\ book \in [Attempts -> Nat]
    BY DEF Typed, ChaseTypeOK
  <2> QED BY <2>1, <2>2
<1> USE DEF Quantified, Untouched, Baseline, Knowledge, OnlyCurrentOpen
<1>1. CASE UNCHANGED chaseVars
  BY <1>1 DEF chaseVars, requestVars, brokerVars, Attempts
<1>2. ASSUME NEW m \in Attempts, Execute(m) PROVE Quantified'
  <2>1. PICK q \in 1..(IF side = "BUY" THEN book[m] ELSE Lesser(book[m], held)) :
          /\ book' = [book EXCEPT ![m] = @ - q]
          /\ executed' = executed + q
          /\ held' = IF side = "BUY" THEN held + q ELSE held - q
    BY <1>2 DEF Execute
  <2>2. q \in Nat /\ 1 <= q /\ q <= book[m] /\ (side # "BUY" => q <= held)
    BY <2>1, <1>0 DEF Lesser
  <2>3. m = n /\ pc \notin {"setup", "raised", "send", "recheck"}
    BY <2>2, <1>0
  <2>4. UNCHANGED <<market, side, qty, pc, n, base, remaining, seen>>
    BY <1>2 DEF Execute, requestVars
  <2>5. Baseline'
    BY <2>1, <2>2, <2>3, <2>4, <1>0
  <2>6. book'[m] = book[m] - q
        /\ \A l \in Attempts : l # m => book'[l] = book[l] /\ book[l] = 0
    BY <2>1, <2>3, <1>0
  <2>7. \A l \in Attempts : executed' + book'[l] <= qty'
    BY <2>1, <2>2, <2>4, <2>6, <1>0
  <2> QED BY <2>1, <2>2, <2>3, <2>4, <2>5, <2>6, <2>7, <1>0 DEF Attempts
<1>3. CASE OutsideTrade
  BY <1>3 DEF OutsideTrade, Alone, Typed, ChaseTypeOK
<1>4. CASE Chase
  <2>1. CASE Setup
    BY <2>1, <1>0 DEF Setup, requestVars, brokerVars, Attempts
  <2>2. CASE SetupFails
    BY <2>2 DEF SetupFails, requestVars, brokerVars, Attempts
  <2>3. CASE Throttled
    BY <2>3 DEF Throttled, requestVars, brokerVars, Attempts
  <2>4. CASE PlaceRefused
    BY <2>4 DEF PlaceRefused, GiveUp, requestVars, Attempts
  <2>5. ASSUME PlaceLost \/ Place PROVE Quantified'
    <3>1. /\ pc = "send" /\ pc' \in {"poll", "over"}
          /\ book' = [book EXCEPT ![n] = @ + remaining]
          /\ UNCHANGED <<market, side, qty, executed, held, n, base, remaining>>
          /\ seen' \in {0, seen}
      BY <2>5 DEF PlaceLost, Place, GiveUp, requestVars
    <3>2. \A l \in Attempts : book'[l] = IF l = n THEN remaining ELSE 0
      BY <3>1, <1>0
    <3>3. executed + remaining = qty
      BY <3>1, <1>0
    <3> QED BY <3>1, <3>2, <3>3, <1>0 DEF Attempts
  <2>7. CASE Poll
    <3>1. FilledSince = executed
      BY <2>7, LooksAreExact DEF Poll, Polling, Typed
    <3> QED BY <2>7, <3>1, <1>0
            DEF Poll, Polling, requestVars, brokerVars, Attempts
  <2>8. CASE PollFails
    BY <2>8 DEF PollFails, Polling, requestVars, brokerVars, Attempts
  <2>9. CASE PollOver
    BY <2>9, <1>0 DEF PollOver, requestVars, brokerVars, Attempts
  <2>10. ASSUME Cancel \/ CancelFails PROVE Quantified'
    <3>1. /\ pc = "cancel"
          /\ UNCHANGED <<market, side, qty, executed, held, n, base, remaining, seen>>
          /\ \/ pc' = "recheck" /\ book' = Withdrawn
             \/ pc' = "lastlook" /\ book' \in {book, Withdrawn}
      BY <2>10 DEF Cancel, CancelFails, requestVars
    <3>2. book[n] <= remaining
      BY <1>0
    <3>3. \A l \in Attempts : Withdrawn[l] = 0
      BY <3>2, <1>0 DEF Withdrawn, Greater
    <3>4. \A l \in Attempts : /\ book'[l] \in {book[l], 0}
                              /\ pc' = "recheck" => book'[l] = 0
      BY <3>1, <3>3, <1>0
    <3> QED BY <3>1, <3>4, <1>0 DEF Attempts
  <2>11. CASE Recheck
    <3>1. FilledSince = executed
      BY <2>11, LooksAreExact DEF Recheck, Typed
    <3>2. /\ remaining' = qty - executed
          /\ pc = "recheck" /\ pc' \in {"send", "over"}
          /\ \A l \in Attempts : book'[l] = 0
          /\ UNCHANGED <<market, side, qty, executed, held, base, seen>>
      BY <2>11, <3>1 DEF Recheck, requestVars, brokerVars
    <3>3. executed <= qty
      BY <1>0
    <3> QED BY <3>2, <3>3, <1>0 DEF Attempts
  <2>12. CASE LastLook
    <3>1. FilledSince = executed
      BY <2>12, LooksAreExact DEF LastLook, Typed
    <3> QED BY <2>12, <3>1, <1>0
            DEF LastLook, requestVars, brokerVars, Attempts
  <2>13. CASE LookFails
    BY <2>13 DEF LookFails, requestVars, brokerVars, Attempts
  <2>14. CASE Return
    BY <2>14 DEF Return, requestVars, brokerVars, Attempts
  <2> QED
    BY <1>4, <2>1, <2>2, <2>3, <2>4, <2>5, <2>7, <2>8, <2>9, <2>10,
       <2>11, <2>12, <2>13, <2>14 DEF Chase
<1> QED BY <1>1, <1>2, <1>3, <1>4 DEF ChaseNext

\* Trades of others are counted, and a chase that was alone is alone until one.
AloneChased == Typed /\ (Alone => Quantified)

LEMMA AloneBefore ==
  ASSUME Typed, [ChaseNext]_chaseVars, Alone'
  PROVE  Alone
BY DEF Typed, ChaseTypeOK, Alone, ChaseNext, Chase, chaseVars, brokerVars, Execute,
       OutsideTrade, Setup, SetupFails, Throttled, PlaceRefused, PlaceLost,
       Place, GiveUp, Poll, PollFails, PollOver, Cancel, CancelFails, Recheck,
       LastLook, LookFails, Return

LEMMA ChasedAlways == ChaseSpec => []AloneChased
<1>1. ChaseInit => AloneChased
  BY TypedInit, ChasedInit, QuantifiedIsChased DEF AloneChased
<1>2. AloneChased /\ [ChaseNext]_chaseVars => AloneChased'
  <2> SUFFICES ASSUME AloneChased, [ChaseNext]_chaseVars PROVE AloneChased'
    OBVIOUS
  <2>1. Typed /\ Typed'
    BY TypedStep DEF AloneChased
  <2>2. ASSUME Alone' PROVE Quantified'
    BY <2>1, <2>2, AloneBefore, QuantifiedStep DEF AloneChased
  <2> QED BY <2>1, <2>2 DEF AloneChased
<1> QED BY <1>1, <1>2, PTL DEF ChaseSpec

(* What is executed and open never exceeds what was asked for. *)
THEOREM NeverTooMuch == ChaseSpec => []NeverOverExecutes
<1>1. AloneChased => NeverOverExecutes
  BY QuantifiedIsChased DEF AloneChased, Chased, NeverOverExecutes
<1> QED BY <1>1, ChasedAlways, PTL

(* What is reported as filled has been executed. *)
THEOREM ReportsAreTrue == ChaseSpec => []ReportIsTrue
<1>1. AloneChased => ReportIsTrue
  BY DEF AloneChased, Quantified, Knowledge, ReportIsTrue, Reported
<1> QED BY <1>1, ChasedAlways, PTL

(* An order is sent only with nothing open, for exactly the rest. *)
THEOREM OnlyTheRestIsSent == ChaseSpec => ReordersTheRest
<1> DEFINE Rest(m) == /\ \A l \in Attempts : book[l] = 0
                      /\ book'[m] = qty - executed
<1> DEFINE Sends == \A m \in Attempts : book'[m] > book[m] => Rest(m)
<1> DEFINE AloneSends == \A m \in Attempts :
                           Alone /\ book'[m] > book[m] => Rest(m)
<1>1. ASSUME Typed, Quantified, [ChaseNext]_chaseVars PROVE Sends
  <2>0. qty \in Nat \ {0} /\ n \in Attempts /\ remaining \in Int
        /\ executed \in Nat /\ book \in [Attempts -> Nat]
    BY <1>1, RequestsAssumption DEF Typed, ChaseTypeOK
  <2>1. CASE UNCHANGED book
    BY <2>0, <2>1
  <2>2. ASSUME NEW m \in Attempts, Execute(m) PROVE Sends
    <3>1. PICK q \in 1..(IF side = "BUY" THEN book[m] ELSE Lesser(book[m], held)) :
            book' = [book EXCEPT ![m] = @ - q]
      BY <2>2 DEF Execute
    <3>2. q \in Int /\ q >= 1
      BY <3>1, <2>0, <1>1 DEF Lesser, Typed, ChaseTypeOK
    <3> QED BY <3>1, <3>2, <2>0
  <2>3. CASE PlaceLost \/ Place
    <3>1. pc = "send" /\ book' = [book EXCEPT ![n] = @ + remaining]
      BY <2>3 DEF PlaceLost, Place
    <3>2. remaining = qty - executed /\ \A l \in Attempts : book[l] = 0
      BY <1>1, <3>1 DEF Quantified, Knowledge
    <3> QED BY <3>1, <3>2, <2>0
  <2>4. CASE Cancel \/ CancelFails
    <3>1. pc = "cancel" /\ book' \in {book, Withdrawn}
      BY <2>4 DEF Cancel, CancelFails
    <3>2. book[n] <= remaining
      BY <1>1, <2>0 DEF Quantified, Knowledge
    <3>3. \A m \in Attempts : Withdrawn[m] \in Int /\ Withdrawn[m] <= book[m]
      BY <3>2, <2>0 DEF Withdrawn, Greater
    <3>4. \A m \in Attempts : ~ (book'[m] > book[m])
      BY <3>1, <3>3, <2>0
    <3> QED BY <3>4
  <2> QED
    BY <1>1, <2>1, <2>2, <2>3, <2>4
       DEF ChaseNext, Chase, Setup, SetupFails, Throttled, PlaceRefused, Poll,
           PollFails, PollOver, Recheck, LastLook, LookFails, Return,
           OutsideTrade, brokerVars, chaseVars
<1>2. AloneChased /\ [ChaseNext]_chaseVars => [AloneSends]_chaseVars
  BY <1>1 DEF AloneChased
<1> QED BY <1>2, ChasedAlways, PTL DEF ChaseSpec, ReordersTheRest

-----------------------------------------------------------------------------
(***************************************************************************)
(* Refinement of ChaseContract.                                            *)
(***************************************************************************)
ReportOf == IF pc = "returned" THEN Reported ELSE -1

LEMMA ContractInit == ChaseInit => Contract!Init
BY RequestsAssumption, LimitsAssumption
   DEF ChaseInit, Contract!Init, Contract!NoReport, Attempts

LEMMA ContractStep ==
  ASSUME Typed, Typed', Alone', Quantified, Quantified', [ChaseNext]_chaseVars
  PROVE  [Contract!Next]_<<qty, executed, book[n], ReportOf, outside>>
<1> USE DEF ReportOf
<1>0. /\ qty \in Nat \ {0} /\ n \in Attempts /\ n' \in Attempts
      /\ remaining \in Int /\ executed \in Nat
      /\ book \in [Attempts -> Nat] /\ book' \in [Attempts -> Nat]
      /\ executed + book[n] <= qty
  BY RequestsAssumption DEF Typed, ChaseTypeOK, Quantified
<1>1. CASE UNCHANGED chaseVars
  BY <1>1 DEF chaseVars, requestVars, brokerVars, Reported
<1>2. ASSUME NEW m \in Attempts, Execute(m) PROVE Contract!Execute
  <2>1. PICK q \in 1..(IF side = "BUY" THEN book[m] ELSE Lesser(book[m], held)) :
          /\ book' = [book EXCEPT ![m] = @ - q]
          /\ executed' = executed + q
    BY <1>2 DEF Execute
  <2>2. q \in 1..book[m]
    BY <2>1, <1>0 DEF Lesser, Typed, ChaseTypeOK
  <2>3. m = n
    BY <2>2, <1>0 DEF Quantified, OnlyCurrentOpen
  <2>4. UNCHANGED <<qty, outside, pc, n, remaining>>
    BY <1>2 DEF Execute, requestVars
  <2>5. book'[n'] = book[n] - q
    BY <2>1, <2>3, <2>4, <1>0
  <2> QED BY <2>1, <2>2, <2>3, <2>4, <2>5 DEF Contract!Execute, Reported
<1>3. CASE OutsideTrade
  BY <1>3 DEF OutsideTrade, Alone, Typed, ChaseTypeOK
<1>4. CASE PlaceLost \/ Place
  <2>1. /\ pc = "send" /\ pc' \in {"poll", "over"}
        /\ book' = [book EXCEPT ![n] = @ + remaining]
        /\ UNCHANGED <<qty, executed, outside, n>>
    BY <1>4 DEF PlaceLost, Place, GiveUp, requestVars
  <2>2. book[n] = 0 /\ remaining = qty - executed /\ remaining > 0
    BY <2>1, <1>0 DEF Typed, SendsSomething, Quantified, Knowledge
  <2>3. book'[n'] = qty - executed
    BY <2>1, <2>2, <1>0
  <2>4. book'[n'] \in 1..(qty - executed)
    BY <2>2, <2>3, <1>0
  <2> QED BY <2>1, <2>2, <2>4 DEF Contract!Accept, Contract!NoReport, Contract!Next
<1>5. CASE Cancel \/ CancelFails
  <2>1. /\ pc = "cancel" /\ pc' \in {"recheck", "lastlook"}
        /\ book' \in {book, Withdrawn}
        /\ UNCHANGED <<qty, executed, outside, n>>
    BY <1>5 DEF Cancel, CancelFails, requestVars
  <2>2. book[n] <= remaining
    BY <1>0 DEF Quantified, Knowledge
  <2>3. Withdrawn[n] = 0
    BY <2>2, <1>0 DEF Withdrawn, Greater
  <2>4. book'[n'] \in 0..book[n]
    BY <2>1, <2>3, <1>0
  <2> QED BY <2>1, <2>4 DEF Contract!Withdraw, Contract!Next
<1>6. CASE Recheck
  <2>1. /\ pc = "recheck" /\ pc' \in {"send", "over"}
        /\ UNCHANGED <<qty, executed, outside, book>>
    BY <1>6 DEF Recheck, requestVars, brokerVars
  <2>2. book[n] = 0 /\ book'[n'] = 0
    BY <2>1, <1>0 DEF Quantified, Knowledge
  <2> QED BY <2>1, <2>2
<1>7. CASE Return
  <2>1. /\ pc = "over" /\ pc' = "returned"
        /\ UNCHANGED <<qty, executed, outside, book, n, remaining>>
    BY <1>7 DEF Return, requestVars, brokerVars
  <2>2. Reported' \in 0..executed
    BY <2>1 DEF Quantified, Knowledge, Reported
  <2> QED BY <2>1, <2>2 DEF Contract!Report, Contract!NoReport, Contract!Next
<1> QED
  BY <1>1, <1>2, <1>3, <1>4, <1>5, <1>6, <1>7
     DEF ChaseNext, Chase, Setup, SetupFails, Throttled, PlaceRefused, GiveUp,
         Poll, PollFails, PollOver, LastLook, LookFails, Contract!Next,
         requestVars, brokerVars, Reported

LEMMA ContractStepOfOthers ==
  ASSUME Typed, Typed', ~ Alone', [ChaseNext]_chaseVars
  PROVE  [Contract!Next]_<<qty, executed, book[n], ReportOf, outside>>
<1> USE DEF ReportOf
<1>1. outside \in Nat
  BY DEF Typed, ChaseTypeOK
<1>2. CASE OutsideTrade
  BY <1>1, <1>2
     DEF OutsideTrade, Contract!OthersTrade, Contract!Next, requestVars, Reported
<1>3. CASE ~ OutsideTrade
  <2>1. outside' = outside
    BY <1>3 DEF ChaseNext, Chase, chaseVars, brokerVars, Execute, Setup, SetupFails,
       Throttled, PlaceRefused, PlaceLost, Place, GiveUp, Poll, PollFails,
       PollOver, Cancel, CancelFails, Recheck, LastLook, LookFails, Return
  <2> QED BY <1>1, <2>1 DEF Alone, Contract!NotAlone, Contract!Next
<1> QED BY <1>2, <1>3

(***************************************************************************)
(* The chase implements ChaseContract: what the manual executor and the    *)
(* weekly runners rely on.                                                 *)
(***************************************************************************)
THEOREM ImplementsContract == ChaseSpec => ContractSpec
<1>1. AloneChased /\ AloneChased' /\ [ChaseNext]_chaseVars
        => [Contract!Next]_<<qty, executed, book[n], ReportOf, outside>>
  BY ContractStep, ContractStepOfOthers, AloneBefore DEF AloneChased
<1>2. AloneChased /\ AloneChased' /\ [ChaseNext]_chaseVars
        => [Contract!Next]_<<qty, executed, book[n],
              IF pc = "returned" THEN Reported ELSE -1, outside>>
  BY <1>1, Zenon DEF ReportOf
<1> QED BY <1>2, ContractInit, ChasedAlways, PTL
        DEF ChaseSpec, ContractSpec, Contract!Spec

-----------------------------------------------------------------------------
(* Manual orders. *)

(* Types together with the invariant the other theorems follow from. *)
Inv == TypeOK /\ Handled

RowTypes == [Orders -> Settled \union {"ABSENT", "PENDING", "PLACED"}]

PhaseTypes == [Executors -> {"idle", "resolve", "send", "poll", "recheck",
                             "lastlook", "finish"}]

LEMMA InvInit == Init => Inv
<1> SUFFICES ASSUME Init PROVE Inv
  OBVIOUS
<1> USE DEF Init
<1>1. TypeOK
  <2>1. stops \in 0..MaxStops /\ dbFaults \in 0..MaxDbFaults
        /\ startFaults \in 0..MaxStartFaults
    BY BoundsAssumption
  <2>2. row \in RowTypes /\ phase \in PhaseTypes
    BY DEF RowTypes, PhaseTypes
  <2>3. round \in [Executors -> Rounds]
    BY ChaseLimitAssumption DEF Rounds
  <2>4. open \in [Orders -> [Rounds -> Nat]]
    OBVIOUS
  <2> QED BY <2>1, <2>2, <2>3, <2>4 DEF TypeOK, RowTypes, PhaseTypes
<1>2. Working
  BY OrdersAssumption DEF Working
<1>3. NotYetSent
  BY DEF NotYetSent, NothingOpen
<1>4. OneExecutor /\ FilledIsTrue
  BY DEF OneExecutor, FilledIsTrue
<1>5. ASSUME NEW o \in Orders PROVE OrderFits(o)
  <2>1. traded[o] = 0 /\ Want[o] \in Nat /\ \A m \in Rounds : open[o][m] = 0
    BY WantAssumption
  <2> QED BY <2>1 DEF OrderFits
<1> QED BY <1>1, <1>2, <1>3, <1>4, <1>5 DEF Inv, Handled, NeverSendsTwice

-----------------------------------------------------------------------------
(* What an executor that is not idle works on, and how much remains. *)
LEMMA JobType ==
  ASSUME Inv, NEW e \in Executors, phase[e] # "idle"
  PROVE  /\ job[e] \in Orders
         /\ Want[job[e]] \in Nat \ {0}
         /\ filled[e] \in Nat /\ moved[e] \in Int
         /\ Remaining(e) \in Int /\ Measured(e) \in Nat
         /\ Remaining(e) = Want[job[e]] - filled[e]
         /\ round[e] \in Rounds
         /\ AtWork(e, job[e])
         /\ ~ disturbed[job[e]] => Undisturbed(e, job[e]) /\ OrderFits(job[e])
<1>1. job[e] \in Orders
  BY DEF Inv, Handled, Working, TypeOK
<1>2. filled[e] \in Nat /\ moved[e] \in Int /\ round[e] \in Rounds
      /\ Want[job[e]] \in Nat \ {0}
  BY <1>1, WantAssumption DEF Inv, TypeOK
<1>3. AtWork(e, job[e]) /\ (~ disturbed[job[e]] => Undisturbed(e, job[e]))
  BY <1>1 DEF Inv, Handled, Working
<1>4. ~ disturbed[job[e]] => OrderFits(job[e])
  BY <1>1 DEF Inv, Handled, NeverSendsTwice
<1>5. Measured(e) \in Nat
  BY <1>2 DEF Measured
<1> QED BY <1>1, <1>2, <1>3, <1>4, <1>5 DEF Remaining

(* What the chase does to the book: it adds what remains, or takes it back. *)
LEMMA AcceptedBook ==
  ASSUME Inv, NEW e \in Executors, phase[e] = "send", Accepted(e)
  PROVE  /\ open' \in [Orders -> [Rounds -> Nat]]
         /\ open'[job[e]][round[e]] = open[job[e]][round[e]] + Remaining(e)
         /\ \A p \in Orders, m \in Rounds :
              p # job[e] \/ m # round[e] => open'[p][m] = open[p][m]
<1>1. job[e] \in Orders /\ round[e] \in Rounds /\ Remaining(e) \in Int
      /\ Remaining(e) = Want[job[e]] - filled[e]
      /\ filled[e] \in Nat /\ Want[job[e]] \in Nat
      /\ filled[e] < Want[job[e]]
  BY JobType DEF AtWork
<1>2. Remaining(e) \in Nat
  BY <1>1
<1>3. open \in [Orders -> [Rounds -> Nat]]
  BY DEF Inv, TypeOK
<1>4. open' = [open EXCEPT ![job[e]][round[e]] = @ + Remaining(e)]
  BY DEF Accepted
<1> HIDE DEF Remaining
<1> QED BY <1>1, <1>2, <1>3, <1>4

LEMMA WithdrawnBook ==
  ASSUME Inv, NEW e \in Executors, phase[e] = "poll", Withdrawal(e)
  PROVE  /\ open' \in [Orders -> [Rounds -> Nat]]
         /\ open'[job[e]][round[e]] =
              IF open[job[e]][round[e]] > Remaining(e)
              THEN open[job[e]][round[e]] - Remaining(e) ELSE 0
         /\ \A p \in Orders, m \in Rounds :
              p # job[e] \/ m # round[e] => open'[p][m] = open[p][m]
<1>1. job[e] \in Orders /\ round[e] \in Rounds /\ Remaining(e) \in Int
  BY JobType
<1>2. open \in [Orders -> [Rounds -> Nat]]
  BY DEF Inv, TypeOK
<1>3. open' = [open EXCEPT ![job[e]][round[e]] =
                 IF @ > Remaining(e) THEN @ - Remaining(e) ELSE 0]
  BY DEF Withdrawal
<1> DEFINE kept == IF open[job[e]][round[e]] > Remaining(e)
                   THEN open[job[e]][round[e]] - Remaining(e) ELSE 0
<1>4. open' = [open EXCEPT ![job[e]] = [open[job[e]] EXCEPT ![round[e]] = kept]]
  BY <1>3, Zenon
<1>5. kept \in Nat
  BY <1>1, <1>2
<1>6. kept = IF open[job[e]][round[e]] > Remaining(e)
             THEN open[job[e]][round[e]] - Remaining(e) ELSE 0
  OBVIOUS
<1> HIDE DEF kept
<1> QED BY <1>1, <1>2, <1>4, <1>5, <1>6

-----------------------------------------------------------------------------
LEMMA TypeStep ==
  ASSUME Inv, [Next]_vars
  PROVE  TypeOK'
<1> USE DEF Inv, TypeOK
<1>b. \A e \in Executors : phase[e] # "idle" => job[e] \in Orders
  BY JobType
<1>1. CASE UNCHANGED vars
  BY <1>1 DEF vars, rows, work, broker, faults
<1>2. ASSUME NEW o \in Orders, NEW s \in SidesOf[o], NEW now \in BOOLEAN,
             Create(o, s, now)
      PROVE  TypeOK'
  <2>1. s \in {"BUY", "SELL"}
    BY SidesAssumption
  <2> QED BY <1>2, <2>1 DEF Create, work, broker, faults
<1>3. ASSUME NEW o \in Orders, BecomesDue(o) \/ CancelOrder(o) \/ GrowsOld(o)
      PROVE  TypeOK'
  BY <1>3 DEF BecomesDue, CancelOrder, GrowsOld, Settled, work, broker, faults
<1>4. ASSUME NEW o \in Orders, NEW m \in Rounds, Execution(o, m) PROVE TypeOK'
  <2>1. PICK q \in 1..open[o][m] :
          /\ open' = [open EXCEPT ![o][m] = @ - q]
          /\ traded' = [traded EXCEPT ![o] = @ + q]
          /\ moved' = [e \in Executors |->
                         IF Watches(e, o) THEN moved[e] + Toward(e, o, q)
                                          ELSE moved[e]]
    BY <1>4 DEF Execution
  <2>2. q \in Nat /\ q <= open[o][m] /\ open[o][m] \in Nat
    BY <2>1
  <2>3. open' \in [Orders -> [Rounds -> Nat]] /\ traded' \in [Orders -> Nat]
    BY <2>1, <2>2
  <2>4. moved' \in [Executors -> Int]
    <3>1. ASSUME NEW e \in Executors PROVE Toward(e, o, q) \in Int
      BY <2>2 DEF Toward
    <3> HIDE DEF Toward
    <3> QED BY <2>1, <3>1
  <2>5. disturbed' \in [Orders -> BOOLEAN]
    BY <1>4 DEF Execution
  <2> QED BY <1>4, <2>3, <2>4, <2>5 DEF Execution, rows, work, faults
<1>5. ASSUME NEW e \in Executors PROVE Start(e) => TypeOK'
  <2>1. ASSUME Start(e)
        PROVE  row' \in [Orders -> Settled \union {"ABSENT", "PENDING", "PLACED"}]
    BY <2>1 DEF Start, Settled
  <2> QED BY <2>1 DEF Start, work, broker, faults
<1>6. ASSUME NEW e \in Executors, StartFails(e) PROVE TypeOK'
  BY <1>6, BoundsAssumption DEF StartFails, rows, work, broker
<1>7. ASSUME NEW e \in Executors, Idle(e)
      PROVE  /\ job' \in [Executors -> Orders \union {NoOrder}]
             /\ phase' \in PhaseTypes /\ round' \in [Executors -> Rounds]
             /\ filled' \in [Executors -> Nat] /\ moved' \in [Executors -> Int]
  BY <1>7, ChaseLimitAssumption DEF Idle, PhaseTypes, Rounds
<1>8. ASSUME NEW e \in Executors, Stop(e) PROVE TypeOK'
  BY <1>7, <1>8, BoundsAssumption DEF Stop, PhaseTypes, rows
<1>9. ASSUME NEW e \in Executors, NEW o \in Orders, Claim(e, o) PROVE TypeOK'
  BY <1>9 DEF Claim, Claimed, broker, faults
<1>10. ASSUME NEW e \in Executors, NEW o \in Orders, ClaimLost(e, o)
       PROVE  TypeOK'
  BY <1>10, BoundsAssumption DEF ClaimLost, Claimed, work, broker
<1>11. ASSUME NEW e \in Executors,
              NotSent(e) \/ BeginChase(e) \/ ChaseFilled(e) \/ ChaseLookFails(e)
       PROVE  TypeOK'
  BY <1>11 DEF NotSent, BeginChase, ChaseFilled, ChaseLookFails, Steps, rows,
               broker, faults
<1>12. ASSUME NEW e \in Executors,
              ChaseAccept(e) \/ ChaseGivesUp(e)
              \/ ChaseCancel(e) \/ ChaseCancelFails(e)
       PROVE  TypeOK'
  <2>1. open' \in [Orders -> [Rounds -> Nat]]
    BY <1>12, AcceptedBook, WithdrawnBook
       DEF ChaseAccept, ChaseGivesUp, ChaseCancel, ChaseCancelFails, Steps
  <2>2. phase' \in PhaseTypes
    BY <1>12 DEF ChaseAccept, ChaseGivesUp, ChaseCancel, ChaseCancelFails, Steps,
                 PhaseTypes
  <2>3. filled' \in [Executors -> Nat]
    BY <1>12 DEF ChaseAccept, ChaseGivesUp, ChaseCancel, ChaseCancelFails
  <2> QED BY <1>12, <2>1, <2>2, <2>3
          DEF ChaseAccept, ChaseGivesUp, ChaseCancel, ChaseCancelFails, rows,
              PhaseTypes, faults
<1>13. ASSUME NEW e \in Executors,
              ChasePoll(e) \/ ChaseRecheck(e) \/ ChaseLastLook(e)
       PROVE  TypeOK'
  <2>1. Measured(e) \in Nat
    BY <1>13, JobType DEF ChasePoll, ChaseRecheck, ChaseLastLook, Steps
  <2>2. filled' \in [Executors -> Nat]
    BY <1>13, <2>1 DEF ChasePoll, ChaseRecheck, ChaseLastLook, Look
  <2>3. round' \in [Executors -> Rounds]
    BY <1>13, ChaseLimitAssumption
       DEF ChasePoll, ChaseRecheck, ChaseLastLook, Rounds
  <2>4. phase' \in PhaseTypes
    BY <1>13 DEF ChasePoll, ChaseRecheck, ChaseLastLook, Steps, PhaseTypes
  <2> QED BY <1>13, <2>2, <2>3, <2>4
          DEF ChasePoll, ChaseRecheck, ChaseLastLook, rows, broker, PhaseTypes,
              faults
<1>14. ASSUME NEW e \in Executors, Finish(e) PROVE TypeOK'
  <2>1. job[e] \in Orders
    BY <1>14, <1>b DEF Finish
  <2>2. row' \in [Orders -> Settled \union {"ABSENT", "PENDING", "PLACED"}]
    BY <1>14, <2>1 DEF Finish, Outcome, Settled
  <2>3. partial' \in [Orders -> BOOLEAN]
    BY <1>14, <2>1 DEF Finish
  <2> QED BY <1>7, <1>14, <2>2, <2>3 DEF Finish, PhaseTypes, faults
<1>15. ASSUME NEW e \in Executors, FinishFails(e) PROVE TypeOK'
  BY <1>7, <1>15, BoundsAssumption DEF FinishFails, PhaseTypes, rows
<1> QED BY <1>1, <1>2, <1>3, <1>4, <1>5, <1>6, <1>8, <1>9, <1>10, <1>11,
           <1>12, <1>13, <1>14, <1>15 DEF Next, Loop, ChaseStep

-----------------------------------------------------------------------------
(* A step of the executor e on its order disturbs nothing else. *)
LEMMA ChaseKeeps ==
  ASSUME Inv, TypeOK', NEW e \in Executors,
         phase[e] # "idle", phase'[e] # "idle",
         UNCHANGED <<row, old, partial, job, traded, disturbed>>,
         \A f \in Executors : f # e =>
           /\ phase'[f] = phase[f] /\ round'[f] = round[f]
           /\ filled'[f] = filled[f] /\ moved'[f] = moved[f],
         \A p \in Orders, m \in Rounds : p # job[e] => open'[p][m] = open[p][m],
         AtWork(e, job[e])',
         ~ disturbed[job[e]] => Undisturbed(e, job[e])' /\ OrderFits(job[e])'
  PROVE  Handled'
<1> USE DEF Inv, Handled
<1>1. job[e] \in Orders /\ row[job[e]] = "PLACED"
  BY JobType DEF AtWork
<1>2. ASSUME NEW f \in Executors, NEW p \in Orders, job[f] = p, f # e
      PROVE  /\ AtWork(f, p)'
             /\ ~ disturbed[p] => Undisturbed(f, p)'
  <2>1. p # job[e]
    BY <1>1, <1>2, OrdersAssumption DEF NeverSendsTwice, OneExecutor
  <2>2. AtWork(f, p) /\ (~ disturbed[p] => Undisturbed(f, p))
    BY <1>2 DEF Working
  <2>3. \A m \in Rounds : open'[p][m] = open[p][m]
    BY <2>1
  <2>4. round[f] \in Rounds
    BY DEF TypeOK
  <2> QED BY <1>2, <2>2, <2>3, <2>4 DEF AtWork, Undisturbed, NothingOpen, OnlyOpen, Chasing
<1>3. Working'
  <2>1. ASSUME NEW f \in Executors
        PROVE  /\ phase'[f] = "idle" <=> job'[f] = NoOrder
               /\ job'[f] = NoOrder => filled'[f] = 0 /\ moved'[f] = 0
    BY <1>1, OrdersAssumption DEF Working
  <2>2. ASSUME NEW f \in Executors, NEW p \in Orders, job'[f] = p
        PROVE  AtWork(f, p)' /\ (~ disturbed'[p] => Undisturbed(f, p)')
    BY <1>2, <2>2
  <2> QED BY <2>1, <2>2 DEF Working
<1>4. ASSUME NEW p \in Orders, p # job[e]
      PROVE  /\ NothingOpen(p) => NothingOpen(p)'
             /\ OrderFits(p) => OrderFits(p)'
  BY <1>4 DEF NothingOpen, OrderFits
<1>5. NotYetSent'
  BY <1>1, <1>4 DEF NotYetSent
<1>6. NeverSendsTwice'
  <2>1. OneExecutor'
    BY DEF NeverSendsTwice, OneExecutor
  <2>2. ASSUME NEW p \in Orders, ~ disturbed'[p] PROVE OrderFits(p)'
    BY <1>4, <2>2 DEF NeverSendsTwice
  <2> QED BY <2>1, <2>2 DEF NeverSendsTwice
<1>7. FilledIsTrue'
  BY DEF FilledIsTrue
<1> QED BY <1>3, <1>5, <1>6, <1>7

(* An executor goes idle, and the row of its order may get an outcome that *)
(* is true.                                                                *)
LEMMA IdleKeeps ==
  ASSUME Inv, TypeOK', NEW e \in Executors, Idle(e),
         UNCHANGED <<old, open, traded, disturbed>>,
         \A p \in Orders : p # job[e] => row'[p] = row[p] /\ partial'[p] = partial[p],
         \A p \in Orders : p = job[e] =>
           /\ row'[p] \in {"PLACED", "FILLED", "FAILED"}
           /\ row'[p] = "FILLED" /\ ~ disturbed[p] =>
                traded[p] > 0 /\ (~ partial'[p] => traded[p] = Want[p])
  PROVE  Handled'
<1> USE DEF Inv, Handled
<1>1. /\ \A f \in Executors : f # e =>
           /\ job'[f] = job[f] /\ phase'[f] = phase[f] /\ round'[f] = round[f]
           /\ filled'[f] = filled[f] /\ moved'[f] = moved[f]
      /\ job'[e] = NoOrder /\ phase'[e] = "idle"
      /\ filled'[e] = 0 /\ moved'[e] = 0
  BY DEF Idle, TypeOK
<1>2. OneExecutor'
  BY <1>1 DEF NeverSendsTwice, OneExecutor
<1>3. ASSUME NEW f \in Executors, NEW p \in Orders, job'[f] = p
      PROVE  /\ AtWork(f, p)'
             /\ ~ disturbed'[p] => Undisturbed(f, p)'
  <2>1. f # e /\ job[f] = p /\ p # job[e]
    BY <1>1, <1>3, OrdersAssumption DEF NeverSendsTwice, OneExecutor
  <2>2. AtWork(f, p) /\ (~ disturbed[p] => Undisturbed(f, p))
    BY <2>1 DEF Working
  <2> QED BY <1>1, <2>1, <2>2 DEF AtWork, Undisturbed, NothingOpen, OnlyOpen, Chasing
<1>4. Working'
  <2>1. ASSUME NEW f \in Executors
        PROVE  /\ phase'[f] = "idle" <=> job'[f] = NoOrder
               /\ job'[f] = NoOrder => filled'[f] = 0 /\ moved'[f] = 0
    BY <1>1 DEF Working
  <2> QED BY <1>3, <2>1 DEF Working
<1>5. NotYetSent'
  BY DEF NotYetSent, NothingOpen
<1>6. NeverSendsTwice'
  BY <1>2 DEF NeverSendsTwice, OrderFits
<1>7. FilledIsTrue'
  BY DEF FilledIsTrue
<1> QED BY <1>4, <1>5, <1>6, <1>7

-----------------------------------------------------------------------------
(* The steps of a chase, one lemma each for those that change the book or  *)
(* read the holding.                                                       *)
LEMMA SendStep ==
  ASSUME Inv, TypeOK', NEW e \in Executors, ChaseAccept(e) \/ ChaseGivesUp(e)
  PROVE  Handled'
<1> DEFINE o == job[e]
<1>1. phase[e] = "send"
      /\ UNCHANGED <<row, old, partial, job, round, moved, traded, disturbed>>
  BY DEF ChaseAccept, ChaseGivesUp, Steps, rows
<1>2. o \in Orders /\ Want[o] \in Nat /\ filled[e] \in Nat /\ filled[e] < Want[o]
      /\ Remaining(e) = Want[o] - filled[e] /\ round[e] \in Rounds
      /\ row[o] = "PLACED" /\ ~ old[o]
  BY <1>1, JobType DEF AtWork
<1>3. traded[o] \in Nat /\ moved[e] \in Int
      /\ \A m \in Rounds : open[o][m] \in Nat /\ open'[o][m] \in Nat
  BY <1>1, <1>2 DEF Inv, TypeOK
<1>4. ~ disturbed[o] =>
        /\ moved[e] = traded[o] /\ filled[e] = traded[o]
        /\ \A m \in Rounds : open[o][m] = 0
  BY <1>1, JobType DEF Undisturbed, NothingOpen, Chasing
<1>5. /\ Accepted(e) => open'[o][round[e]] = open[o][round[e]] + Remaining(e)
      /\ \A p \in Orders, m \in Rounds :
           p # o \/ m # round[e] => open'[p][m] = open[p][m]
      /\ Accepted(e) \/ open'[o][round[e]] = open[o][round[e]]
  <2>1. CASE Accepted(e)
    BY <1>1, <2>1, AcceptedBook
  <2>2. CASE ~ Accepted(e)
    BY <2>2 DEF ChaseAccept, ChaseGivesUp
  <2> QED BY <2>1, <2>2
<1>6. /\ \A f \in Executors : f # e => phase'[f] = phase[f] /\ filled'[f] = filled[f]
      /\ \/ phase'[e] = "poll" /\ Accepted(e) /\ filled'[e] = 0
         \/ phase'[e] = "finish" /\ filled'[e] = filled[e]
  BY DEF ChaseAccept, ChaseGivesUp, Steps, Inv, TypeOK
<1>7. AtWork(e, o)'
  BY <1>1, <1>2, <1>6 DEF AtWork
<1>8. ASSUME ~ disturbed[o] PROVE Undisturbed(e, o)' /\ OrderFits(o)'
  <2>1. \A m \in Rounds : m # round[e] => open'[o][m] = 0
    BY <1>2, <1>4, <1>5, <1>8
  <2>2. traded[o] + open'[o][round[e]] <= Want[o]
        /\ (Accepted(e) => traded[o] + open'[o][round[e]] = Want[o])
    BY <1>2, <1>3, <1>4, <1>5, <1>8
  <2>3. OrderFits(o)'
    BY <1>1, <1>2, <1>3, <2>1, <2>2 DEF OrderFits
  <2>4. Undisturbed(e, o)'
    BY <1>1, <1>3, <1>4, <1>6, <1>8, <2>1, <2>2
       DEF Undisturbed, OnlyOpen, NothingOpen, Chasing
  <2> QED BY <2>3, <2>4
<1> QED BY <1>1, <1>5, <1>6, <1>7, <1>8, ChaseKeeps

LEMMA CancelStep ==
  ASSUME Inv, TypeOK', NEW e \in Executors, ChaseCancel(e) \/ ChaseCancelFails(e)
  PROVE  Handled'
<1> DEFINE o == job[e]
<1>1. phase[e] = "poll" /\ Remaining(e) > 0
      /\ UNCHANGED <<row, old, partial, job, round, filled, moved, traded, disturbed>>
  BY DEF ChaseCancel, ChaseCancelFails, Steps, rows
<1>2. o \in Orders /\ Want[o] \in Nat /\ filled[e] \in Nat
      /\ Remaining(e) \in Int /\ Remaining(e) = Want[o] - filled[e]
      /\ round[e] \in Rounds /\ row[o] = "PLACED" /\ ~ old[o]
  BY <1>1, JobType DEF AtWork
<1>3. traded[o] \in Nat /\ moved[e] \in Int
      /\ \A m \in Rounds : open[o][m] \in Nat /\ open'[o][m] \in Nat
  BY <1>1, <1>2 DEF Inv, TypeOK
<1>4. ~ disturbed[o] =>
        /\ moved[e] = traded[o] /\ filled[e] <= traded[o]
        /\ \A m \in Rounds : m # round[e] => open[o][m] = 0
        /\ traded[o] + open[o][round[e]] = Want[o]
  BY <1>1, JobType DEF Undisturbed, OnlyOpen, Chasing
<1>5. /\ Withdrawal(e) \/ open'[o][round[e]] = open[o][round[e]]
      /\ Withdrawal(e) => open'[o][round[e]] =
                            IF open[o][round[e]] > Remaining(e)
                            THEN open[o][round[e]] - Remaining(e) ELSE 0
      /\ \A p \in Orders, m \in Rounds :
           p # o \/ m # round[e] => open'[p][m] = open[p][m]
  <2>1. CASE Withdrawal(e)
    BY <1>1, <2>1, WithdrawnBook
  <2>2. CASE ~ Withdrawal(e)
    BY <2>2 DEF ChaseCancel, ChaseCancelFails
  <2> QED BY <2>1, <2>2
<1>6. /\ \A f \in Executors : f # e => phase'[f] = phase[f]
      /\ \/ phase'[e] = "recheck" /\ Withdrawal(e)
         \/ phase'[e] = "lastlook"
  BY DEF ChaseCancel, ChaseCancelFails, Steps, Inv, TypeOK
<1>7. AtWork(e, o)'
  BY <1>1, <1>2, <1>6 DEF AtWork
<1>8. ASSUME ~ disturbed[o] PROVE Undisturbed(e, o)' /\ OrderFits(o)'
  <2>1. \A m \in Rounds : m # round[e] => open'[o][m] = 0
    BY <1>2, <1>4, <1>5, <1>8
  <2>2. traded[o] + open'[o][round[e]] <= Want[o]
        /\ (Withdrawal(e) => open'[o][round[e]] = 0)
    BY <1>2, <1>3, <1>4, <1>5, <1>8
  <2>3. OrderFits(o)'
    BY <1>1, <1>2, <1>3, <2>1, <2>2 DEF OrderFits
  <2>4. Undisturbed(e, o)'
    BY <1>1, <1>3, <1>4, <1>6, <1>8, <2>1, <2>2
       DEF Undisturbed, OnlyOpen, NothingOpen, Chasing
  <2> QED BY <2>3, <2>4
<1> QED BY <1>1, <1>5, <1>6, <1>7, <1>8, ChaseKeeps

LEMMA LookStep ==
  ASSUME Inv, TypeOK', NEW e \in Executors,
         ChasePoll(e) \/ ChaseRecheck(e) \/ ChaseLastLook(e)
  PROVE  Handled'
<1> DEFINE o == job[e]
<1>1. phase[e] \in {"poll", "recheck", "lastlook"}
      /\ UNCHANGED <<row, old, partial, job, open, moved, traded, disturbed>>
  BY DEF ChasePoll, ChaseRecheck, ChaseLastLook, Steps, rows, broker
<1>2. o \in Orders /\ Want[o] \in Nat /\ Measured(e) \in Nat
      /\ round[e] \in Rounds /\ row[o] = "PLACED" /\ ~ old[o]
  BY <1>1, JobType DEF AtWork
<1>3. traded[o] \in Nat /\ moved[e] \in Int
  BY <1>2 DEF Inv, TypeOK
<1>4. ~ disturbed[o] => Undisturbed(e, o) /\ OrderFits(o) /\ Measured(e) = traded[o]
  BY <1>1, <1>3, JobType DEF Undisturbed, Measured, Chasing
<1>5. /\ \A f \in Executors : f # e =>
           phase'[f] = phase[f] /\ round'[f] = round[f] /\ filled'[f] = filled[f]
      /\ filled'[e] = Measured(e)
  BY DEF ChasePoll, ChaseRecheck, ChaseLastLook, Look, Steps, Inv, TypeOK
<1>6. \/ phase[e] = "poll" /\ phase'[e] = "poll" /\ round'[e] = round[e]
      \/ phase'[e] = "finish" /\ round'[e] = round[e]
      \/ phase[e] = "recheck" /\ phase'[e] = "send" /\ Measured(e) < Want[o]
  <2>1. Want[o] > Measured(e) => Measured(e) < Want[o]
    BY <1>2
  <2> QED BY <2>1 DEF ChasePoll, ChaseRecheck, ChaseLastLook, Steps, Inv, TypeOK
<1>7. AtWork(e, o)'
  BY <1>1, <1>2, <1>5, <1>6 DEF AtWork
<1>8. ASSUME ~ disturbed[o] PROVE Undisturbed(e, o)' /\ OrderFits(o)'
  <2>1. OrderFits(o)'
    BY <1>1, <1>4, <1>8 DEF OrderFits
  <2>2. Undisturbed(e, o)'
    <3>1. CASE phase[e] = "recheck" /\ phase'[e] = "send"
      BY <1>1, <1>3, <1>4, <1>5, <1>8, <3>1
         DEF Undisturbed, OnlyOpen, NothingOpen, Chasing
    <3>2. CASE /\ round'[e] = round[e]
               /\ \/ phase'[e] = "finish"
                  \/ phase[e] = "poll" /\ phase'[e] = "poll"
      BY <1>1, <1>3, <1>4, <1>5, <1>8, <3>2
         DEF Undisturbed, OnlyOpen, NothingOpen, Chasing
    <3> QED BY <1>6, <3>1, <3>2
  <2> QED BY <2>1, <2>2
<1> QED BY <1>1, <1>5, <1>6, <1>7, <1>8, ChaseKeeps

LEMMA QuietStep ==
  ASSUME Inv, TypeOK', NEW e \in Executors,
         NotSent(e) \/ BeginChase(e) \/ ChaseFilled(e) \/ ChaseLookFails(e)
  PROVE  Handled'
<1> DEFINE o == job[e]
<1>1. UNCHANGED <<row, old, partial, job, round, filled, moved, open, traded,
                  disturbed>>
  BY DEF NotSent, BeginChase, ChaseFilled, ChaseLookFails, rows, broker
<1>2. /\ \A f \in Executors : f # e => phase'[f] = phase[f]
      /\ \/ phase[e] = "resolve" /\ phase'[e] \in {"send", "finish"}
         \/ phase[e] \in {"poll", "recheck", "lastlook"} /\ phase'[e] = "finish"
  BY DEF NotSent, BeginChase, ChaseFilled, ChaseLookFails, Steps, Inv, TypeOK
<1>3. o \in Orders /\ Want[o] \in Nat \ {0} /\ AtWork(e, o) /\ round[e] \in Rounds
      /\ (~ disturbed[o] => Undisturbed(e, o) /\ OrderFits(o))
  BY <1>2, JobType
<1>4. AtWork(e, o)'
  BY <1>1, <1>2, <1>3 DEF AtWork
<1>5. ~ disturbed[o] => OrderFits(o)'
  BY <1>1, <1>3 DEF OrderFits
<1>6. ~ disturbed[o] => Undisturbed(e, o)'
  BY <1>1, <1>2, <1>3 DEF AtWork, Undisturbed, NothingOpen, OnlyOpen, Chasing
<1> QED BY <1>1, <1>2, <1>4, <1>5, <1>6, ChaseKeeps

(* The broker executes: while an order is undisturbed its chase finds what *)
(* was executed, and a full or closed order has nothing left to execute.   *)
LEMMA ExecutionStep ==
  ASSUME Inv, TypeOK', NEW o \in Orders, NEW m \in Rounds, Execution(o, m)
  PROVE  Handled'
<1> USE DEF Inv, Handled
<1>1. PICK q \in 1..open[o][m] :
        /\ open' = [open EXCEPT ![o][m] = @ - q]
        /\ traded' = [traded EXCEPT ![o] = @ + q]
        /\ moved' = [e \in Executors |->
                       IF Watches(e, o) THEN moved[e] + Toward(e, o, q)
                                        ELSE moved[e]]
  BY DEF Execution
<1>2. UNCHANGED <<row, old, partial, sideOf, job, phase, round, filled>>
  BY DEF Execution, rows, work
<1>3. /\ open \in [Orders -> [Rounds -> Nat]] /\ traded \in [Orders -> Nat]
      /\ filled \in [Executors -> Nat] /\ moved \in [Executors -> Int]
      /\ Want \in [Orders -> Nat \ {0}] /\ round \in [Executors -> Rounds]
  BY WantAssumption DEF TypeOK
<1>4. q \in Nat /\ 1 <= q /\ q <= open[o][m] /\ open[o][m] \in Nat
  BY <1>1, <1>3
<1>5. /\ traded'[o] = traded[o] + q /\ open'[o][m] = open[o][m] - q
      /\ \A l \in Rounds : l # m => open'[o][l] = open[o][l]
      /\ \A p \in Orders : p # o =>
           traded'[p] = traded[p] /\ \A l \in Rounds : open'[p][l] = open[p][l]
  BY <1>1, <1>3, <1>4
<1>6. \A p \in Orders :
        disturbed'[p] = (disturbed[p] \/ (p # o /\ \E e \in Executors :
                                                     job[e] = p /\ Watches(e, o)))
  BY DEF Execution
<1>7. \A p \in Orders : ~ disturbed'[p] => ~ disturbed[p]
  BY <1>6
<1>8. ~ NothingOpen(o) /\ row[o] \notin {"ABSENT", "PENDING", "CANCELED"}
  BY <1>3, <1>4 DEF NotYetSent, NothingOpen
<1>9. \A p \in Orders : p # o => (NothingOpen(p) => NothingOpen(p)')
  BY <1>5 DEF NothingOpen
<1>10. ASSUME NEW e \in Executors, NEW p \in Orders, job[e] = p
       PROVE  AtWork(e, p)'
  <2>1. AtWork(e, p)
    BY <1>10 DEF Working
  <2>2. CASE phase[e] # "resolve"
    BY <1>2, <2>1, <2>2 DEF AtWork
  <2>3. CASE phase[e] = "resolve"
    <3>1. p # o
      BY <1>8, <2>1, <2>3 DEF AtWork
    <3>2. \A f \in Executors : job[f] = p => f = e
      BY <1>10, OrdersAssumption DEF NeverSendsTwice, OneExecutor
    <3>3. ~ Watches(e, o)
      BY <2>3 DEF Watches, Chasing
    <3>4. ~ disturbed'[p]
      BY <1>6, <2>1, <2>3, <3>2, <3>3 DEF AtWork
    <3>5. moved'[e] = moved[e]
      BY <1>1, <3>3
    <3> QED BY <1>2, <1>5, <1>9, <2>1, <2>3, <3>1, <3>4, <3>5 DEF AtWork
  <2> QED BY <2>2, <2>3
<1>11. ASSUME NEW e \in Executors, NEW p \in Orders, job[e] = p, ~ disturbed'[p]
       PROVE  Undisturbed(e, p)'
  <2>1. Undisturbed(e, p) /\ ~ disturbed[p]
    BY <1>7, <1>11 DEF Working
  <2>2. CASE p # o
    <3>1. ~ Watches(e, o)
      BY <1>6, <1>11, <2>2
    <3>2. moved'[e] = moved[e]
      BY <1>1, <3>1
    <3> QED BY <1>2, <1>3, <1>5, <1>9, <2>1, <2>2, <3>2
            DEF Undisturbed, OnlyOpen, Chasing
  <2>3. CASE p = o
    <3>1. phase[e] \notin {"send", "recheck"}
      BY <1>8, <2>1, <2>3 DEF Undisturbed
    <3>2. m = round[e]
      BY <1>3, <1>4, <2>1, <2>3 DEF Undisturbed, OnlyOpen
    <3>3. OnlyOpen(o, round[e])'
      BY <1>2, <1>5, <2>1, <2>3, <3>2 DEF Undisturbed, OnlyOpen
    <3>4. Chasing(e) => moved'[e] = traded'[o]
      <4>1. ASSUME Chasing(e) PROVE moved'[e] = moved[e] + q
        BY <1>1, <1>11, <2>3, <4>1 DEF Watches, Toward
      <4> QED BY <1>3, <1>4, <1>5, <2>1, <2>3, <4>1 DEF Undisturbed
    <3>5. filled[e] <= traded'[o]
      BY <1>3, <1>4, <1>5, <2>1, <2>3 DEF Undisturbed
    <3>6. phase[e] = "poll" => traded'[o] + open'[o][round[e]] = Want[o]
      BY <1>3, <1>4, <1>5, <2>1, <2>3, <3>2 DEF Undisturbed
    <3> QED BY <1>2, <2>3, <3>1, <3>3, <3>4, <3>5, <3>6 DEF Undisturbed, Chasing
  <2> QED BY <2>2, <2>3
<1>12. ASSUME NEW p \in Orders, ~ disturbed'[p] PROVE OrderFits(p)'
  <2>1. OrderFits(p)
    BY <1>7, <1>12 DEF NeverSendsTwice
  <2>2. CASE p # o
    BY <1>5, <2>1, <2>2 DEF OrderFits
  <2>3. CASE p = o
    <3>1. \A l \in Rounds : l # m => open[o][l] = 0
      BY <1>3, <1>4, <2>1, <2>3 DEF OrderFits
    <3>2. traded[o] + open[o][m] <= Want[o]
      BY <2>1, <2>3 DEF OrderFits
    <3>3. ASSUME NEW l \in Rounds PROVE traded'[o] + open'[o][l] <= Want[o]
      BY <1>3, <1>4, <1>5, <3>1, <3>2
    <3>4. ASSUME NEW k \in Rounds, NEW l \in Rounds,
                 open'[o][k] > 0, open'[o][l] > 0
          PROVE  k = l
      BY <1>5, <3>1, <3>4
    <3> QED BY <2>3, <3>3, <3>4 DEF OrderFits
  <2> QED BY <2>2, <2>3
<1>13. Working'
  <2>1. ASSUME NEW e \in Executors, job[e] = NoOrder PROVE moved'[e] = moved[e]
    <3>1. phase[e] = "idle"
      BY <2>1 DEF Working
    <3> QED BY <1>1, <3>1 DEF Watches, Chasing
  <2> QED BY <1>2, <1>10, <1>11, <2>1 DEF Working
<1>14. NotYetSent'
  <2>1. ASSUME NEW p \in Orders, row[p] \in {"ABSENT", "PENDING", "CANCELED"}
        PROVE  p # o /\ ~ disturbed'[p]
    <3>1. p # o /\ ~ disturbed[p]
      BY <1>8, <2>1 DEF NotYetSent
    <3>2. \A e \in Executors : job[e] # p
      BY <2>1 DEF Working, AtWork
    <3> QED BY <1>6, <3>1, <3>2
  <2> QED BY <1>2, <1>5, <1>9, <2>1 DEF NotYetSent
<1>15. FilledIsTrue'
  <2>1. ASSUME NEW p \in Orders, row[p] = "FILLED", ~ disturbed'[p]
        PROVE  traded'[p] > 0 /\ (~ partial[p] => traded'[p] = Want[p])
    <3>1. traded[p] > 0 /\ (~ partial[p] => traded[p] = Want[p])
      BY <1>7, <2>1 DEF FilledIsTrue
    <3>2. CASE p # o
      BY <1>5, <3>1, <3>2
    <3>3. CASE p = o
      <4>1. traded[o] + open[o][m] <= Want[o]
        BY <1>7, <2>1, <3>3 DEF NeverSendsTwice, OrderFits
      <4>2. traded[o] \in Nat /\ Want[o] \in Nat
        BY <1>3
      <4>3. traded[o] < Want[o]
        BY <1>4, <4>1, <4>2
      <4>4. partial[p]
        BY <3>1, <3>3, <4>2, <4>3
      <4>5. traded'[p] > 0
        BY <1>4, <1>5, <3>3, <4>2
      <4> QED BY <4>4, <4>5
    <3> QED BY <3>2, <3>3
  <2> QED BY <1>2, <2>1 DEF FilledIsTrue
<1>16. OneExecutor'
  BY <1>2 DEF NeverSendsTwice, OneExecutor
<1> QED BY <1>12, <1>13, <1>14, <1>15, <1>16 DEF NeverSendsTwice

(* The steps that write rows. *)
LEMMA RequestStep ==
  ASSUME Inv, TypeOK', NEW o \in Orders,
         \/ \E s \in SidesOf[o], now \in BOOLEAN : Create(o, s, now)
         \/ BecomesDue(o) \/ CancelOrder(o) \/ GrowsOld(o)
  PROVE  Handled'
<1> USE DEF Inv, Handled
<1>1. UNCHANGED <<partial, job, phase, round, filled, moved, open, traded, disturbed>>
  BY DEF Create, BecomesDue, CancelOrder, GrowsOld, work, broker
<1>2. /\ \A p \in Orders : p # o => row'[p] = row[p] /\ old'[p] = old[p]
      /\ \/ row[o] \in {"ABSENT", "PENDING"} /\ row'[o] \in {"PENDING", "CANCELED"}
            /\ old'[o] = old[o]
         \/ row[o] = "PLACED" /\ row'[o] = row[o] /\ \A e \in Executors : job[e] # o
  BY DEF Create, BecomesDue, CancelOrder, GrowsOld, TypeOK
<1>3. ASSUME NEW e \in Executors, NEW p \in Orders, job[e] = p
      PROVE  p # o /\ row'[p] = row[p] /\ old'[p] = old[p]
  <2>1. row[p] = "PLACED"
    BY <1>3 DEF Working, AtWork
  <2> QED BY <1>2, <1>3, <2>1
<1>4. Working'
  <2>1. ASSUME NEW e \in Executors, NEW p \in Orders, job[e] = p
        PROVE  AtWork(e, p)' /\ (~ disturbed'[p] => Undisturbed(e, p)')
    <3>1. AtWork(e, p) /\ (~ disturbed[p] => Undisturbed(e, p))
      BY <2>1 DEF Working
    <3> QED BY <1>1, <1>3, <2>1, <3>1
            DEF AtWork, Undisturbed, NothingOpen, OnlyOpen, Chasing
  <2> QED BY <1>1, <2>1 DEF Working
<1>5. NotYetSent'
  BY <1>1, <1>2 DEF NotYetSent, NothingOpen
<1>6. NeverSendsTwice'
  BY <1>1 DEF NeverSendsTwice, OneExecutor, OrderFits
<1>7. FilledIsTrue'
  BY <1>1, <1>2 DEF FilledIsTrue
<1> QED BY <1>4, <1>5, <1>6, <1>7

LEMMA StartStep ==
  ASSUME Inv, TypeOK', NEW e \in Executors, Start(e) \/ StartFails(e)
  PROVE  Handled'
<1> USE DEF Inv, Handled
<1>1. UNCHANGED <<old, partial, work, broker>>
  BY DEF Start, StartFails, rows
<1>2. \A o \in Orders :
        \/ row'[o] = row[o]
        \/ row[o] = "PLACED" /\ old[o] /\ row'[o] = "FAILED"
  <2>1. CASE Start(e)
    <3>1. \A o \in Orders : row'[o] = IF o \in Orphans THEN "FAILED" ELSE row[o]
      BY <2>1 DEF Start
    <3>2. \A o \in Orphans : row[o] = "PLACED" /\ old[o]
      BY Zenon DEF Orphans
    <3> QED BY <3>1, <3>2, Zenon
  <2>2. CASE StartFails(e)
    BY <2>2 DEF StartFails, rows
  <2> QED BY <2>1, <2>2
<1>3. ASSUME NEW f \in Executors, NEW p \in Orders, job[f] = p
      PROVE  AtWork(f, p)' /\ (~ disturbed'[p] => Undisturbed(f, p)')
  <2>1. AtWork(f, p) /\ (~ disturbed[p] => Undisturbed(f, p))
    BY <1>3 DEF Working
  <2>2. row'[p] = row[p]
    BY <1>2, <2>1, Zenon DEF AtWork
  <2> QED BY <1>1, <2>1, <2>2
          DEF AtWork, Undisturbed, NothingOpen, OnlyOpen, Chasing, work, broker
<1>4. Working'
  BY <1>1, <1>3 DEF Working, work, broker
<1>5. NotYetSent' /\ FilledIsTrue'
  BY <1>1, <1>2 DEF NotYetSent, FilledIsTrue, NothingOpen, broker
<1>6. NeverSendsTwice'
  BY <1>1 DEF NeverSendsTwice, OneExecutor, OrderFits, work, broker
<1> QED BY <1>4, <1>5, <1>6

LEMMA ClaimStep ==
  ASSUME Inv, TypeOK', NEW e \in Executors, NEW o \in Orders,
         Claim(e, o) \/ ClaimLost(e, o)
  PROVE  Handled'
<1> USE DEF Inv, Handled
<1>1. /\ row[o] = "PENDING" /\ phase[e] = "idle"
      /\ UNCHANGED <<partial, round, filled, moved, open, traded, disturbed>>
  BY DEF Claim, ClaimLost, Claimed, work, broker
<1>2. /\ \A p \in Orders : p # o => row'[p] = row[p] /\ old'[p] = old[p]
      /\ row'[o] = "PLACED" /\ ~ old'[o]
  BY DEF Claim, ClaimLost, Claimed, TypeOK
<1>3. /\ \A f \in Executors : f # e => job'[f] = job[f] /\ phase'[f] = phase[f]
      /\ \/ job'[e] = o /\ phase'[e] = "resolve"
         \/ job'[e] = job[e] /\ phase'[e] = phase[e]
  BY DEF Claim, ClaimLost, Claimed, work, TypeOK
<1>4. /\ traded[o] = 0 /\ NothingOpen(o) /\ ~ disturbed[o]
      /\ \A f \in Executors : job[f] # o
  BY <1>1 DEF NotYetSent, Working, AtWork
<1>5. job[e] = NoOrder /\ filled[e] = 0 /\ moved[e] = 0
  BY <1>1 DEF Working
<1>6. ASSUME NEW f \in Executors, NEW p \in Orders, job'[f] = p
      PROVE  AtWork(f, p)' /\ (~ disturbed'[p] => Undisturbed(f, p)')
  <2>1. CASE p = o
    <3>1. f = e /\ phase'[e] = "resolve"
      BY <1>3, <1>4, <1>5, <1>6, <2>1, OrdersAssumption
    <3>2. AtWork(f, p)'
      BY <1>1, <1>2, <1>4, <1>5, <2>1, <3>1 DEF AtWork, NothingOpen
    <3>3. Undisturbed(f, p)'
      BY <1>1, <1>4, <1>5, <2>1, <3>1
         DEF Undisturbed, NothingOpen, OnlyOpen, Chasing
    <3> QED BY <3>2, <3>3
  <2>2. CASE p # o
    <3>1. f # e /\ job[f] = p
      BY <1>3, <1>5, <1>6, <2>2, OrdersAssumption
    <3>2. AtWork(f, p) /\ (~ disturbed[p] => Undisturbed(f, p))
      BY <3>1 DEF Working
    <3> QED BY <1>1, <1>2, <1>3, <2>2, <3>1, <3>2
            DEF AtWork, Undisturbed, NothingOpen, OnlyOpen, Chasing
  <2> QED BY <2>1, <2>2
<1>7. Working'
  <2>1. ASSUME NEW f \in Executors
        PROVE  /\ phase'[f] = "idle" <=> job'[f] = NoOrder
               /\ job'[f] = NoOrder => filled'[f] = 0 /\ moved'[f] = 0
    BY <1>1, <1>3, OrdersAssumption DEF Working
  <2> QED BY <1>6, <2>1 DEF Working
<1>8. NotYetSent' /\ FilledIsTrue'
  BY <1>1, <1>2 DEF NotYetSent, FilledIsTrue, NothingOpen
<1>9. OneExecutor'
  BY <1>3, <1>4, <1>5, OrdersAssumption DEF NeverSendsTwice, OneExecutor
<1>10. NeverSendsTwice'
  BY <1>1, <1>9 DEF NeverSendsTwice, OrderFits
<1> QED BY <1>7, <1>8, <1>10

LEMMA AllOfIt ==
  ASSUME NEW w \in Nat, NEW x \in Nat, NEW f \in Nat,
         f > 0, f <= x, x <= w, ~ (f \in 1..(w - 1))
  PROVE  x = w
OBVIOUS

LEMMA FinishStep ==
  ASSUME Inv, TypeOK', NEW e \in Executors, Finish(e)
  PROVE  Handled'
<1> DEFINE o == job[e]
<1>1. phase[e] = "finish" /\ Idle(e) /\ UNCHANGED <<old, open, traded, disturbed>>
  BY DEF Finish
<1>2. o \in Orders /\ Want[o] \in Nat /\ filled[e] \in Nat
      /\ (~ disturbed[o] => filled[e] <= traded[o] /\ OrderFits(o))
  BY <1>1, JobType DEF Undisturbed
<1>3. row'[o] = Outcome(e) /\ partial'[o] = (filled[e] \in 1..(Want[o] - 1))
      /\ \A p \in Orders : p # o => row'[p] = row[p] /\ partial'[p] = partial[p]
  BY <1>2 DEF Finish, Inv, TypeOK
<1>4. Outcome(e) \in {"FILLED", "FAILED"} /\ (Outcome(e) = "FILLED" <=> filled[e] > 0)
  BY DEF Outcome
<1>5. ASSUME row'[o] = "FILLED", ~ disturbed[o]
      PROVE  traded[o] > 0 /\ (~ partial'[o] => traded[o] = Want[o])
  <2>1. filled[e] > 0 /\ filled[e] <= traded[o] /\ traded[o] \in Nat
    BY <1>2, <1>3, <1>4, <1>5 DEF Inv, TypeOK
  <2>2. traded[o] <= Want[o]
    <3>1. 1 \in Rounds /\ open[o][1] \in Nat
      BY <1>2, ChaseLimitAssumption DEF Rounds, Inv, TypeOK
    <3>2. traded[o] + open[o][1] <= Want[o]
      BY <1>2, <1>5, <3>1 DEF OrderFits
    <3> QED BY <1>2, <2>1, <3>1, <3>2
  <2>3. ~ (filled[e] \in 1..(Want[o] - 1)) => traded[o] = Want[o]
    BY <1>2, <2>1, <2>2, AllOfIt
  <2>4. traded[o] > 0
    BY <1>2, <2>1
  <2> QED BY <1>3, <2>3, <2>4, Zenon
<1> QED BY <1>1, <1>3, <1>4, <1>5, IdleKeeps

LEMMA StopStep ==
  ASSUME Inv, TypeOK', NEW e \in Executors, Stop(e) \/ FinishFails(e)
  PROVE  Handled'
<1>1. Idle(e) /\ UNCHANGED <<row, old, partial, open, traded, disturbed>>
  BY DEF Stop, FinishFails, rows
<1>2. ASSUME NEW p \in Orders, p = job[e]
      PROVE  row'[p] = "PLACED"
  BY <1>1, <1>2 DEF Inv, Handled, Working, AtWork
<1> QED BY <1>1, <1>2, IdleKeeps

-----------------------------------------------------------------------------
LEMMA HandledStep ==
  ASSUME Inv, TypeOK', [Next]_vars
  PROVE  Handled'
<1>1. CASE UNCHANGED vars
  <2>1. UNCHANGED <<row, old, partial, job, phase, round, filled, moved, open,
                    traded, disturbed>>
    BY <1>1 DEF vars, rows, work, broker
  <2>2. Working' /\ NotYetSent'
    BY <2>1 DEF Inv, Handled, Working, NotYetSent, AtWork, Undisturbed, NothingOpen,
                OnlyOpen, Chasing
  <2>3. NeverSendsTwice' /\ FilledIsTrue'
    BY <2>1 DEF Inv, Handled, NeverSendsTwice, OneExecutor, OrderFits, FilledIsTrue
  <2> QED BY <2>2, <2>3 DEF Handled
<1>2. ASSUME NEW o \in Orders, NEW m \in Rounds, Execution(o, m) PROVE Handled'
  BY <1>2, ExecutionStep
<1>3. ASSUME NEW o \in Orders,
             \/ \E s \in SidesOf[o], now \in BOOLEAN : Create(o, s, now)
             \/ BecomesDue(o) \/ CancelOrder(o) \/ GrowsOld(o)
      PROVE  Handled'
  BY <1>3, RequestStep
<1>4. ASSUME NEW e \in Executors, ChaseStep(e) PROVE Handled'
  BY <1>4, SendStep, CancelStep, LookStep, QuietStep DEF ChaseStep
<1>5. ASSUME NEW e \in Executors,
             Start(e) \/ StartFails(e) \/ Stop(e) \/ Finish(e) \/ FinishFails(e)
             \/ NotSent(e) \/ BeginChase(e)
      PROVE  Handled'
  BY <1>5, StartStep, StopStep, FinishStep, QuietStep
<1>6. ASSUME NEW e \in Executors, NEW o \in Orders, Claim(e, o) \/ ClaimLost(e, o)
      PROVE  Handled'
  BY <1>6, ClaimStep
<1> QED BY <1>1, <1>2, <1>3, <1>4, <1>5, <1>6 DEF Next, Loop

LEMMA InvAlways == Spec => []Inv
<1>1. Inv /\ [Next]_vars => Inv'
  BY TypeStep, HandledStep DEF Inv
<1> QED BY <1>1, InvInit, PTL DEF Spec

-----------------------------------------------------------------------------
(* Every variable stays in its type. *)
THEOREM TypesHold == Spec => []TypeOK
<1>1. Inv => TypeOK
  BY DEF Inv
<1> QED BY <1>1, InvAlways, PTL

(***************************************************************************)
(* No restart, lost answer or second executor sends an order again, unless *)
(* another order of its symbol was executed while it was chased.           *)
(***************************************************************************)
THEOREM NothingIsSentTwice == Spec => []NeverSendsTwice
<1>1. Inv => NeverSendsTwice
  BY DEF Inv, Handled
<1> QED BY <1>1, InvAlways, PTL

(* A confirmed cancellation means that nothing was and will be sent. *)
THEOREM CancelledIsCancelled == Spec => []CancelledNeverTrades
<1>1. Inv => CancelledNeverTrades
  BY DEF Inv, Handled, Working, AtWork, NotYetSent, NothingOpen, CancelledNeverTrades
<1> QED BY <1>1, InvAlways, PTL

(* FILLED rows tell the truth, unless another order of the symbol was      *)
(* executed while theirs was chased.                                       *)
THEOREM FilledIsFilled == Spec => []FilledIsTrue
<1>1. Inv => FilledIsTrue
  BY DEF Inv, Handled
<1> QED BY <1>1, InvAlways, PTL

(* The unconditional writes never overwrite an outcome. *)
THEOREM OutcomesNeverChange == Spec => OutcomesStand
<1> DEFINE Stand == \A o \in Orders : row[o] \in Settled => row'[o] = row[o]
<1>1. ASSUME Inv, [Next]_vars PROVE Stand
  <2>1. ASSUME NEW e \in Executors, Finish(e) PROVE Stand
    <3>1. job[e] \in Orders /\ row[job[e]] = "PLACED"
      BY <1>1, <2>1, JobType DEF Finish, AtWork
    <3> QED BY <1>1, <2>1, <3>1 DEF Finish, Inv, TypeOK, Settled
  <2>2. ASSUME NEW e \in Executors, Start(e) PROVE Stand
    BY <2>2 DEF Start, Orphans, Settled
  <2>3. ASSUME NEW o \in Orders,
               \/ CancelOrder(o)
               \/ \E s \in SidesOf[o], now \in BOOLEAN : Create(o, s, now)
               \/ \E e \in Executors : Claim(e, o) \/ ClaimLost(e, o)
        PROVE  Stand
    BY <1>1, <2>3 DEF CancelOrder, Create, Claim, ClaimLost, Claimed, Settled,
                      Inv, TypeOK
  <2>4. CASE UNCHANGED row
    BY <2>4
  <2>5. ASSUME NEW e \in Executors, ChaseStep(e) PROVE UNCHANGED row
    BY <2>5 DEF ChaseStep, ChaseAccept, ChaseGivesUp, ChasePoll, ChaseFilled,
                ChaseCancel, ChaseCancelFails, ChaseRecheck, ChaseLookFails,
                ChaseLastLook, rows
  <2> QED
    BY <1>1, <2>1, <2>2, <2>3, <2>4, <2>5
       DEF Next, Loop, BecomesDue, GrowsOld, Execution, StartFails, Stop,
           NotSent, BeginChase, FinishFails, rows, vars
<1>2. Inv /\ [Next]_vars => [Stand]_vars
  BY <1>1
<1> QED BY <1>2, InvAlways, PTL DEF Spec, OutcomesStand
=============================================================================
