----------------------- MODULE WeeklyRebalanceProofs -----------------------
(***************************************************************************)
(* Theorems about the weekly runners, for any number of symbols, days and  *)
(* runs a day, and any calendar.                                           *)
(***************************************************************************)
EXTENDS WeeklyRebalanceProps, TLAPS

Flags == ranked \in BOOLEAN /\ aligned \in BOOLEAN

\* TypeOK without the two truth values.
Data ==
  /\ market \in Markets
  /\ day \in Days /\ runs \in 0..RunsPerDay /\ plans \in 0..RunsPerDay
  /\ plans <= runs
  /\ most \in Nat \ {0}
  /\ marker \subseteq Weeks
  /\ held \in [Symbols -> Nat]
  /\ openBuy \in [Symbols -> Nat] /\ openSell \in [Symbols -> Nat]
  /\ pc \in {"idle", "send", "confirm", "mark"}
  /\ before \in [Symbols -> Nat]
  /\ asked \subseteq Symbols /\ buys \subseteq Symbols /\ sells \subseteq Symbols
  /\ accepted \in Nat
  /\ filled \subseteq Symbols
  /\ tradedOn \subseteq Days /\ alignedOn \subseteq Days

LEMMA WeekType == ASSUME day \in Days PROVE Week \in Weeks
BY CalendarAssumption DEF Week, Days

LEMMA FlagsInit == Init => Flags
BY Zenon DEF Init, Flags

LEMMA FlagsStep == Flags /\ [Next]_vars => Flags'
<1> SUFFICES ASSUME Flags, [Next]_vars PROVE Flags'
  OBVIOUS
<1>1. CASE UNCHANGED <<ranked, aligned>>
  BY <1>1, Zenon DEF Flags
<1>2. ASSUME NEW targets \in SUBSET Symbols, Plan(targets) PROVE Flags'
  BY <1>2, Zenon DEF Plan, Flags
<1>3. CASE RunOver
  BY <1>3, Zenon DEF RunOver, Flags
<1>4. CASE UNCHANGED vars
  BY <1>4, <1>1, Zenon DEF vars, plan
<1> QED
  BY <1>1, <1>2, <1>3, <1>4, Zenon
     DEF Next, DayEnds, Skip, RunFails, Execute, SendSell, SendBuy, NotSent,
         ChaseBuy, AllSent, Confirm, ConfirmOver, Mark, RunDies, plan

LEMMA DataInit == Init => Data
BY SizesAssumption DEF Init, Data, Days

LEMMA DataStep == Data /\ [Next]_vars => Data'
<1> SUFFICES ASSUME Data, [Next]_vars PROVE Data'
  OBVIOUS
<1> USE DEF Data, clock, broker, plan, progress, history
<1>0. Lot \in Nat /\ RunsPerDay \in Nat /\ LastDay \in Nat
  BY SizesAssumption
<1>1. CASE UNCHANGED vars
  BY <1>1 DEF vars, Days
<1>2. CASE DayEnds
  BY <1>2, <1>0 DEF DayEnds, Days
<1>3. CASE Skip \/ RunFails
  <2>1. runs < RunsPerDay /\ runs' = runs + 1 /\ plans' = plans
    BY <1>3 DEF Skip, RunFails, Starts
  <2>2. runs' \in 0..RunsPerDay /\ plans' \in 0..RunsPerDay /\ plans' <= runs'
    BY <2>1, <1>0
  <2> QED BY <1>3, <2>2 DEF Skip, RunFails, Days
<1>4. ASSUME NEW targets \in SUBSET Symbols, Plan(targets) PROVE Data'
  <2>1. /\ runs' = runs + 1 /\ plans' = plans + 1 /\ runs < RunsPerDay
        /\ most' = Larger(most, plans + 1)
        /\ UNCHANGED <<market, day, marker, held, openBuy, openSell, tradedOn>>
        /\ before' = held /\ pc' = "send" /\ accepted' = 0 /\ filled' = {}
    BY <1>4 DEF Plan, Starts
  <2>2. buys' \subseteq Symbols /\ sells' \subseteq Symbols
        /\ asked' \subseteq Symbols
    BY <1>4 DEF Plan, Missing, Held
  <2>3. alignedOn' \subseteq Days
    BY <1>4 DEF Plan
  <2>4. runs' \in 0..RunsPerDay /\ plans' \in 0..RunsPerDay
        /\ plans' <= runs' /\ most' \in Nat \ {0}
    BY <2>1, <1>0 DEF Larger
  <2> QED BY <2>1, <2>2, <2>3, <2>4 DEF Days
<1>5. ASSUME NEW s \in Symbols, Execute(s) PROVE Data'
  <2>1. held' \in [Symbols -> Nat] /\ openBuy' \in [Symbols -> Nat]
        /\ openSell' \in [Symbols -> Nat]
    <3>1. CASE \E q \in 1..openBuy[s] :
                 /\ openBuy' = [openBuy EXCEPT ![s] = @ - q]
                 /\ held' = [held EXCEPT ![s] = @ + q]
                 /\ UNCHANGED openSell
      BY <3>1
    <3>2. CASE \E q \in 1..openSell[s] :
                 /\ q <= held[s]
                 /\ openSell' = [openSell EXCEPT ![s] = @ - q]
                 /\ held' = [held EXCEPT ![s] = @ - q]
                 /\ UNCHANGED openBuy
      BY <3>2
    <3> QED BY <1>5, <3>1, <3>2 DEF Execute
  <2> QED BY <1>5, <2>1 DEF Execute, Days
<1>6. ASSUME NEW s \in Symbols, SendSell(s) PROVE Data'
  BY <1>6 DEF SendSell, Days
<1>7. ASSUME NEW s \in Symbols, SendBuy(s) PROVE Data'
  <2>1. openBuy' \in [Symbols -> Nat]
    BY <1>7, <1>0 DEF SendBuy
  <2> QED BY <1>7, <2>1 DEF SendBuy, Days
<1>8. ASSUME NEW s \in Symbols, NotSent(s) PROVE Data'
  BY <1>8 DEF NotSent, Days
<1>9. ASSUME NEW s \in Symbols, NEW e \in 0..Lot, NEW k \in 0..Lot,
             NEW told \in BOOLEAN, ChaseBuy(s, e, k, told)
      PROVE Data'
  <2>1. filled' \subseteq Symbols /\ tradedOn' \subseteq Days
    BY <1>9 DEF ChaseBuy
  <2>2. held' \in [Symbols -> Nat] /\ openBuy' \in [Symbols -> Nat]
    BY <1>9, <1>0 DEF ChaseBuy
  <2> QED BY <1>9, <2>1, <2>2 DEF ChaseBuy, Days
<1>10. CASE AllSent \/ ConfirmOver
  BY <1>10 DEF AllSent, ConfirmOver, Days
<1>11. CASE Confirm
  <2>1. filled' \subseteq Symbols /\ pc' \in {"mark", "confirm"}
    BY <1>11 DEF Confirm, Seen
  <2> QED BY <1>11, <2>1 DEF Confirm, Days
<1>12. CASE Mark \/ RunDies
  <2>1. marker' \subseteq Weeks
    BY <1>12, WeekType DEF Mark, RunDies
  <2>2. /\ UNCHANGED <<market, day, runs, plans, most>>
        /\ UNCHANGED <<held, openBuy, openSell, tradedOn, alignedOn>>
        /\ RunOver
    BY <1>12, Zenon DEF Mark, RunDies
  <2>3. /\ pc' = "idle" /\ accepted' = 0 /\ filled' = {}
        /\ before' = [s \in Symbols |-> 0]
        /\ asked' = {} /\ buys' = {} /\ sells' = {}
    BY <2>2, Zenon DEF RunOver
  <2> QED BY <2>1, <2>2, <2>3 DEF Days
<1> QED
  BY <1>1, <1>2, <1>3, <1>4, <1>5, <1>6, <1>7, <1>8, <1>9, <1>10, <1>11, <1>12
     DEF Next

Typed == Data /\ Flags

LEMMA TypedIsTypeOK == Typed => TypeOK
BY Zenon DEF Typed, Data, Flags, TypeOK

(* Types: holdings and open orders never go below zero. *)
THEOREM WeeklyTypes == Spec => []TypeOK
<1>1. Init => Typed
  BY DataInit, FlagsInit DEF Typed
<1>2. Typed /\ [Next]_vars => Typed'
  BY DataStep, FlagsStep DEF Typed
<1> QED BY <1>1, <1>2, TypedIsTypeOK, PTL DEF Spec

-----------------------------------------------------------------------------
(***************************************************************************)
(* One allocation.  A buy is sent only for a symbol that was not held when *)
(* the run planned, and what other runs of the day have left open for it   *)
(* is at most a lot each.                                                  *)
(***************************************************************************)
Room ==
  /\ \A s \in Symbols : openBuy[s] <= Lot * plans
  /\ pc = "send" =>
       \A s \in buys : held[s] + openBuy[s] + Lot <= Lot * plans
  /\ plans <= most
  /\ OneAllocation

LEMMA Lots ==
  ASSUME NEW a \in Nat, NEW b \in Nat
  PROVE  /\ Lot \in Nat /\ Lot * a \in Nat
         /\ Lot * (a + 1) = Lot * a + Lot
         /\ a <= b => Lot * a <= Lot * b
<1>1. Lot \in Nat /\ Lot * a \in Nat /\ Lot * (a + 1) = Lot * a + Lot
  BY SizesAssumption
<1>2. ASSUME a <= b PROVE Lot * a <= Lot * b
  <2>1. b - a \in Nat /\ b = a + (b - a)
    BY <1>2
  <2>2. Lot * b = Lot * a + Lot * (b - a) /\ Lot * (b - a) \in Nat
    BY <2>1, <1>1
  <2> QED BY <2>2, <1>1
<1> QED BY <1>1, <1>2

LEMMA RoomInit == Init => Room
<1> SUFFICES ASSUME Init PROVE Room
  OBVIOUS
<1>1. Lot \in Nat
  BY SizesAssumption
<1>2. \A s \in Symbols : held[s] \in {0, Lot} /\ openBuy[s] = 0
  BY DEF Init
<1>3. plans = 0 /\ most = 1 /\ pc = "idle"
  BY DEF Init
<1>4. Lot * 0 = 0 /\ Lot * 1 = Lot
  BY <1>1
<1> QED BY <1>1, <1>2, <1>3, <1>4 DEF Room, OneAllocation

LEMMA RoomStep == Data /\ Room /\ [Next]_vars => Room'
<1> SUFFICES ASSUME Data, Room, [Next]_vars PROVE Room'
  OBVIOUS
<1> DEFINE Open == \A s \in Symbols : openBuy[s] <= Lot * plans
           Sending == pc = "send" =>
             \A s \in buys : held[s] + openBuy[s] + Lot <= Lot * plans
<1>a. /\ plans \in Nat /\ most \in Nat /\ plans <= most
      /\ Lot \in Nat /\ Lot * plans \in Nat /\ Lot * most \in Nat
      /\ Lot * plans <= Lot * most
      /\ buys \subseteq Symbols
  <2>1. RunsPerDay \in Nat
    BY SizesAssumption
  <2>2. plans \in Nat /\ most \in Nat /\ plans <= most /\ buys \subseteq Symbols
    BY <2>1 DEF Data, Room
  <2> QED BY <2>2, Lots
<1>b. \A s \in Symbols : held[s] \in Nat /\ openBuy[s] \in Nat
  BY DEF Data
<1>c. Open /\ Sending /\ OneAllocation
  BY DEF Room
<1> HIDE DEF Open, Sending
<1>d. ASSUME Open', Sending', OneAllocation', UNCHANGED <<plans, most>>
      PROVE Room'
  BY <1>d, <1>a DEF Room, Open, Sending
<1>1. CASE UNCHANGED <<plans, most, held, openBuy>>
           /\ (pc' = "send" => pc = "send" /\ buys' \subseteq buys)
  <2>1. Open' /\ Sending' /\ OneAllocation'
    BY <1>1, <1>c DEF Open, Sending, OneAllocation
  <2> QED BY <1>1, <1>d, <2>1
<1>2. CASE UNCHANGED vars
  BY <1>2, <1>1 DEF vars, clock, broker, progress
<1>3. CASE DayEnds
  <2>1. /\ plans' = 0 /\ most' = most /\ held' = held /\ pc' = "idle"
        /\ \A s \in Symbols : openBuy'[s] = 0
    BY <1>3 DEF DayEnds
  <2>2. \A s \in Symbols : held[s] <= Lot * most
    BY <1>a, <1>b, <1>c DEF OneAllocation
  <2>3. Lot * 0 = 0
    BY <1>a
  <2> QED BY <2>1, <2>2, <2>3, <1>a, <1>b DEF Room, OneAllocation
<1>4. ASSUME NEW targets \in SUBSET Symbols, Plan(targets) PROVE Room'
  <2>1. /\ plans' = plans + 1 /\ most' = Larger(most, plans + 1)
        /\ UNCHANGED <<held, openBuy>>
        /\ buys' \subseteq Symbols \ Held
    BY <1>4 DEF Plan, Missing, broker
  <2>2. most' \in Nat /\ plans' \in Nat /\ most <= most' /\ plans' <= most'
    BY <2>1, <1>a DEF Larger
  <2>3. /\ Lot * plans' = Lot * plans + Lot
        /\ Lot * most \in Nat /\ Lot * most' \in Nat
        /\ Lot * most <= Lot * most'
    BY <2>1, <2>2, <1>a, Lots
  <2>4. Open'
    BY <2>1, <2>3, <1>a, <1>b, <1>c DEF Open
  <2>5. Sending'
    BY <2>1, <2>3, <1>a, <1>b, <1>c DEF Open, Sending, Held
  <2>6. OneAllocation'
    BY <2>1, <2>3, <1>a, <1>b, <1>c DEF OneAllocation
  <2> QED BY <2>2, <2>4, <2>5, <2>6 DEF Room, Open, Sending
<1>5. ASSUME NEW s \in Symbols, Execute(s) PROVE Room'
  <2>1. UNCHANGED <<plans, most, pc, buys>>
    BY <1>5 DEF Execute, clock, progress
  <2>2. \A r \in Symbols : /\ openBuy'[r] <= openBuy[r]
                           /\ held'[r] + openBuy'[r] <= held[r] + openBuy[r]
                           /\ held'[r] \in Int /\ openBuy'[r] \in Int
    <3>1. CASE \E q \in 1..openBuy[s] :
                 /\ openBuy' = [openBuy EXCEPT ![s] = @ - q]
                 /\ held' = [held EXCEPT ![s] = @ + q]
                 /\ UNCHANGED openSell
      BY <3>1 DEF Data
    <3>2. CASE \E q \in 1..openSell[s] :
                 /\ q <= held[s]
                 /\ openSell' = [openSell EXCEPT ![s] = @ - q]
                 /\ held' = [held EXCEPT ![s] = @ - q]
                 /\ UNCHANGED openBuy
      BY <3>2 DEF Data
    <3> QED BY <1>5, <3>1, <3>2 DEF Execute
  <2>3. Open'
    BY <2>1, <2>2, <1>a, <1>b, <1>c DEF Open
  <2>4. Sending'
    BY <2>1, <2>2, <1>a, <1>b, <1>c DEF Sending
  <2>5. OneAllocation'
    BY <2>1, <2>2, <1>a, <1>b, <1>c DEF OneAllocation
  <2> QED BY <2>1, <2>3, <2>4, <2>5, <1>d
<1>6. ASSUME NEW s \in Symbols, NEW e \in Nat, NEW k \in Nat, e + k <= Lot,
             s \in buys, pc = "send", UNCHANGED <<plans, most, pc>>,
             held' = [held EXCEPT ![s] = @ + e],
             openBuy' = [openBuy EXCEPT ![s] = @ + k],
             buys' = buys \ {s}
      PROVE Room'
  <2>1. /\ held'[s] = held[s] + e /\ openBuy'[s] = openBuy[s] + k
        /\ \A r \in Symbols \ {s} : held'[r] = held[r] /\ openBuy'[r] = openBuy[r]
    BY <1>6 DEF Data
  <2>2. held'[s] + openBuy'[s] <= Lot * plans
    BY <1>6, <2>1, <1>a, <1>b, <1>c DEF Sending
  <2>3. Open'
    BY <1>6, <2>1, <2>2, <1>a, <1>b, <1>c DEF Open
  <2>4. Sending'
    BY <1>6, <2>1, <1>a, <1>b, <1>c DEF Sending
  <2>5. OneAllocation'
    BY <1>6, <2>1, <2>2, <1>a, <1>b, <1>c DEF OneAllocation
  <2> QED BY <1>6, <2>3, <2>4, <2>5, <1>d
<1>7. ASSUME NEW s \in Symbols, SendBuy(s) PROVE Room'
  <2>1. PICK q \in 1..Lot : openBuy' = [openBuy EXCEPT ![s] = @ + q]
    BY <1>7 DEF SendBuy
  <2>2. held' = [held EXCEPT ![s] = @ + 0]
    BY <1>7 DEF SendBuy, Data
  <2>3. /\ s \in buys /\ pc = "send" /\ UNCHANGED <<plans, most, pc>>
        /\ buys' = buys \ {s}
    BY <1>7 DEF SendBuy, clock
  <2>4. q \in Nat /\ 0 \in Nat /\ 0 + q <= Lot
    BY <1>a
  <2> QED BY <1>6, <2>1, <2>2, <2>3, <2>4
<1>8. ASSUME NEW s \in Symbols, NEW e \in 0..Lot, NEW k \in 0..Lot,
             NEW told \in BOOLEAN, ChaseBuy(s, e, k, told)
      PROVE Room'
  <2>1. /\ s \in buys /\ pc = "send" /\ UNCHANGED <<plans, most, pc>>
        /\ held' = [held EXCEPT ![s] = @ + e]
        /\ openBuy' = [openBuy EXCEPT ![s] = @ + k]
        /\ buys' = buys \ {s} /\ e + k \in 1..Lot
    BY <1>8 DEF ChaseBuy, clock
  <2>2. e \in Nat /\ k \in Nat /\ e + k <= Lot
    BY <2>1, <1>a
  <2> QED BY <1>6, <2>1, <2>2
<1>9. ASSUME NEW s \in Symbols, SendSell(s) \/ NotSent(s) PROVE Room'
  BY <1>9, <1>1 DEF SendSell, NotSent, clock, broker
<1>10. CASE Skip \/ RunFails
  BY <1>10, <1>1 DEF Skip, RunFails, broker, progress
<1>11. CASE AllSent \/ Confirm \/ ConfirmOver
  <2>1. UNCHANGED <<plans, most, held, openBuy>> /\ pc' # "send"
    BY <1>11 DEF AllSent, Confirm, ConfirmOver, clock, broker
  <2> QED BY <2>1, <1>1
<1>12. CASE Mark \/ RunDies
  <2>1. UNCHANGED <<plans, most, held, openBuy>> /\ RunOver
    BY <1>12, Zenon DEF Mark, RunDies, clock, broker
  <2>2. pc' = "idle"
    BY <2>1, Zenon DEF RunOver
  <2> QED BY <2>1, <2>2, <1>1
<1> QED
  BY <1>2, <1>3, <1>4, <1>5, <1>7, <1>8, <1>9, <1>10, <1>11, <1>12 DEF Next

(* A symbol holds or has on order at most one lot for each planning run of *)
(* a single day, through lost answers, late executions and runs that die.  *)
THEOREM WeeklyAllocation == Spec => []OneAllocation
<1>1. Init => Data /\ Room
  BY DataInit, RoomInit
<1>2. Data /\ Room /\ [Next]_vars => (Data /\ Room)'
  BY DataStep, RoomStep
<1>3. Room => OneAllocation
  BY DEF Room
<1> QED BY <1>1, <1>2, <1>3, PTL DEF Spec

-----------------------------------------------------------------------------
(***************************************************************************)
(* The marker.  A run only goes on in a week that is not marked, and marks *)
(* it at its end for what changed in the holdings since it planned.        *)
(***************************************************************************)
Traded == day \in tradedOn

Earned ==
  /\ pc # "idle" => Week \notin marker
  /\ pc # "idle" /\ ~Traded => \A s \in Symbols : held[s] = before[s]
  /\ pc # "idle" /\ ~Traded => filled = {}
  /\ pc # "idle" /\ ranked /\ aligned => day \in alignedOn
  /\ MarkerIsEarned

LEMMA EarnedInit == Init => Earned
BY Zenon DEF Init, Earned, MarkerIsEarned

LEMMA EarnedStep == Data /\ Earned /\ [Next]_vars => Earned'
<1> SUFFICES ASSUME Data, Earned, [Next]_vars PROVE Earned'
  OBVIOUS
<1> USE DEF Earned, Traded
\* Whatever is marked stays earned.
<1>0. ASSUME marker' = marker, tradedOn \subseteq tradedOn',
             alignedOn \subseteq alignedOn'
      PROVE MarkerIsEarned'
  BY <1>0 DEF MarkerIsEarned
\* Nothing of it changes.
<1>1. ASSUME UNCHANGED <<day, marker, held, before, filled, ranked, aligned>>,
             UNCHANGED history, pc' # "idle" => pc # "idle"
      PROVE Earned'
  <2>1. UNCHANGED <<tradedOn, alignedOn>> /\ Week' = Week
    BY <1>1, Zenon DEF history, Week
  <2>2. MarkerIsEarned'
    BY <1>1, <2>1, <1>0
  <2> QED BY <1>1, <2>1, <2>2, Zenon
<1>2. CASE UNCHANGED vars
  BY <1>2, <1>1, Zenon DEF vars, clock, broker, plan, progress
<1>3. CASE DayEnds
  <2>1. UNCHANGED <<marker, tradedOn, alignedOn>> /\ pc' = "idle"
    BY <1>3, Zenon DEF DayEnds, history
  <2> QED BY <2>1, <1>0
<1>4. ASSUME NEW targets \in SUBSET Symbols, Plan(targets) PROVE Earned'
  <2>1. /\ Week \notin marker /\ marker' = marker /\ Week' = Week
        /\ before' = held /\ held' = held /\ filled' = {}
        /\ tradedOn' = tradedOn /\ day' = day
    BY <1>4, Zenon DEF Plan, Guard, broker, Week
  <2>2. alignedOn' = IF asked' = {} /\ targets # {} THEN alignedOn \union {day}
                     ELSE alignedOn
    BY <1>4, Zenon DEF Plan
  <2>3. ranked' /\ aligned' => asked' = {} /\ targets # {}
    BY <1>4, Zenon DEF Plan
  <2>4. ranked' /\ aligned' => day' \in alignedOn'
    BY <2>1, <2>2, <2>3
  <2>5. MarkerIsEarned'
    BY <2>1, <2>2, <1>0
  <2> QED BY <2>1, <2>4, <2>5, Zenon
<1>5. ASSUME NEW s \in Symbols, Execute(s) PROVE Earned'
  <2>1. /\ UNCHANGED <<day, marker, ranked, aligned, alignedOn, pc>>
        /\ tradedOn' = tradedOn \union {day} /\ Week' = Week
    BY <1>5, Zenon DEF Execute, clock, plan, Week
  <2>2. day' \in tradedOn' /\ MarkerIsEarned'
    BY <2>1, <1>0
  <2> QED BY <2>1, <2>2, Zenon
<1>6. ASSUME NEW s \in Symbols, SendSell(s) \/ SendBuy(s) \/ NotSent(s)
      PROVE Earned'
  BY <1>6, <1>1, Zenon DEF SendSell, SendBuy, NotSent, clock, plan, broker
<1>7. ASSUME NEW s \in Symbols, NEW e \in 0..Lot, NEW k \in 0..Lot,
             NEW told \in BOOLEAN, ChaseBuy(s, e, k, told)
      PROVE Earned'
  <2>1. UNCHANGED <<day, marker, ranked, aligned, before, alignedOn, pc>>
        /\ Week' = Week
    BY <1>7, Zenon DEF ChaseBuy, clock, plan, Week
  <2>2. CASE e > 0
    <3>1. tradedOn' = tradedOn \union {day}
      BY <1>7, <2>2, Zenon DEF ChaseBuy
    <3>2. day' \in tradedOn' /\ MarkerIsEarned'
      BY <2>1, <3>1, <1>0
    <3> QED BY <2>1, <3>2, Zenon
  <2>3. CASE ~(e > 0)
    <3>1. tradedOn' = tradedOn /\ ~told /\ filled' = filled
      BY <1>7, <2>3, Zenon DEF ChaseBuy
    <3>2. e = 0
      BY <2>3, SizesAssumption
    <3>3. held' = held
      BY <1>7, <3>2 DEF ChaseBuy, Data
    <3>4. MarkerIsEarned'
      BY <2>1, <3>1, <1>0
    <3> QED BY <2>1, <3>1, <3>3, <3>4, Zenon
  <2> QED BY <2>2, <2>3
<1>8. CASE Confirm
  <2>1. /\ UNCHANGED <<day, marker, ranked, aligned, before, held>>
        /\ UNCHANGED <<tradedOn, alignedOn>>
        /\ filled' = Seen /\ Week' = Week /\ pc = "confirm"
    BY <1>8, Zenon DEF Confirm, clock, plan, broker, history, Week
  <2>2. pc # "idle"
    BY <2>1
  <2>3. day \notin tradedOn => Seen = {}
    BY <2>2 DEF Seen, Data
  <2>4. MarkerIsEarned'
    BY <2>1, <1>0
  <2> QED BY <2>1, <2>2, <2>3, <2>4, Zenon
<1>9. CASE AllSent \/ ConfirmOver \/ Skip \/ RunFails
  <2>1. pc # "idle" \/ pc' = "idle"
    BY <1>9 DEF AllSent, ConfirmOver, Skip, RunFails, Starts
  <2> QED
    BY <1>9, <2>1, <1>1, Zenon
       DEF AllSent, ConfirmOver, Skip, RunFails, clock, plan, broker, progress
<1>10. CASE Mark
  <2>1. /\ pc' = "idle" /\ UNCHANGED <<tradedOn, alignedOn>>
        /\ marker' = IF Completed THEN marker \union {Week} ELSE marker
    BY <1>10, Zenon DEF Mark, RunOver, history
  <2>2. pc # "idle"
    BY <1>10 DEF Mark
  <2>3. Completed => day \in tradedOn \union alignedOn
    BY <2>2, Zenon DEF Completed
  <2>4. MarkerIsEarned'
    BY <2>1, <2>3 DEF MarkerIsEarned, Week
  <2> QED BY <2>1, <2>4
<1>11. CASE RunDies
  <2>1. pc' = "idle" /\ UNCHANGED <<marker, tradedOn, alignedOn>>
    BY <1>11, Zenon DEF RunDies, RunOver, history
  <2> QED BY <2>1, <1>0
<1> QED
  BY <1>2, <1>3, <1>4, <1>5, <1>6, <1>7, <1>8, <1>9, <1>10, <1>11, Zenon DEF Next

(* A week is marked only for an execution in it or a plan that was already *)
(* met, never for an order that was only accepted.                         *)
THEOREM WeeklyMarker == Spec => []MarkerIsEarned
<1>1. Init => Data /\ Earned
  BY DataInit, EarnedInit
<1>2. Data /\ Earned /\ [Next]_vars => (Data /\ Earned)'
  BY DataStep, EarnedStep
<1>3. Earned => MarkerIsEarned
  BY DEF Earned
<1> QED BY <1>1, <1>2, <1>3, PTL DEF Spec

(* A week that is marked sees no further order. *)
THEOREM WeeklyQuiet == Spec => QuietOnceMarked
<1> DEFINE MoreOpen == \E s \in Symbols :
             openBuy'[s] > openBuy[s] \/ openSell'[s] > openSell[s]
<1>1. Data /\ Earned /\ [Next]_vars => (MoreOpen => Week \notin marker)
  <2> SUFFICES ASSUME Data, Earned, [Next]_vars, MoreOpen
               PROVE Week \notin marker
    OBVIOUS
  <2>1. CASE pc # "idle"
    BY <2>1 DEF Earned
  <2>2. CASE pc = "idle"
    <3>0. \A s \in Symbols : openBuy[s] \in Nat /\ openSell[s] \in Nat
      BY DEF Data
    <3>1. CASE UNCHANGED <<openBuy, openSell>>
      BY <3>0, <3>1
    <3>2. CASE DayEnds
      BY <3>0, <3>2 DEF DayEnds
    <3>3. ASSUME NEW s \in Symbols, Execute(s) PROVE FALSE
      <4>1. CASE \E q \in 1..openBuy[s] :
                   /\ openBuy' = [openBuy EXCEPT ![s] = @ - q]
                   /\ UNCHANGED openSell
        BY <3>0, <4>1 DEF Data
      <4>2. CASE \E q \in 1..openSell[s] :
                   /\ openSell' = [openSell EXCEPT ![s] = @ - q]
                   /\ UNCHANGED openBuy
        BY <3>0, <4>2 DEF Data
      <4> QED BY <3>3, <4>1, <4>2 DEF Execute
    <3>4. ASSUME NEW targets \in SUBSET Symbols, Plan(targets) PROVE FALSE
      <4>1. UNCHANGED <<openBuy, openSell>>
        BY <3>4, Zenon DEF Plan, broker
      <4> QED BY <3>0, <4>1
    <3>5. CASE Skip \/ RunFails
      BY <3>1, <3>5 DEF Skip, RunFails, broker
    <3>6. CASE UNCHANGED vars
      BY <3>1, <3>6 DEF vars, broker
    <3>7. \/ DayEnds \/ Skip \/ RunFails \/ UNCHANGED vars
          \/ \E targets \in SUBSET Symbols : Plan(targets)
          \/ \E s \in Symbols : Execute(s)
      BY <2>2 DEF Next, SendSell, SendBuy, NotSent, ChaseBuy, AllSent, Confirm,
                  ConfirmOver, Mark, RunDies
    <3> QED BY <3>2, <3>3, <3>4, <3>5, <3>6, <3>7
  <2> QED BY <2>1, <2>2
<1>2. Data /\ Earned /\ [Next]_vars
        => [\A s \in Symbols :
              openBuy'[s] > openBuy[s] \/ openSell'[s] > openSell[s]
                => Week \notin marker]_vars
  BY <1>1, Zenon
<1>3. Init => Data /\ Earned
  BY DataInit, EarnedInit
<1>4. Data /\ Earned /\ [Next]_vars => (Data /\ Earned)'
  BY DataStep, EarnedStep
<1> QED BY <1>2, <1>3, <1>4, PTL DEF Spec, QuietOnceMarked
=============================================================================
