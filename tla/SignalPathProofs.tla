-------------------------- MODULE SignalPathProofs --------------------------
(***************************************************************************)
(* Proofs about the signal path, for any roster, symbols, accounts, prices *)
(* and number of restarts.  The worker feeds its loads the close of the    *)
(* day it says; an account never has two orders of a symbol waiting, nor   *)
(* more on sale than it holds; what decide buys is covered by the cash,    *)
(* fee and rounding included; and no scoring takes all weight from a load. *)
(***************************************************************************)
EXTENDS SignalPath, WellFoundedInduction, FiniteSetTheorems, SequenceTheorems, TLAPS

LEMMA ActKeepsOne ==
  ASSUME OneOrderEach, NEW a \in Accounts, RebalanceAccount(a)
  PROVE  OneOrderEach'
<1>1. CASE Decision(a) = None
  BY <1>1 DEF RebalanceAccount, OneOrderEach
<1>2. CASE Decision(a) # None
  <2>1. ~ HasPending(a, cmd.sym)
    BY <1>2 DEF Decision
  <2> DEFINE new == [account |-> a, sym |-> cmd.sym, w |-> cmd.w,
                     side |-> Decision(a).side, qty |-> Decision(a).qty,
                     at |-> cmd.prices]
  <2>2. orders' = orders \union {new} /\ new.account = a /\ new.sym = cmd.sym
    BY <1>2 DEF RebalanceAccount
  <2> HIDE DEF new
  <2>3. \A o \in orders : ~ (o.account = new.account /\ o.sym = new.sym)
    BY <2>1, <2>2 DEF HasPending
  <2> QED
    BY <2>2, <2>3 DEF OneOrderEach
<1> QED
  BY <1>1, <1>2

(***************************************************************************)
(* However often the commander restarts in the middle of an act and acts   *)
(* on the same bar again, and however late orders are executed             *)
(* (commander._has_pending).                                               *)
(***************************************************************************)
THEOREM OneOrderAtATime == Spec => []OneOrderEach
<1>1. Init => OneOrderEach
  BY DEF Init, OneOrderEach
<1>2. ASSUME OneOrderEach, [Next]_vars
      PROVE  OneOrderEach'
  <2>1. CASE \E a \in Accounts : RebalanceAccount(a)
    BY <1>2, <2>1, ActKeepsOne
  <2>2. CASE \E o \in orders : Execute(o)
    BY <1>2, <2>2 DEF Execute, OneOrderEach
  <2>3. CASE UNCHANGED orders
    BY <1>2, <2>3 DEF OneOrderEach
  <2> QED
    BY <1>2, <2>1, <2>2, <2>3
       DEF Next, OnTick, Trade, Midnight, RollUp, Prime, WorkerStops, Read, ActDone,
           CommanderRestarts, Reevaluate, ledger, vars
<1> QED
  BY <1>1, <1>2, PTL DEF Spec

-----------------------------------------------------------------------------
LEMMA Division ==
  ASSUME NEW n \in Nat, NEW d \in Nat \ {0}
  PROVE  /\ n \div d \in Nat /\ n % d \in Nat /\ n % d < d
         /\ n = (n \div d) * d + (n % d)
OBVIOUS

LEMMA Regroup ==
  ASSUME NEW a \in Nat, NEW b \in Nat, NEW c \in Nat
  PROVE  a * (b * c) = b * (a * c) /\ a * ((b + 1) * c) = b * (a * c) + a * c
OBVIOUS

LEMMA Cancel ==
  ASSUME NEW m \in Nat \ {0}, NEW a \in Int, NEW b \in Int, m * a <= m * b
  PROVE  a <= b
<1> SUFFICES ASSUME a > b PROVE FALSE
  OBVIOUS
<1>1. PICK c \in Nat \ {0} : a = b + c
  BY a - b \in Nat \ {0}, a = b + (a - b)
<1>2. m * a = m * b + m * c
  BY <1>1
<1>3. m * c \in Nat \ {0} /\ m * b \in Int
  OBVIOUS
<1> QED
  BY <1>2, <1>3

\* A fee is at most half a quantum more than its share.
LEMMA RoundedFee ==
  ASSUME NEW n \in Nat, NEW d \in Nat \ {0}
  PROVE  HalfEven(n, d) \in Nat /\ 2 * (d * HalfEven(n, d)) <= 2 * n + d * Quantum
<1> DEFINE u == d * Quantum
           down == n \div u
           rest == n % u
<1>1. Quantum \in Nat \ {0} /\ u \in Nat \ {0}
  BY QuantumAssumption
<1>2. down \in Nat /\ rest \in Nat /\ n = down * u + rest /\ rest < u
  BY <1>1, Division
<1>3. /\ d * (down * Quantum) = down * u
      /\ d * ((down + 1) * Quantum) = down * u + u
  <2>1. down \in Nat /\ Quantum \in Nat
    BY <1>1, <1>2
  <2> HIDE DEF down, rest
  <2> QED
    BY <2>1, Regroup, Zenon
<1>4. down * Quantum \in Nat /\ (down + 1) * Quantum \in Nat /\ down * u \in Nat
  BY <1>1, <1>2
<1>5. \/ HalfEven(n, d) = down * Quantum /\ 2 * rest <= u
      \/ HalfEven(n, d) = (down + 1) * Quantum /\ 2 * rest >= u
  BY <1>1, <1>2 DEF HalfEven
<1> HIDE DEF u, down, rest
<1>6. HalfEven(n, d) \in Nat /\ 2 * (d * HalfEven(n, d)) <= 2 * n + u
  BY <1>1, <1>2, <1>3, <1>4, <1>5
<1> QED
  BY <1>6 DEF u

\* What affordable_qty gives costs no more than the budget, with its fee.
LEMMA Affordable ==
  ASSUME NEW budget \in Int, Quantum <= budget, NEW price \in Nat \ {0}
  PROVE  /\ AffordableQty(budget, price) \in Nat
         /\ Cost(price, AffordableQty(budget, price)) \in Nat
         /\ Cost(price, AffordableQty(budget, price)) <= budget
<1> DEFINE rest == budget - Quantum
           unit == price * (FeeDen + FeeNum)
           q    == AffordableQty(budget, price)
           fee  == Fee(price, q)
<1>1. /\ Quantum \in Nat \ {0} /\ FeeNum \in Nat /\ FeeDen \in Nat \ {0}
      /\ rest \in Nat /\ budget = rest + Quantum
  BY QuantumAssumption, FeeAssumption
<1>2. unit \in Nat \ {0} /\ rest * FeeDen \in Nat
  BY <1>1
<1>3. q = (rest * FeeDen) \div unit
  BY <1>1 DEF AffordableQty
<1>4. q \in Nat /\ q * unit <= rest * FeeDen
  <2> HIDE DEF q, unit, rest
  <2>1. rest * FeeDen = ((rest * FeeDen) \div unit) * unit
                             + ((rest * FeeDen) % unit)
    BY <1>2, Division
  <2>2. (rest * FeeDen) \div unit \in Nat /\ (rest * FeeDen) % unit \in Nat
    BY <1>2, Division
  <2>3. q * unit \in Nat
    BY <1>2, <1>3, <2>2
  <2> QED
    BY <1>2, <1>3, <2>1, <2>2, <2>3
<1> HIDE DEF q, rest
<1>5. price * q \in Nat /\ price * q * FeeNum \in Nat
  BY <1>1, <1>4
<1>6. fee \in Nat /\ 2 * (FeeDen * fee) <= 2 * (price * q * FeeNum) + FeeDen * Quantum
  BY <1>1, <1>5, RoundedFee DEF Fee
<1> HIDE DEF fee
<1>7. FeeDen * (2 * (price * q + fee)) = 2 * (FeeDen * (price * q)) + 2 * (FeeDen * fee)
  BY <1>1, <1>5, <1>6
<1>8. q * unit = FeeDen * (price * q) + price * q * FeeNum
  BY <1>1, <1>4
<1>9. FeeDen * (2 * budget) = 2 * (rest * FeeDen) + 2 * (FeeDen * Quantum)
  BY <1>1
<1>10. FeeDen * (2 * (price * q + fee)) <= FeeDen * (2 * budget)
  <2> DEFINE x == FeeDen * (price * q)
             y == price * q * FeeNum
             z == FeeDen * fee
             k == FeeDen * Quantum
             r == rest * FeeDen
  <2>1. x \in Nat /\ y \in Nat /\ z \in Nat /\ k \in Nat /\ r \in Nat
    BY <1>1, <1>5, <1>6
  <2>2. 2 * z <= 2 * y + k /\ x + y <= r
    BY <1>4, <1>6, <1>8
  <2> HIDE DEF x, y, z, k, r
  <2>3. 2 * x + 2 * z <= 2 * r + 2 * k
    BY <2>1, <2>2
  <2> QED
    BY <1>7, <1>9, <2>3 DEF x, y, z, k, r
<1>11. 2 * (price * q + fee) <= 2 * budget
  BY <1>1, <1>5, <1>6, <1>10, Cancel
<1>12. price * q + fee <= budget
  BY <1>1, <1>5, <1>6, <1>11
<1> QED
  BY <1>4, <1>5, <1>6, <1>12 DEF q, fee, Cost

(***************************************************************************)
(* What decide asks for can be executed at the price it was decided at:    *)
(* a purchase costs no more than the cash, with the fee and its rounding,  *)
(* and no more is sold than is held, all of it whole units                 *)
(* (core/rebalance.py).                                                    *)
(***************************************************************************)
THEOREM DecisionsAreCovered ==
  ASSUME NEW qty \in Nat, NEW price \in Int, NEW money \in Int, NEW equity \in Int,
         NEW w \in [num : Int, den : Nat \ {0}]
  PROVE  LET order == Decide(qty, price, money, equity, w)
         IN  /\ order.side = "BUY" => order.qty > 0 /\ Cost(price, order.qty) <= money
             /\ order.side = "SELL" => order.qty > 0 /\ order.qty <= qty
             /\ order.qty \in Nat
<1> DEFINE value  == qty * price * w.den
           aim    == equity * w.num
           budget == Lesser((aim - value) \div w.den, money)
           buy    == AffordableQty(budget, price)
           sell   == Lesser((value - aim) \div (price * w.den), qty)
           order  == Decide(qty, price, money, equity, w)
<1>1. w.num \in Int /\ w.den \in Nat \ {0} /\ value \in Int /\ aim \in Int
  OBVIOUS
<1>2. budget \in Int /\ budget <= money
  <2>1. (aim - value) \div w.den \in Int
    BY <1>1
  <2> QED
    BY <2>1 DEF Lesser
<1>3. price > 0 => sell \in Int /\ sell <= qty
  <2> SUFFICES ASSUME price > 0 PROVE sell \in Int /\ sell <= qty
    OBVIOUS
  <2>1. price * w.den \in Nat \ {0}
    BY <1>1
  <2>2. (value - aim) \div (price * w.den) \in Int
    BY <1>1, <2>1
  <2> QED
    BY <2>2 DEF Lesser
<1>4. /\ order.side = "BUY" =>
           price > 0 /\ budget >= MinOrder /\ buy > 0 /\ order.qty = buy
      /\ order.side = "SELL" =>
           price > 0 /\ order.qty > 0 /\ (order.qty = qty \/ order.qty = sell)
      /\ order = None \/ order.side = "BUY" \/ order.side = "SELL"
  <2> DEFINE none   == price <= 0 \/ equity <= 0
             within == qty > 0 /\ InBand(qty * price, equity, w)
             larger == value - aim >= MinOrder * w.den /\ sell > 0
  <2>1. order = IF none THEN None
                ELSE IF w.num <= 0
                  THEN IF qty > 0 THEN Order("SELL", qty) ELSE None
                ELSE IF within THEN None
                ELSE IF aim > value
                  THEN IF budget >= MinOrder /\ buy > 0 THEN Order("BUY", buy) ELSE None
                  ELSE IF larger THEN Order("SELL", sell) ELSE None
    BY DEF Decide
  <2>2. none \/ price > 0
    OBVIOUS
  <2>3. larger => sell > 0
    OBVIOUS
  <2> HIDE DEF none, within, larger, value, aim, budget, buy, sell, order
  <2>4. CASE order = None
    BY <2>4 DEF None
  <2>5. CASE order = Order("BUY", buy) /\ budget >= MinOrder /\ buy > 0 /\ ~ none
    BY <2>2, <2>5 DEF Order
  <2>6. CASE order = Order("SELL", qty) /\ qty > 0 /\ ~ none
    BY <2>2, <2>6 DEF Order
  <2>7. CASE order = Order("SELL", sell) /\ larger /\ ~ none
    BY <2>2, <2>3, <2>7 DEF Order
  <2> QED
    BY <2>1, <2>4, <2>5, <2>6, <2>7, Zenon
<1> HIDE DEF value, aim, budget, sell, order
<1>5. ASSUME order.side = "BUY"
      PROVE  order.qty > 0 /\ Cost(price, order.qty) <= money /\ order.qty \in Nat
  <2>1. Quantum <= budget /\ price \in Nat \ {0}
    BY <1>2, <1>4, <1>5, MinOrderAssumption, QuantumAssumption
  <2>2. buy \in Nat /\ Cost(price, buy) \in Nat /\ Cost(price, buy) <= budget
    BY <1>2, <2>1, Affordable
  <2>3. order.qty = buy /\ buy > 0
    BY <1>4, <1>5
  <2> HIDE DEF buy
  <2> QED
    BY <1>2, <2>2, <2>3
<1>6. ASSUME order.side = "SELL"
      PROVE  order.qty > 0 /\ order.qty <= qty /\ order.qty \in Nat
  BY <1>3, <1>4, <1>6
<1>7. order = None => order.qty = 0
  BY DEF None
<1>8. order.qty \in Nat
  BY <1>4, <1>5, <1>6, <1>7
<1> QED
  BY <1>5, <1>6, <1>8 DEF order
-----------------------------------------------------------------------------
(* What the loads are fed. *)

StreamType ==
  /\ day \in Nat /\ rolled \in Nat /\ Past <= rolled /\ rolled < day
  /\ past \in [Symbols -> [1..Past -> Nat \ {0}]]
  /\ ticks \in [Symbols -> Seq([day : Nat, price : Nat \ {0}])]
  /\ pos \in [Symbols -> Nat] /\ \A s \in Symbols : pos[s] <= Len(ticks[s])
  /\ fed \in [Symbols -> Seq([day : Nat, close : Nat \ {0}])]
  /\ curDay \in [Symbols -> Nat] /\ dayClose \in [Symbols -> Nat]

\* Ticks come in the order of their days, and every day that is over has a last.
InOrder(s) ==
  /\ \A i \in DOMAIN ticks[s] : Past < ticks[s][i].day /\ ticks[s][i].day <= day
  /\ \A i, j \in DOMAIN ticks[s] : i <= j => ticks[s][i].day <= ticks[s][j].day

HasLast(s, d) == \E k \in TicksOn(s, d) : \A j \in TicksOn(s, d) : j <= k

Closed(s) == \A d \in (Past + 1)..(day - 1) : HasLast(s, d)

FedRight(s) ==
  \A i \in 1..Len(fed[s]) : /\ fed[s][i].day \in 1..(day - 1)
                            /\ fed[s][i].close = Close(s, fed[s][i].day)

\* The close in hand is that of a day that is over, as the warm-up leaves it,
\* or the price of the tick read last.
InHand(s) ==
  /\ curDay[s] \in 1..day
  /\ \/ curDay[s] < day /\ dayClose[s] = Close(s, curDay[s])
     \/ /\ pos[s] \in DOMAIN ticks[s]
        /\ ticks[s][pos[s]].day = curDay[s]
        /\ ticks[s][pos[s]].price = dayClose[s]

Stream ==
  /\ StreamType
  /\ \A s \in Symbols : InOrder(s) /\ Closed(s) /\ FedRight(s) /\ (up => InHand(s))

LEMMA TickType ==
  ASSUME StreamType, NEW s \in Symbols
  PROVE  /\ DOMAIN ticks[s] = 1..Len(ticks[s]) /\ Len(ticks[s]) \in Nat
         /\ DOMAIN ticks[s] \subseteq Nat
         /\ \A i \in DOMAIN ticks[s] : ticks[s][i].day \in Nat /\ ticks[s][i].price \in Nat \ {0}
<1> DEFINE q == ticks[s]
           R == [day : Nat, price : Nat \ {0}]
<1>1. q \in Seq(R)
  BY DEF StreamType
<1> HIDE DEF q, R
<1>2. DOMAIN q = 1..Len(q) /\ Len(q) \in Nat
  BY <1>1
<1>3. \A i \in 1..Len(q) : q[i] \in R
  BY <1>1
<1>4. \A r \in R : r.day \in Nat /\ r.price \in Nat \ {0}
  BY DEF R
<1> QED
  BY <1>2, <1>3, <1>4 DEF q

LEMMA LastOfDay ==
  ASSUME StreamType, NEW s \in Symbols, NEW d \in Nat, d > Past,
         NEW k \in TicksOn(s, d), \A j \in TicksOn(s, d) : j <= k
  PROVE  Close(s, d) = ticks[s][k].price
<1>1. TicksOn(s, d) \subseteq Nat
  BY DEF TicksOn, StreamType
<1>2. \A m \in TicksOn(s, d) : (\A j \in TicksOn(s, d) : m >= j) => m = k
  BY <1>1
<1>3. \A j \in TicksOn(s, d) : k >= j
  BY <1>1
<1>4. Max(TicksOn(s, d)) = k
  BY <1>2, <1>3 DEF Max
<1> QED
  BY <1>4, PathAssumption DEF Close

LEMMA CloseType ==
  ASSUME StreamType, NEW s \in Symbols, Closed(s), NEW d \in 1..(day - 1)
  PROVE  Close(s, d) \in Nat \ {0}
<1>1. CASE d <= Past
  <2>1. past[s] \in [1..Past -> Nat \ {0}] /\ Past \in Nat /\ day \in Nat
    BY PathAssumption DEF StreamType
  <2>2. d \in 1..Past /\ Close(s, d) = past[s][d]
    BY <1>1, <2>1 DEF Close
  <2> QED
    BY <2>1, <2>2
<1>2. CASE d > Past
  <2>1. d \in (Past + 1)..(day - 1)
    BY <1>2, PathAssumption DEF StreamType
  <2>2. PICK k \in TicksOn(s, d) : \A j \in TicksOn(s, d) : j <= k
    BY <2>1 DEF Closed, HasLast
  <2>3. Close(s, d) = ticks[s][k].price
    BY <1>2, <2>2, LastOfDay
  <2> QED
    BY <2>2, <2>3, TickType DEF TicksOn
<1> QED
  BY <1>1, <1>2, PathAssumption DEF StreamType

\* The last tick of the topic, when it is of day d, is the last of d.
LEMMA OrderedLast ==
  ASSUME StreamType, NEW s \in Symbols, InOrder(s), NEW k \in DOMAIN ticks[s],
         \A j \in DOMAIN ticks[s] : j > k => ticks[s][j].day > ticks[s][k].day
  PROVE  /\ k \in TicksOn(s, ticks[s][k].day)
         /\ \A j \in TicksOn(s, ticks[s][k].day) : j <= k
<1>1. /\ DOMAIN ticks[s] \subseteq Nat
      /\ \A j \in DOMAIN ticks[s] : ticks[s][j].day \in Nat
  BY TickType
<1> QED
  BY <1>1 DEF TicksOn

LEMMA AppendBar ==
  ASSUME NEW R, NEW q \in Seq(R), NEW x \in R
  PROVE  /\ Append(q, x) \in Seq(R)
         /\ Len(Append(q, x)) = Len(q) + 1 /\ Len(q) \in Nat
         /\ \A i \in 1..Len(q) : Append(q, x)[i] = q[i]
         /\ Append(q, x)[Len(q) + 1] = x
OBVIOUS

\* Days that are over keep their ticks and so their close.
LEMMA TradeKeepsDays ==
  ASSUME StreamType, NEW s \in Symbols, NEW p \in Prices, Trade(s, p),
         NEW t \in Symbols, NEW d \in Nat, d < day
  PROVE  /\ TicksOn(t, d)' = TicksOn(t, d)
         /\ \A i \in DOMAIN ticks[t] : i \in DOMAIN ticks'[t] /\ ticks'[t][i] = ticks[t][i]
<1>1. ticks' = [ticks EXCEPT ![s] = Append(@, [day |-> day, price |-> p])]
  BY DEF Trade
<1>2. ticks[t] \in Seq([day : Nat, price : Nat \ {0}]) /\ day \in Nat /\ p \in Nat \ {0}
  BY PathAssumption DEF StreamType
<1>3. CASE t # s
  BY <1>1, <1>3 DEF StreamType, TicksOn
<1>4. CASE t = s
  <2>1. ticks'[t] = Append(ticks[t], [day |-> day, price |-> p])
    BY <1>1, <1>4 DEF StreamType
  <2>2. /\ DOMAIN ticks'[t] = DOMAIN ticks[t] \union {Len(ticks[t]) + 1}
        /\ ticks'[t][Len(ticks[t]) + 1] = [day |-> day, price |-> p]
        /\ \A i \in DOMAIN ticks[t] : ticks'[t][i] = ticks[t][i]
    <3> DEFINE R == [day : Nat, price : Nat \ {0}]
               x == [day |-> day, price |-> p]
               q == ticks[t]
    <3>1. q \in Seq(R) /\ x \in R /\ ticks'[t] = Append(q, x)
      BY <1>2, <2>1
    <3> HIDE DEF R, x, q
    <3>2. /\ Append(q, x) \in Seq(R)
          /\ Len(Append(q, x)) = Len(q) + 1 /\ Len(q) \in Nat
          /\ \A i \in 1..Len(q) : Append(q, x)[i] = q[i]
          /\ Append(q, x)[Len(q) + 1] = x
      BY <3>1, AppendBar
    <3>3. DOMAIN q = 1..Len(q) /\ DOMAIN Append(q, x) = 1..Len(q) + 1
      BY <3>1, <3>2
    <3> QED
      BY <3>1, <3>2, <3>3 DEF q, x
  <2> QED
    BY <1>2, <2>2 DEF TicksOn
<1> QED
  BY <1>3, <1>4

LEMMA CloseStays ==
  ASSUME StreamType, NEW s \in Symbols, NEW d \in 1..(day - 1), Closed(s), past' = past,
         TicksOn(s, d)' = TicksOn(s, d),
         \A i \in DOMAIN ticks[s] : i \in DOMAIN ticks'[s] /\ ticks'[s][i] = ticks[s][i]
  PROVE  Close(s, d)' = Close(s, d)
<1>1. CASE d <= Past
  BY <1>1 DEF Close
<1>2. CASE d > Past
  <2>1. d \in (Past + 1)..(day - 1)
    BY <1>2, PathAssumption DEF StreamType
  <2>2. PICK k \in TicksOn(s, d) : \A j \in TicksOn(s, d) : j <= k
    BY <2>1 DEF Closed, HasLast
  <2>3. TicksOn(s, d) \subseteq Nat /\ TicksOn(s, d) \subseteq DOMAIN ticks[s]
    BY TickType DEF TicksOn
  <2>4. \A m \in TicksOn(s, d) : (\A j \in TicksOn(s, d) : m >= j) => m = k
    BY <2>2, <2>3
  <2>5. Max(TicksOn(s, d)) = k
    BY <2>2, <2>3, <2>4 DEF Max
  <2>6. Max(TicksOn(s, d))' = k
    <3>1. \A j \in TicksOn(s, d) : k >= j
      BY <2>2, <2>3
    <3>2. \A m \in TicksOn(s, d)' : (\A j \in TicksOn(s, d)' : m >= j) => m = k
      BY <2>4
    <3>3. k \in TicksOn(s, d)' /\ \A j \in TicksOn(s, d)' : k >= j
      BY <2>2, <3>1
    <3> QED
      BY <3>2, <3>3 DEF Max
  <2> QED
    BY <2>3, <2>5, <2>6 DEF Close
<1> QED
  BY <1>1, <1>2, PathAssumption DEF StreamType

LEMMA TradeStream ==
  ASSUME Stream, NEW s \in Symbols, NEW p \in Prices, Trade(s, p)
  PROVE  Stream'
<1> DEFINE R == [day : Nat, price : Nat \ {0}]
           x == [day |-> day, price |-> p]
<1>1. /\ ticks' = [ticks EXCEPT ![s] = Append(@, x)]
      /\ UNCHANGED <<day, past, rolled, up, pos, fed, curDay, dayClose>>
  BY DEF Trade, worker
<1>2. StreamType /\ \A t \in Symbols : ticks[t] \in Seq(R)
  BY DEF Stream, StreamType
<1>3. x \in R /\ x.day = day /\ day \in Nat
  BY PathAssumption DEF Stream, StreamType
<1> HIDE DEF R, x
<1>4. ASSUME NEW t \in Symbols
      PROVE  /\ ticks'[t] = IF t = s THEN Append(ticks[t], x) ELSE ticks[t]
             /\ ticks'[t] \in Seq(R)
             /\ Len(ticks[t]) <= Len(ticks'[t])
  <2>1. ticks'[t] = IF t = s THEN Append(ticks[t], x) ELSE ticks[t]
    BY <1>1, <1>2 DEF StreamType
  <2> QED
    BY <1>2, <1>3, <2>1
<1>5. StreamType'
  <2>1. ticks' \in [Symbols -> Seq(R)]
    BY <1>1, <1>2, <1>4 DEF StreamType
  <2>2. \A t \in Symbols : pos[t] \in Nat /\ Len(ticks[t]) \in Nat /\ Len(ticks'[t]) \in Nat
    BY <1>2, <1>4 DEF StreamType
  <2> QED
    BY <1>1, <1>2, <1>4, <2>1, <2>2 DEF StreamType, R
<1>6. ASSUME NEW t \in Symbols
      PROVE  /\ InOrder(t)' /\ Closed(t)' /\ FedRight(t)' /\ (up => InHand(t))'
  <2>1. /\ InOrder(t) /\ Closed(t) /\ FedRight(t) /\ (up => InHand(t))
    BY DEF Stream
  <2>2. \A d \in Nat : d < day => TicksOn(t, d)' = TicksOn(t, d)
    BY <1>2, TradeKeepsDays
  <2>3. \A i \in DOMAIN ticks[t] : i \in DOMAIN ticks'[t] /\ ticks'[t][i] = ticks[t][i]
    <3>1. CASE t = s
      <4>1. ticks'[t] = Append(ticks[t], x) /\ ticks[t] \in Seq(R)
        BY <1>2, <1>4, <3>1
      <4>2. DOMAIN ticks[t] = 1..Len(ticks[t]) /\ DOMAIN ticks'[t] = 1..Len(ticks'[t])
        BY <1>2, <1>4
      <4>3. /\ Len(ticks'[t]) = Len(ticks[t]) + 1 /\ Len(ticks[t]) \in Nat
            /\ \A i \in 1..Len(ticks[t]) : ticks'[t][i] = ticks[t][i]
        BY <1>3, <4>1, AppendBar
      <4> QED
        BY <4>2, <4>3
    <3>2. CASE t # s
      BY <1>4, <3>2
    <3> QED
      BY <3>1, <3>2
  <2>4. \A d \in 1..(day - 1) : Close(t, d)' = Close(t, d)
    <3> TAKE d \in 1..(day - 1)
    <3>1. d \in Nat /\ d < day
      BY <1>3
    <3> QED
      BY <1>1, <1>2, <2>1, <2>2, <2>3, <3>1, CloseStays
  <2>5. InOrder(t)'
    <3>1. CASE t # s
      BY <1>1, <1>4, <2>1, <3>1 DEF InOrder
    <3>2. CASE t = s
      <4> DEFINE n == Len(ticks[t]) + 1
      <4>1. /\ DOMAIN ticks'[t] = DOMAIN ticks[t] \union {n}
            /\ ticks'[t][n] = x
            /\ \A i \in DOMAIN ticks[t] : i < n /\ i \in Nat
            /\ n \in Nat
        <5>1. ticks'[t] = Append(ticks[t], x) /\ ticks[t] \in Seq(R)
          BY <1>2, <1>4, <3>2
        <5>2. DOMAIN ticks[t] = 1..Len(ticks[t]) /\ DOMAIN ticks'[t] = 1..Len(ticks'[t])
          BY <1>2, <1>4
        <5>3. /\ Len(ticks'[t]) = n /\ Len(ticks[t]) \in Nat /\ ticks'[t][n] = x
          BY <1>3, <5>1, AppendBar
        <5> QED
          BY <5>2, <5>3
      <4>2. \A i \in DOMAIN ticks[t] : ticks[t][i].day \in Nat
        BY <1>2, TickType
      <4>3. Past < day /\ Past \in Nat
        BY <1>2, PathAssumption DEF StreamType
      <4> HIDE DEF n
      <4>4. \A i \in DOMAIN ticks'[t] : Past < ticks'[t][i].day /\ ticks'[t][i].day <= day
        BY <1>3, <2>1, <2>3, <4>1, <4>2, <4>3 DEF InOrder
      <4>5. ASSUME NEW i \in DOMAIN ticks'[t], NEW j \in DOMAIN ticks'[t], i <= j
            PROVE  ticks'[t][i].day <= ticks'[t][j].day
        <5>1. CASE j = n
          BY <1>3, <4>1, <4>4, <5>1
        <5>2. CASE j # n
          <6>1. i \in DOMAIN ticks[t] /\ j \in DOMAIN ticks[t]
            BY <4>1, <4>5, <5>2
          <6> QED
            BY <2>1, <2>3, <4>5, <6>1 DEF InOrder
        <5> QED
          BY <5>1, <5>2
      <4> QED
        BY <1>1, <4>4, <4>5 DEF InOrder
    <3> QED
      BY <3>1, <3>2
  <2>6. Closed(t)'
    <3>1. ASSUME NEW d \in (Past + 1)..(day - 1)
          PROVE  HasLast(t, d)'
      <4>1. d \in Nat /\ d < day
        BY <1>3, PathAssumption
      <4> QED
        BY <2>1, <2>2, <4>1 DEF Closed, HasLast
    <3> QED
      BY <1>1, <3>1 DEF Closed
  <2>7. FedRight(t)'
    BY <1>1, <2>1, <2>4 DEF FedRight
  <2>8. (up => InHand(t))'
    <3>1. ASSUME up PROVE InHand(t)'
      <4>1. InHand(t) /\ curDay[t] \in Nat
        BY <1>2, <2>1, <3>1 DEF StreamType
      <4>2. curDay[t] < day => curDay[t] \in 1..(day - 1)
        BY <1>3, <4>1 DEF InHand
      <4> QED
        BY <1>1, <2>3, <2>4, <4>1, <4>2 DEF InHand
    <3> QED
      BY <1>1, <3>1
  <2> QED
    BY <2>5, <2>6, <2>7, <2>8
<1> QED
  BY <1>5, <1>6 DEF Stream

LEMMA MidnightStream ==
  ASSUME Stream, Midnight
  PROVE  Stream'
<1>1. /\ day' = day + 1
      /\ \A s \in Symbols : TicksOn(s, day) # {}
      /\ UNCHANGED <<past, ticks, rolled, up, pos, fed, curDay, dayClose>>
  BY DEF Midnight, worker
<1>2. StreamType /\ day \in Nat /\ Past \in Nat
  BY PathAssumption DEF Stream, StreamType
<1>3. StreamType'
  BY <1>1, <1>2 DEF StreamType
<1>4. ASSUME NEW s \in Symbols
      PROVE  /\ InOrder(s)' /\ Closed(s)' /\ FedRight(s)' /\ (up => InHand(s))'
  <2>1. /\ InOrder(s) /\ Closed(s) /\ FedRight(s) /\ (up => InHand(s))
    BY DEF Stream
  <2>2. \A d : TicksOn(s, d)' = TicksOn(s, d) /\ Close(s, d)' = Close(s, d)
    BY <1>1 DEF TicksOn, Close
  <2>3. InOrder(s)'
    <3>1. \A i \in DOMAIN ticks[s] : ticks[s][i].day \in Nat
      BY <1>2, TickType
    <3> QED
      BY <1>1, <1>2, <2>1, <3>1 DEF InOrder
  <2>4. HasLast(s, day)
    <3> DEFINE n == Len(ticks[s])
    <3>1. PICK i \in DOMAIN ticks[s] : ticks[s][i].day = day
      BY <1>1 DEF TicksOn
    <3>2. /\ DOMAIN ticks[s] = 1..n /\ n \in Nat
          /\ \A j \in DOMAIN ticks[s] : ticks[s][j].day \in Nat
      BY <1>2, TickType
    <3>3. n \in DOMAIN ticks[s] /\ \A j \in DOMAIN ticks[s] : j <= n
      BY <3>1, <3>2
    <3>4. ticks[s][n].day = day
      BY <1>2, <2>1, <3>1, <3>2, <3>3 DEF InOrder
    <3> QED
      BY <3>3, <3>4 DEF HasLast, TicksOn
  <2>5. Closed(s)'
    <3>1. ASSUME NEW d \in (Past + 1)..day
          PROVE  HasLast(s, d)'
      <4>1. d = day \/ d \in (Past + 1)..(day - 1)
        BY <1>2
      <4> QED
        BY <2>1, <2>2, <2>4, <4>1 DEF Closed, HasLast
    <3>2. day' - 1 = day
      BY <1>1, <1>2
    <3> QED
      BY <3>1, <3>2 DEF Closed
  <2>6. FedRight(s)'
    <3>1. \A d \in 1..(day - 1) : d \in 1..(day' - 1)
      BY <1>1, <1>2
    <3> QED
      BY <1>1, <2>1, <2>2, <3>1 DEF FedRight
  <2>7. (up => InHand(s))'
    <3>1. \A d \in 1..day : d \in 1..day' /\ d < day'
      BY <1>1, <1>2
    <3> QED
      BY <1>1, <2>1, <2>2, <3>1 DEF InHand
  <2> QED
    BY <2>3, <2>5, <2>6, <2>7
<1> QED
  BY <1>3, <1>4 DEF Stream

LEMMA CandlesAre ==
  ASSUME Stream, NEW s \in Symbols
  PROVE  /\ Candles(s) \in Seq([day : Nat, close : Nat \ {0}])
         /\ Len(Candles(s)) = rolled
         /\ \A i \in 1..rolled : Candles(s)[i] = [day |-> i, close |-> Close(s, i)]
<1>1. StreamType /\ Closed(s)
  BY DEF Stream
<1>2. rolled \in Nat /\ day \in Nat /\ rolled < day
  BY <1>1 DEF StreamType
<1>3. ASSUME NEW d \in 1..rolled
      PROVE  [day |-> d, close |-> Close(s, d)] \in [day : Nat, close : Nat \ {0}]
  <2>1. d \in 1..(day - 1) /\ d \in Nat
    BY <1>2
  <2>2. Close(s, d) \in Nat \ {0}
    BY <1>1, <2>1, CloseType
  <2> QED
    BY <2>1, <2>2
<1> DEFINE R == [day : Nat, close : Nat \ {0}]
           x(d) == [day |-> d, close |-> Close(s, d)]
<1>4. Candles(s) = [d \in 1..rolled |-> x(d)] /\ \A d \in 1..rolled : x(d) \in R
  BY <1>3 DEF Candles
<1> HIDE DEF R, x
<1>5. Candles(s) \in Seq(R) /\ Len(Candles(s)) = rolled /\ \A i \in 1..rolled : Candles(s)[i] = x(i)
  BY <1>2, <1>4
<1> QED
  BY <1>5 DEF R, x

LEMMA PrimeStream ==
  ASSUME Stream, Prime
  PROVE  Stream'
<1>1. /\ fed' = [s \in Symbols |-> Candles(s)]
      /\ curDay' = [s \in Symbols |-> rolled]
      /\ dayClose' = [s \in Symbols |-> Close(s, rolled)]
      /\ UNCHANGED <<day, past, ticks, rolled>>
  BY DEF Prime, market
<1>2. PICK back \in 0..MaxReplay : pos' = [s \in Symbols |-> Max({0, pos[s] - back})]
  BY DEF Prime
<1>3. StreamType /\ day \in Nat /\ Past \in Nat \ {0} /\ rolled \in Nat
      /\ rolled < day /\ Past <= rolled
  BY PathAssumption DEF Stream, StreamType
<1>4. rolled \in 1..(day - 1)
  BY <1>3
<1>5. \A s \in Symbols : pos'[s] \in Nat /\ pos'[s] <= pos[s]
  <2> TAKE s \in Symbols
  <2>1. pos[s] \in Nat /\ back \in Nat
    BY <1>3, PathAssumption DEF StreamType
  <2> DEFINE m == pos[s] - back
             M == {0, m}
  <2>2. m \in Int /\ m <= pos[s]
    BY <2>1
  <2>3. Max(M) \in M /\ \A y \in M : Max(M) >= y
    <3>1. \E a \in M : \A y \in M : a >= y
      <4>1. CASE m >= 0
        BY <2>2, <4>1
      <4>2. CASE ~ m >= 0
        BY <2>2, <4>2
      <4> QED
        BY <4>1, <4>2
    <3> HIDE DEF M
    <3> QED
      BY <3>1 DEF Max
  <2>4. pos'[s] = Max(M)
    BY <1>2
  <2> HIDE DEF m
  <2>5. Max(M) = 0 \/ Max(M) = m
    BY <2>3
  <2> QED
    BY <2>1, <2>2, <2>3, <2>4, <2>5
<1>6. \A s \in Symbols : Close(s, rolled) \in Nat \ {0}
  BY <1>3, <1>4, CloseType DEF Stream
<1>7. StreamType'
  <2>1. fed' \in [Symbols -> Seq([day : Nat, close : Nat \ {0}])]
    BY <1>1, CandlesAre
  <2>2. pos' \in [Symbols -> Nat]
    BY <1>2, <1>5
  <2>3. \A s \in Symbols : pos'[s] <= Len(ticks[s])
    <3> TAKE s \in Symbols
    <3>1. pos[s] \in Nat /\ pos[s] <= Len(ticks[s]) /\ Len(ticks[s]) \in Nat
      BY <1>3, TickType DEF StreamType
    <3> QED
      BY <1>5, <3>1
  <2> QED
    BY <1>1, <1>3, <1>6, <2>1, <2>2, <2>3 DEF StreamType
<1>8. ASSUME NEW s \in Symbols
      PROVE  InOrder(s)' /\ Closed(s)' /\ FedRight(s)' /\ InHand(s)'
  <2>1. InOrder(s) /\ Closed(s)
    BY DEF Stream
  <2>2. \A d : TicksOn(s, d)' = TicksOn(s, d) /\ Close(s, d)' = Close(s, d)
    BY <1>1 DEF TicksOn, Close
  <2>3. InOrder(s)' /\ Closed(s)'
    BY <1>1, <2>1, <2>2 DEF InOrder, Closed, HasLast
  <2>4. FedRight(s)'
    <3>1. fed'[s] = Candles(s)
      BY <1>1
    <3>2. /\ Len(fed'[s]) = rolled
          /\ \A i \in 1..rolled : fed'[s][i].day = i /\ fed'[s][i].close = Close(s, i)
      <4>1. Len(fed'[s]) = rolled
        BY <3>1, CandlesAre
      <4>2. ASSUME NEW i \in 1..rolled
            PROVE  fed'[s][i].day = i /\ fed'[s][i].close = Close(s, i)
        <5> DEFINE c == Close(s, i)
        <5>1. fed'[s][i] = [day |-> i, close |-> c]
          BY <3>1, CandlesAre
        <5> HIDE DEF c
        <5>2. fed'[s][i].day = i /\ fed'[s][i].close = c
          BY <5>1
        <5> QED
          BY <5>2 DEF c
      <4> QED
        BY <4>1, <4>2
    <3>3. \A i \in 1..rolled : i \in 1..(day - 1)
      BY <1>3
    <3> QED
      BY <1>1, <2>2, <3>2, <3>3 DEF FedRight
  <2>5. InHand(s)'
    BY <1>1, <1>3, <1>4, <2>2 DEF InHand
  <2> QED
    BY <2>3, <2>4, <2>5
<1> QED
  BY <1>7, <1>8 DEF Stream

\* The first tick of a later day finds the close of the current one complete:
\* it is of a day that was over already, or the tick before was its last.
LEMMA InHandIsClose ==
  ASSUME Stream, up, NEW s \in Symbols, pos[s] + 1 \in DOMAIN ticks[s],
         ticks[s][pos[s] + 1].day > curDay[s]
  PROVE  curDay[s] \in 1..(day - 1) /\ dayClose[s] = Close(s, curDay[s])
<1>1. StreamType /\ InOrder(s) /\ InHand(s)
  BY DEF Stream
<1>2. /\ pos[s] \in Nat /\ curDay[s] \in Nat /\ day \in Nat /\ Past \in Nat
      /\ curDay[s] \in 1..day
  BY <1>1, PathAssumption DEF StreamType, InHand
<1>3. /\ \A j \in DOMAIN ticks[s] : j \in Nat /\ ticks[s][j].day \in Nat
  BY <1>1, TickType
<1>4. curDay[s] \in 1..(day - 1)
  BY <1>1, <1>2, <1>3 DEF InOrder
<1>5. CASE /\ pos[s] \in DOMAIN ticks[s]
           /\ ticks[s][pos[s]].day = curDay[s]
           /\ ticks[s][pos[s]].price = dayClose[s]
  <2> DEFINE k == pos[s]
  <2>1. ASSUME NEW j \in DOMAIN ticks[s], j > k
        PROVE  ticks[s][j].day > ticks[s][k].day
    <3>1. k + 1 <= j
      BY <1>2, <1>3, <2>1
    <3>2. ticks[s][k + 1].day <= ticks[s][j].day
      BY <1>1, <2>1, <3>1 DEF InOrder
    <3> QED
      BY <1>2, <1>3, <1>5, <2>1, <3>2
  <2>2. /\ k \in TicksOn(s, curDay[s])
        /\ \A j \in TicksOn(s, curDay[s]) : j <= k
    BY <1>1, <1>5, <2>1, OrderedLast
  <2>3. curDay[s] > Past
    BY <1>1, <1>2, <1>5 DEF InOrder
  <2>4. Close(s, curDay[s]) = ticks[s][k].price
    BY <1>1, <1>2, <2>2, <2>3, LastOfDay
  <2> QED
    BY <1>4, <1>5, <2>4
<1> QED
  BY <1>1, <1>4, <1>5 DEF InHand

LEMMA OnTickStream ==
  ASSUME Stream, NEW s \in Symbols, OnTick(s)
  PROVE  Stream'
<1> DEFINE n == pos[s] + 1
           tick == ticks[s][n]
           bar == [day |-> curDay[s], close |-> dayClose[s]]
           R == [day : Nat, close : Nat \ {0}]
<1>1. /\ up /\ pos[s] < Len(ticks[s])
      /\ pos' = [pos EXCEPT ![s] = n]
      /\ UNCHANGED <<day, past, ticks, rolled, up>>
  BY DEF OnTick, market
<1>2. /\ StreamType /\ pos[s] \in Nat /\ Len(ticks[s]) \in Nat /\ n \in Nat
      /\ curDay[s] \in Nat /\ dayClose[s] \in Nat /\ day \in Nat
      /\ fed \in [Symbols -> Seq(R)]
  BY TickType DEF Stream, StreamType
<1>3. n \in DOMAIN ticks[s] /\ n <= Len(ticks[s])
  BY <1>1, <1>2, TickType
<1>4. tick.day \in Nat /\ tick.price \in Nat \ {0} /\ tick.day <= day /\ tick.day >= 1
  <2>1. tick.day \in Nat /\ tick.price \in Nat \ {0}
    BY <1>2, <1>3, TickType
  <2>2. Past < tick.day /\ tick.day <= day
    BY <1>3 DEF Stream, InOrder
  <2> QED
    BY <2>1, <2>2, PathAssumption
<1>5. \A t \in Symbols : \A d : TicksOn(t, d)' = TicksOn(t, d) /\ Close(t, d)' = Close(t, d)
  BY <1>1 DEF TicksOn, Close
<1>6. \A t \in Symbols : InOrder(t)' /\ Closed(t)'
  BY <1>1, <1>5 DEF Stream, InOrder, Closed, HasLast
<1>7. /\ pos' \in [Symbols -> Nat]
      /\ \A t \in Symbols : pos'[t] <= Len(ticks[t])
      /\ pos'[s] = n
  BY <1>1, <1>2, <1>3 DEF StreamType
<1>8. ASSUME NEW t \in Symbols, t # s, fed'[t] = fed[t],
             curDay'[t] = curDay[t], dayClose'[t] = dayClose[t]
      PROVE  FedRight(t)' /\ InHand(t)'
  <2>1. FedRight(t) /\ InHand(t) /\ pos'[t] = pos[t]
    BY <1>1, <1>8 DEF Stream, StreamType
  <2> QED
    BY <1>1, <1>5, <1>8, <2>1 DEF FedRight, InHand
<1>9. CASE tick.day > curDay[s]
  <2>1. /\ fed' = [fed EXCEPT ![s] = Append(fed[s], bar)]
        /\ curDay' = [curDay EXCEPT ![s] = tick.day]
        /\ dayClose' = [dayClose EXCEPT ![s] = tick.price]
    BY <1>9 DEF OnTick
  <2>2. curDay[s] \in 1..(day - 1) /\ dayClose[s] = Close(s, curDay[s])
    BY <1>1, <1>3, <1>9, InHandIsClose
  <2>3. bar \in R /\ bar.day = curDay[s] /\ bar.close = dayClose[s]
    <3>1. Closed(s)
      BY DEF Stream
    <3>2. Close(s, curDay[s]) \in Nat \ {0}
      BY <1>2, <2>2, <3>1, CloseType
    <3> QED
      BY <1>2, <2>2, <3>2
  <2> HIDE DEF R, bar, tick, n
  <2>4. /\ fed'[s] = Append(fed[s], bar) /\ fed[s] \in Seq(R)
        /\ curDay'[s] = tick.day /\ dayClose'[s] = tick.price
    BY <1>2, <2>1 DEF StreamType
  <2>5. /\ fed'[s] \in Seq(R)
        /\ Len(fed'[s]) = Len(fed[s]) + 1 /\ Len(fed[s]) \in Nat
        /\ \A i \in 1..Len(fed[s]) : fed'[s][i] = fed[s][i]
        /\ fed'[s][Len(fed[s]) + 1] = bar
    BY <2>3, <2>4, AppendBar
  <2>6. StreamType'
    <3>1. fed' \in [Symbols -> Seq(R)]
      BY <1>2, <2>1, <2>5
    <3>2. curDay' \in [Symbols -> Nat] /\ dayClose' \in [Symbols -> Nat]
      BY <1>2, <1>4, <2>1 DEF StreamType
    <3> QED
      BY <1>1, <1>2, <1>7, <3>1, <3>2 DEF StreamType, R
  <2>7. FedRight(s)'
    <3>1. ASSUME NEW i \in 1..Len(fed'[s])
          PROVE  /\ fed'[s][i].day \in 1..(day - 1)
                 /\ fed'[s][i].close = Close(s, fed'[s][i].day)
      <4>1. CASE i \in 1..Len(fed[s])
        BY <2>5, <4>1 DEF Stream, FedRight
      <4>2. CASE i = Len(fed[s]) + 1
        BY <2>2, <2>3, <2>5, <4>2
      <4> QED
        BY <2>5, <4>1, <4>2
    <3> QED
      BY <1>1, <1>5, <3>1 DEF FedRight
  <2>8. InHand(s)'
    BY <1>1, <1>2, <1>3, <1>4, <1>7, <2>4 DEF InHand, tick
  <2>9. \A t \in Symbols : t # s => FedRight(t)' /\ InHand(t)'
    BY <1>2, <1>8, <2>1 DEF StreamType
  <2> QED
    BY <1>6, <2>6, <2>7, <2>8, <2>9 DEF Stream
<1>10. CASE ~ (tick.day > curDay[s])
  <2>1. /\ fed' = fed /\ curDay' = curDay
        /\ dayClose' = IF tick.day = curDay[s]
                       THEN [dayClose EXCEPT ![s] = tick.price] ELSE dayClose
    BY <1>10 DEF OnTick
  <2> HIDE DEF R, bar, tick, n
  <2>2. StreamType'
    <3>1. dayClose' \in [Symbols -> Nat]
      BY <1>2, <1>4, <2>1 DEF StreamType
    <3> QED
      BY <1>1, <1>2, <1>7, <2>1, <3>1 DEF StreamType
  <2>3. FedRight(s)'
    BY <1>1, <1>5, <2>1 DEF Stream, FedRight
  <2>4. InHand(s)'
    <3>1. InHand(s) /\ InOrder(s)
      BY <1>1 DEF Stream
    <3>2. CASE tick.day = curDay[s]
      <4>1. dayClose'[s] = tick.price
        BY <1>2, <2>1, <3>2 DEF StreamType
      <4> QED
        BY <1>1, <1>3, <1>7, <2>1, <3>1, <3>2, <4>1 DEF InHand, tick
    <3>3. CASE tick.day # curDay[s]
      <4>1. tick.day < curDay[s]
        BY <1>2, <1>4, <1>10, <3>3
      <4>2. ~ (pos[s] \in DOMAIN ticks[s] /\ ticks[s][pos[s]].day = curDay[s])
        <5> SUFFICES ASSUME pos[s] \in DOMAIN ticks[s], ticks[s][pos[s]].day = curDay[s]
                     PROVE  FALSE
          OBVIOUS
        <5>1. pos[s] <= n
          BY <1>2 DEF n
        <5>2. curDay[s] <= tick.day
          BY <1>3, <3>1, <5>1 DEF InOrder, tick
        <5> QED
          BY <1>2, <1>4, <4>1, <5>2
      <4>3. curDay[s] < day /\ dayClose[s] = Close(s, curDay[s])
        BY <3>1, <4>2 DEF InHand
      <4> QED
        BY <1>1, <1>5, <2>1, <3>1, <3>3, <4>3 DEF InHand
    <3> QED
      BY <3>2, <3>3
  <2>5. \A t \in Symbols : t # s => FedRight(t)' /\ InHand(t)'
    BY <1>2, <1>8, <2>1 DEF StreamType
  <2> QED
    BY <1>6, <2>2, <2>3, <2>4, <2>5 DEF Stream
<1> QED
  BY <1>9, <1>10

LEMMA InitStream == Init => Stream
<1> SUFFICES ASSUME Init PROVE Stream
  OBVIOUS
<1>1. Past \in Nat \ {0} /\ day = Past + 1 /\ rolled = Past
  BY PathAssumption DEF Init
<1>2. past \in [Symbols -> [1..Past -> Nat \ {0}]]
  <2>1. \A h \in Histories : h \in [1..Past -> Nat \ {0}]
    BY PathAssumption
  <2> QED
    BY <2>1 DEF Init
<1>3. StreamType
  BY <1>1, <1>2 DEF Init, StreamType
<1>4. \A s \in Symbols : ticks[s] = << >> /\ fed[s] = << >>
  BY DEF Init
<1>5. \A s \in Symbols : InOrder(s) /\ FedRight(s)
  BY <1>4 DEF InOrder, FedRight
<1>6. \A s \in Symbols : Closed(s)
  BY <1>1 DEF Closed
<1> QED
  BY <1>3, <1>5, <1>6 DEF Init, Stream

\* The worker stopping and the roll-up leave all of it alone.
LEMMA SameStream ==
  ASSUME Stream, StreamType', up' => up,
         UNCHANGED <<day, past, ticks, pos, fed, curDay, dayClose>>
  PROVE  Stream'
<1>1. ASSUME NEW s \in Symbols
      PROVE  InOrder(s)' /\ Closed(s)' /\ FedRight(s)' /\ (up => InHand(s))'
  <2>1. \A d : TicksOn(s, d)' = TicksOn(s, d) /\ Close(s, d)' = Close(s, d)
    BY DEF TicksOn, Close
  <2>2. InOrder(s) /\ Closed(s) /\ FedRight(s) /\ (up => InHand(s))
    BY DEF Stream
  <2>3. InOrder(s)'
    BY <2>2 DEF InOrder
  <2>4. Closed(s)'
    BY <2>1, <2>2 DEF Closed, HasLast
  <2>5. FedRight(s)'
    BY <2>1, <2>2 DEF FedRight
  <2>6. (up => InHand(s))'
    BY <2>1, <2>2 DEF InHand
  <2> QED
    BY <2>3, <2>4, <2>5, <2>6
<1> QED
  BY <1>1 DEF Stream

LEMMA StepStream == Stream /\ [Next]_vars => Stream'
<1> SUFFICES ASSUME Stream, [Next]_vars PROVE Stream'
  OBVIOUS
<1>1. ASSUME UNCHANGED <<market, worker>>
      PROVE  Stream'
  BY <1>1, SameStream DEF market, worker, Stream, StreamType
<1>2. CASE RollUp
  <2>1. /\ UNCHANGED <<day, past, ticks, worker>>
        /\ rolled < day - 1 /\ rolled' = day - 1
    BY <1>2 DEF RollUp
  <2>2. StreamType'
    <3>1. rolled' \in Nat /\ Past <= rolled' /\ rolled' < day
      BY <2>1, PathAssumption DEF Stream, StreamType
    <3> QED
      BY <2>1, <3>1 DEF worker, Stream, StreamType
  <2> QED
    BY <2>1, <2>2, SameStream DEF worker
<1>3. CASE WorkerStops
  <2>1. UNCHANGED <<day, past, ticks, rolled, pos, fed, curDay, dayClose>> /\ ~ up'
    BY <1>3 DEF WorkerStops, market
  <2>2. StreamType'
    BY <2>1 DEF Stream, StreamType
  <2> QED
    BY <2>1, <2>2, SameStream
<1>4. CASE \E s \in Symbols : OnTick(s) \/ \E p \in Prices : Trade(s, p)
  BY <1>4, OnTickStream, TradeStream
<1> QED
  BY <1>1, <1>2, <1>3, <1>4, MidnightStream, PrimeStream
     DEF Next, Read, RebalanceAccount, ActDone, CommanderRestarts, Reevaluate, Execute, vars

(***************************************************************************)
(* However often the worker stops between two ticks, warms up from a table *)
(* the roll-up has not caught up with and reads ticks again: a load is fed *)
(* for a day the last price of that day (live_ensemble.on_tick, prime).    *)
(***************************************************************************)
THEOREM FedIsTheClose == Spec => []FedCloseIsOfItsDay
<1>1. Stream => FedCloseIsOfItsDay
  BY DEF Stream, FedRight, FedCloseIsOfItsDay
<1> QED
  BY <1>1, InitStream, StepStream, PTL DEF Spec

-----------------------------------------------------------------------------
(* Finite sets, sums over them and folds over lists.  A fold is a CHOOSE   *)
(* of a function that satisfies an equation: that there is one is shown    *)
(* first.  Induction is on the size of a set, by a smallest counterexample.*)

LEMMA Smallest ==
  ASSUME NEW F, F # {}, \A s \in F : IsFiniteSet(s)
  PROVE  \E s \in F : \A t \in F : Cardinality(s) <= Cardinality(t)
<1> DEFINE N == {Cardinality(s) : s \in F}
<1>1. N \subseteq Nat /\ N # {}
  BY FS_CardinalityType
<1>2. \E n \in N : \A m \in N : ~ (<<m, n>> \in OpToRel(<, Nat))
  BY <1>1, WFMin, NatLessThanWellFounded
<1> HIDE DEF N
<1>3. PICK n \in N : \A m \in N : n <= m
  <2>1. PICK n \in N : \A m \in N : ~ (<<m, n>> \in OpToRel(<, Nat))
    BY <1>2
  <2>2. \A m \in N : n <= m
    <3> SUFFICES ASSUME NEW m \in N, m < n PROVE FALSE
      BY <1>1
    <3>1. <<m, n>> \in OpToRel(<, Nat)
      BY <1>1 DEF OpToRel
    <3> QED
      BY <2>1, <3>1
  <2> QED
    BY <2>2
<1>4. \A s \in F : Cardinality(s) \in N
  BY DEF N
<1>5. PICK s \in F : Cardinality(s) = n
  BY DEF N
<1> QED
  BY <1>3, <1>4, <1>5

LEMMA OneLess ==
  ASSUME NEW S, IsFiniteSet(S), NEW x \in S
  PROVE  /\ IsFiniteSet(S \ {x})
         /\ Cardinality(S \ {x}) \in Nat
         /\ Cardinality(S) = Cardinality(S \ {x}) + 1
<1>1. /\ IsFiniteSet(S \ {x})
      /\ Cardinality(S \ {x}) = Cardinality(S) - 1
  BY FS_RemoveElement
<1>2. Cardinality(S) \in Nat /\ Cardinality(S \ {x}) \in Nat
  BY <1>1, FS_CardinalityType
<1> QED
  BY <1>1, <1>2
LEMMA Extremes ==
  ASSUME NEW S \in SUBSET Int, IsFiniteSet(S), S # {}
  PROVE  /\ Max(S) \in S /\ Min(S) \in S
         /\ \A y \in S : Min(S) <= y /\ y <= Max(S)
<1> DEFINE Has(t) == /\ \E x \in t : \A y \in t : x >= y
                     /\ \E x \in t : \A y \in t : x <= y
           Bad == {t \in SUBSET S : t # {} /\ ~ Has(t)}
<1>1. Bad = {}
  <2> SUFFICES ASSUME Bad # {} PROVE FALSE
    OBVIOUS
  <2>1. \A t \in Bad : IsFiniteSet(t)
    BY FS_Subset
  <2> HIDE DEF Bad
  <2>2. PICK t \in Bad : \A u \in Bad : Cardinality(t) <= Cardinality(u)
    BY <2>1, Smallest
  <2>3. t \in SUBSET S /\ t # {} /\ ~ Has(t)
    BY DEF Bad
  <2>4. PICK x \in t : x \in Int
    BY <2>3
  <2>5. t \ {x} \notin Bad
    BY <2>1, <2>2, <2>4, OneLess
  <2>6. t \ {x} = {} \/ Has(t \ {x})
    BY <2>3, <2>5 DEF Bad
  <2>7. Has(t)
    <3>1. \A y \in t : y \in Int
      BY <2>3
    <3>2. CASE t \ {x} = {}
      BY <2>4, <3>1, <3>2
    <3>3. CASE Has(t \ {x})
      <4>1. PICK a \in t \ {x} : \A y \in t \ {x} : a >= y
        BY <3>3
      <4>2. PICK b \in t \ {x} : \A y \in t \ {x} : b <= y
        BY <3>3
      <4>3. (\A y \in t : a >= y) \/ (\A y \in t : x >= y)
        BY <2>4, <3>1, <4>1
      <4>4. (\A y \in t : b <= y) \/ (\A y \in t : x <= y)
        BY <2>4, <3>1, <4>2
      <4> QED
        BY <2>4, <4>1, <4>2, <4>3, <4>4
    <3> QED
      BY <2>6, <3>2, <3>3
  <2> QED
    BY <2>3, <2>7
<1>2. Has(S)
  BY <1>1
<1>3. Max(S) \in S /\ \A y \in S : Max(S) >= y
  BY <1>2 DEF Max
<1>4. Min(S) \in S /\ \A y \in S : Min(S) <= y
  BY <1>2 DEF Min
<1>5. \A y \in S : Max(S) \in Int /\ y \in Int
  BY <1>3
<1> QED
  BY <1>3, <1>4, <1>5

\* The element a fold takes out of a set first, and the equation of the fold
\* that SumFunctionOnSet is, on a collection D of sets.
Pick(s) == CHOOSE x \in s : TRUE

Adds(g, f, D) ==
  g = [s \in D |-> IF s = {} THEN 0 ELSE f[Pick(s)] + g[s \ {Pick(s)}]]

LEMMA SumIsFold ==
  ASSUME NEW f, NEW S
  PROVE  SumFunctionOnSet(f, S) = (CHOOSE g : Adds(g, f, SUBSET S))[S]
BY DEF SumFunctionOnSet, FoldFunctionOnSet, MapThenFoldSet, Adds, Pick

\* Induction on the size of a set: a family of finite sets has a smallest one.
LEMMA PickIn ==
  ASSUME NEW s, s # {}
  PROVE  Pick(s) \in s
BY DEF Pick

\* The fold exists: built up over the subsets of at most n elements.
LEMMA AddsExists ==
  ASSUME NEW f, NEW S, IsFiniteSet(S)
  PROVE  \E g : Adds(g, f, SUBSET S)
<1> DEFINE D(n) == {s \in SUBSET S : Cardinality(s) <= n}
           Bad == {n \in Nat : ~ \E g : Adds(g, f, D(n))}
<1>1. \A s \in SUBSET S : IsFiniteSet(s) /\ Cardinality(s) \in Nat
  BY FS_Subset, FS_CardinalityType
<1>2. Bad = {}
  <2> SUFFICES ASSUME Bad # {} PROVE FALSE
    OBVIOUS
  <2>1. \E n \in Bad : \A m \in Bad : ~ (<<m, n>> \in OpToRel(<, Nat))
    BY WFMin, NatLessThanWellFounded
  <2>2. PICK n \in Bad : \A m \in Bad : ~ (m < n)
    <3>1. PICK n \in Bad : \A m \in Bad : ~ (<<m, n>> \in OpToRel(<, Nat))
      BY <2>1
    <3>2. \A m \in Bad : m < n => <<m, n>> \in OpToRel(<, Nat)
      BY DEF OpToRel
    <3> QED
      BY <3>1, <3>2
  <2>3. CASE n = 0
    <3>1. \A s \in D(0) : s = {}
      BY <1>1, FS_EmptySet
    <3>2. Adds([s \in D(0) |-> 0], f, D(0))
      BY <3>1 DEF Adds
    <3> QED
      BY <2>3, <3>2
  <2>4. CASE n # 0
    <3>1. n - 1 \in Nat /\ n - 1 \notin Bad
      <4>1. n \in Nat /\ n # 0
        BY <2>4
      <4>2. n - 1 \in Nat /\ n - 1 < n
        BY <4>1
      <4> HIDE DEF Bad
      <4> QED
        BY <2>2, <4>2
    <3>2. PICK g : Adds(g, f, D(n - 1))
      BY <3>1
    <3> DEFINE h == [s \in D(n) |->
                       IF s = {} THEN 0 ELSE f[Pick(s)] + g[s \ {Pick(s)}]]
    <3>3. ASSUME NEW s \in D(n), s # {}
          PROVE  h[s \ {Pick(s)}] = g[s \ {Pick(s)}]
      <4> DEFINE t == s \ {Pick(s)}
      <4>1. t \in D(n - 1) /\ t \in D(n)
        <5>1. Pick(s) \in s /\ s \in SUBSET S
          BY <3>3, PickIn
        <5>2. Cardinality(s) = Cardinality(t) + 1 /\ Cardinality(t) \in Nat
          BY <1>1, <5>1, OneLess
        <5> QED
          BY <5>1, <5>2
      <4> HIDE DEF D
      <4> QED
        BY <3>2, <4>1 DEF Adds
    <3>4. Adds(h, f, D(n))
      <4> HIDE DEF D
      <4>1. h = [s \in D(n) |->
                   IF s = {} THEN 0 ELSE f[Pick(s)] + h[s \ {Pick(s)}]]
        BY <3>3
      <4> HIDE DEF h
      <4> QED
        BY <4>1 DEF Adds
    <3> QED
      BY <3>4
  <2> QED
    BY <2>3, <2>4
<1>3. Cardinality(S) \in Nat
  BY <1>1
<1>4. D(Cardinality(S)) = SUBSET S
  BY <1>1, FS_Subset
<1> HIDE DEF D
<1> QED
  BY <1>2, <1>3, <1>4

LEMMA SumFold ==
  ASSUME NEW f, IsFiniteSet(DOMAIN f)
  PROVE  \E g : Adds(g, f, SUBSET DOMAIN f) /\ SumFunction(f) = g[DOMAIN f]
<1>1. SumFunction(f) = (CHOOSE g : Adds(g, f, SUBSET DOMAIN f))[DOMAIN f]
  BY SumIsFold DEF SumFunction
<1>2. \E g : Adds(g, f, SUBSET DOMAIN f)
  BY AddsExists
<1> QED
  BY <1>1, <1>2

LEMMA SumInt ==
  ASSUME NEW f, IsFiniteSet(DOMAIN f), \A x \in DOMAIN f : f[x] \in Int
  PROVE  SumFunction(f) \in Int
<1>1. PICK g : Adds(g, f, SUBSET DOMAIN f) /\ SumFunction(f) = g[DOMAIN f]
  BY SumFold
<1> DEFINE Bad == {s \in SUBSET DOMAIN f : g[s] \notin Int}
<1> SUFFICES ASSUME Bad # {} PROVE FALSE
  BY <1>1
<1>2. \A s \in Bad : IsFiniteSet(s)
  BY FS_Subset
<1>3. PICK s \in Bad : \A t \in Bad : Cardinality(s) <= Cardinality(t)
  BY <1>2, Smallest
<1>4. g[s] = IF s = {} THEN 0 ELSE f[Pick(s)] + g[s \ {Pick(s)}]
  BY <1>1 DEF Adds
<1>5. s # {} /\ Pick(s) \in s /\ f[Pick(s)] \in Int
  BY <1>4, PickIn
<1>6. s \ {Pick(s)} \notin Bad
  BY <1>2, <1>3, <1>5, OneLess
<1> QED
  BY <1>4, <1>5, <1>6

\* A sum of naturals is one, and positive if one of them is.
LEMMA SumNat ==
  ASSUME NEW f, IsFiniteSet(DOMAIN f), \A x \in DOMAIN f : f[x] \in Nat
  PROVE  SumFunction(f) \in Nat /\ ((\E x \in DOMAIN f : f[x] > 0) => SumFunction(f) > 0)
<1>1. PICK g : Adds(g, f, SUBSET DOMAIN f) /\ SumFunction(f) = g[DOMAIN f]
  BY SumFold
<1> DEFINE Good(s) == g[s] \in Nat /\ ((\E x \in s : f[x] > 0) => g[s] > 0)
           Bad == {s \in SUBSET DOMAIN f : ~ Good(s)}
<1> SUFFICES ASSUME Bad # {} PROVE FALSE
  BY <1>1
<1>2. \A s \in Bad : IsFiniteSet(s)
  BY FS_Subset
<1> HIDE DEF Bad
<1>3. PICK s \in Bad : \A t \in Bad : Cardinality(s) <= Cardinality(t)
  BY <1>2, Smallest
<1>4. s \in SUBSET DOMAIN f /\ ~ Good(s)
  BY DEF Bad
<1>5. g[s] = IF s = {} THEN 0 ELSE f[Pick(s)] + g[s \ {Pick(s)}]
  BY <1>1, <1>4 DEF Adds
<1>6. s # {}
  BY <1>4, <1>5
<1>7. Pick(s) \in s /\ f[Pick(s)] \in Nat
  BY <1>4, <1>6, PickIn
<1>8. Good(s \ {Pick(s)})
  <2>1. s \ {Pick(s)} \notin Bad
    BY <1>2, <1>3, <1>7, OneLess
  <2> QED
    BY <1>4, <2>1 DEF Bad
<1>9. Good(s)
  <2> DEFINE c == Pick(s)
             rest == g[s \ {Pick(s)}]
  <2>1. rest \in Nat /\ f[c] \in Nat /\ g[s] = f[c] + rest
    BY <1>5, <1>6, <1>7, <1>8
  <2>2. (\E x \in s : f[x] > 0) => f[c] > 0 \/ rest > 0
    BY <1>8
  <2> HIDE DEF c, rest
  <2> QED
    BY <2>1, <2>2
<1> QED
  BY <1>4, <1>9

LEMMA LastPlace ==
  ASSUME NEW n \in Nat, NEW s \in SUBSET (1..n), s # {}
  PROVE  Max(s) \in s /\ \A y \in s : y <= Max(s)
<1>1. s \in SUBSET Int
  OBVIOUS
<1>2. IsFiniteSet(s)
  <2>1. IsFiniteSet(1..n)
    BY FS_Interval
  <2> QED
    BY <2>1, FS_Subset
<1> QED
  BY <1>1, <1>2, Extremes

LEMMA PlaceInduction ==
  ASSUME NEW n \in Nat, NEW P, {} \in P,
         \A s \in SUBSET (1..n) : s # {} /\ s \ {Max(s)} \in P => s \in P
  PROVE  \A s \in SUBSET (1..n) : s \in P
<1> DEFINE Bad == {s \in SUBSET (1..n) : s \notin P}
<1> SUFFICES ASSUME Bad # {} PROVE FALSE
  OBVIOUS
<1>1. \A s \in Bad : IsFiniteSet(s)
  <2>1. IsFiniteSet(1..n)
    BY FS_Interval
  <2> QED
    BY <2>1, FS_Subset
<1>2. PICK s \in Bad : \A t \in Bad : Cardinality(s) <= Cardinality(t)
  <2> HIDE DEF Bad
  <2> QED
    BY <1>1, Smallest
<1>3. s # {} /\ s \in SUBSET (1..n) /\ s \notin P
  OBVIOUS
<1>4. Max(s) \in s
  BY <1>3, LastPlace
<1>5. s \ {Max(s)} \in SUBSET (1..n)
  BY <1>3
<1>6. Cardinality(s \ {Max(s)}) \in Nat /\ Cardinality(s) \in Nat
  <2>1. IsFiniteSet(s)
    BY <1>1
  <2> HIDE DEF Bad
  <2>2. Cardinality(s) \in Nat
    BY <2>1, FS_CardinalityType
  <2>3. Cardinality(s \ {Max(s)}) \in Nat
    BY <1>4, <2>1, OneLess
  <2> QED
    BY <2>2, <2>3
<1>7. Cardinality(s \ {Max(s)}) < Cardinality(s)
  <2> HIDE DEF Bad
  <2>1. IsFiniteSet(s)
    BY <1>1
  <2>2. Cardinality(s) = Cardinality(s \ {Max(s)}) + 1
    BY <1>4, <2>1, OneLess
  <2> QED
    BY <1>6, <2>2
<1>8. s \ {Max(s)} \notin Bad
  <2> HIDE DEF Bad
  <2> QED
    BY <1>2, <1>6, <1>7
<1> QED
  BY <1>3, <1>5, <1>8

LEMMA SameLast ==
  ASSUME NEW n \in Nat, NEW s \in SUBSET (1..n), NEW t \in SUBSET s, s # {}, Max(s) \in t
  PROVE  Max(t) = Max(s)
<1>1. /\ Max(s) \in s /\ \A y \in s : y <= Max(s)
      /\ Max(t) \in t /\ \A y \in t : y <= Max(t)
  BY LastPlace
<1>2. s \subseteq 1..n /\ 1..n \subseteq Nat
  OBVIOUS
<1>3. Max(s) \in Nat /\ Max(t) \in Nat
  BY <1>1, <1>2, Zenon
<1>4. Max(t) <= Max(s) /\ Max(s) <= Max(t)
  BY <1>1
<1> QED
  BY <1>3, <1>4

\* A fold over places whose values stay in a set T.
Folds(g, base, F, D) ==
  g = [s \in D |-> IF s = {} THEN base ELSE F[<<g[s \ {Max(s)}], Max(s)>>]]

LEMMA FoldExists ==
  ASSUME NEW n \in Nat, NEW base, NEW F
  PROVE  \E g : Folds(g, base, F, SUBSET (1..n))
<1> DEFINE P == {s \in SUBSET (1..n) : \E g : Folds(g, base, F, SUBSET s)}
<1>1. {} \in P
  <2>1. SUBSET {} = {{}}
    OBVIOUS
  <2>2. Folds([s \in {{}} |-> base], base, F, {{}})
    BY DEF Folds
  <2> QED
    BY <2>1, <2>2
<1>2. ASSUME NEW s \in SUBSET (1..n), s # {}, s \ {Max(s)} \in P
      PROVE  s \in P
  <2> DEFINE m == Max(s)
  <2>1. PICK g : Folds(g, base, F, SUBSET (s \ {m}))
    BY <1>2
  <2> HIDE DEF m
  <2> DEFINE h == [t \in SUBSET s |-> IF m \in t THEN F[<<g[t \ {m}], m>>] ELSE g[t]]
  <2>2. ASSUME NEW t \in SUBSET s
        PROVE  h[t] = IF t = {} THEN base ELSE F[<<h[t \ {Max(t)}], Max(t)>>]
    <3>1. CASE m \in t
      <4>1. Max(t) = m
        BY <1>2, <3>1, SameLast DEF m
      <4>2. h[t \ {m}] = g[t \ {m}]
        OBVIOUS
      <4> QED
        BY <3>1, <4>1, <4>2
    <3>2. CASE m \notin t
      <4>1. t \in SUBSET (s \ {m}) /\ h[t] = g[t]
        BY <3>2
      <4>2. g[t] = IF t = {} THEN base ELSE F[<<g[t \ {Max(t)}], Max(t)>>]
        BY <2>1, <4>1 DEF Folds
      <4>3. h[t \ {Max(t)}] = g[t \ {Max(t)}]
        BY <3>2
      <4> QED
        BY <4>1, <4>2, <4>3
    <3> QED
      BY <3>1, <3>2
  <2>3. Folds(h, base, F, SUBSET s)
    <3> HIDE DEF m
    <3>1. DOMAIN h = SUBSET s /\ h = [t \in SUBSET s |-> h[t]]
      OBVIOUS
    <3> HIDE DEF h
    <3> QED
      BY <2>2, <3>1 DEF Folds
  <2> QED
    BY <2>3
<1> HIDE DEF P
<1>3. \A s \in SUBSET (1..n) : s \in P
  BY <1>1, <1>2, PlaceInduction
<1> QED
  BY <1>3 DEF P

LEMMA FoldType ==
  ASSUME NEW n \in Nat, NEW T, NEW base \in T, NEW F \in [T \X (1..n) -> T],
         NEW g, Folds(g, base, F, SUBSET (1..n))
  PROVE  \A s \in SUBSET (1..n) : g[s] \in T
<1> DEFINE P == {s \in SUBSET (1..n) : g[s] \in T}
<1>1. {} \in P
  BY DEF Folds
<1>2. ASSUME NEW s \in SUBSET (1..n), s # {}, s \ {Max(s)} \in P
      PROVE  s \in P
  <2>1. Max(s) \in 1..n /\ g[s \ {Max(s)}] \in T
    BY <1>2, LastPlace
  <2>2. g[s] = F[<<g[s \ {Max(s)}], Max(s)>>]
    BY <1>2 DEF Folds
  <2> QED
    BY <2>1, <2>2
<1> HIDE DEF P
<1>3. \A s \in SUBSET (1..n) : s \in P
  BY <1>1, <1>2, PlaceInduction
<1> QED
  BY <1>3 DEF P

-----------------------------------------------------------------------------
(* What the loads say and weigh is a number, whatever they were fed.       *)

LEMMA VolIsNat ==
  ASSUME NEW q \in Seq((Nat \ {0})), Len(q) >= Lookback + 1
  PROVE  Vol(q) \in Nat
<1> DEFINE k == Lookback + 1
           last == Recent(q, k)
           rets == { (10 * last[i + 1]) \div last[i] : i \in 1..Lookback }
<1>1. Lookback \in Nat \ {0} /\ Len(q) \in Nat /\ k \in Nat
  BY TrendAssumption
<1>2. \A i \in 1..k : last[i] \in (Nat \ {0})
  <2> SUFFICES ASSUME NEW i \in 1..k PROVE last[i] \in (Nat \ {0})
    OBVIOUS
  <2>1. (Len(q) - k + 1) + i - 1 \in 1..Len(q)
    BY <1>1
  <2>2. last[i] = q[(Len(q) - k + 1) + i - 1]
    BY <1>1, <2>1 DEF Recent
  <2> QED
    BY <2>1, <2>2
<1> HIDE DEF last
<1>3. rets \in SUBSET Int /\ rets # {}
  <2>1. ASSUME NEW i \in 1..Lookback
        PROVE  (10 * last[i + 1]) \div last[i] \in Int
    <3>1. i \in 1..k /\ i + 1 \in 1..k
      BY <1>1
    <3>2. last[i] \in (Nat \ {0}) /\ last[i + 1] \in (Nat \ {0})
      BY <1>2, <3>1
    <3> QED
      BY <3>2
  <2>2. 1 \in 1..Lookback
    BY <1>1
  <2> QED
    BY <2>1, <2>2
<1>4. IsFiniteSet(rets)
  <2> DEFINE f == [i \in 1..Lookback |-> (10 * last[i + 1]) \div last[i]]
  <2>1. IsFiniteSet(1..Lookback)
    BY <1>1, FS_Interval
  <2>2. f \in Surjection(1..Lookback, rets)
    BY DEF Surjection
  <2> HIDE DEF f, rets
  <2> QED
    BY <2>1, <2>2, FS_Surjection
<1>5. Vol(q) = Max(rets) - Min(rets)
  BY DEF Vol, last
<1> HIDE DEF rets
<1>6. Max(rets) \in rets /\ Min(rets) \in rets /\ Min(rets) <= Max(rets)
  BY <1>3, <1>4, Extremes
<1>7. Max(rets) \in Int /\ Min(rets) \in Int
  BY <1>3, <1>6
<1> QED
  BY <1>5, <1>6, <1>7

LEMMA PairExtremes ==
  ASSUME NEW a \in Nat, NEW b \in Nat
  PROVE  /\ Max({a, b}) \in Nat /\ Min({a, b}) \in Nat
         /\ Max({a, b}) >= b
<1>1. /\ \E x \in {a, b} : \A y \in {a, b} : x >= y
      /\ \E x \in {a, b} : \A y \in {a, b} : x <= y
  BY a >= b \/ b >= a
<1>2. Max({a, b}) \in {a, b} /\ \A y \in {a, b} : Max({a, b}) >= y
  BY <1>1 DEF Max
<1>3. Min({a, b}) \in {a, b}
  BY <1>1 DEF Min
<1> QED
  BY <1>2, <1>3

LEMMA TargetIsNat ==
  ASSUME NEW vol \in Nat
  PROVE  TargetWeight(vol) \in Nat
<1>1. MaxWeight \in Nat /\ VolTarget \in Nat
  BY TrendAssumption
<1>2. CASE vol = 0
  BY <1>1, <1>2 DEF TargetWeight
<1>3. CASE vol # 0
  <2>1. VolTarget \div vol \in Nat
    BY <1>1, <1>3, Division
  <2>2. Min({MaxWeight, VolTarget \div vol}) \in Nat
    BY <1>1, <2>1, PairExtremes
  <2> QED
    BY <1>3, <2>2 DEF TargetWeight
<1> QED
  BY <1>2, <1>3

Latches == [long : BOOLEAN, target : Nat]
Params == [short : (Nat \ {0}), long : (Nat \ {0})]

LEMMA UpdateType ==
  ASSUME NEW long \in BOOLEAN, NEW q \in Seq((Nat \ {0})), NEW load \in Params
  PROVE  Update(long, q, load) \in Latches
<1>1. CASE Len(q) < WarmupBars(load)
  BY <1>1 DEF Update, Latches
<1>2. CASE ~ (Len(q) < WarmupBars(load))
  <2> DEFINE stay == IF long THEN Vol(q) <= MaxVol /\ ~ Below(q, load)
                             ELSE Vol(q) <= MaxVol /\ Above(q, load)
  <2>1. WarmupBars(load) \in Nat /\ WarmupBars(load) >= Lookback + 1
    <3>1. load.long \in Nat /\ Lookback + 1 \in Nat
      BY TrendAssumption DEF Params
    <3> QED
      BY <3>1, PairExtremes DEF WarmupBars
  <2>2. Len(q) \in Nat /\ Lookback \in Nat
    BY TrendAssumption
  <2>3. Len(q) >= Lookback + 1
    BY <1>2, <2>1, <2>2
  <2>4. TargetWeight(Vol(q)) \in Nat
    BY <2>3, VolIsNat, TargetIsNat
  <2>5. Update(long, q, load) =
          [long |-> stay, target |-> IF stay THEN TargetWeight(Vol(q)) ELSE 0]
    BY <1>2 DEF Update
  <2>6. stay \in BOOLEAN
    OBVIOUS
  <2> HIDE DEF stay
  <2> QED
    BY <2>4, <2>5, <2>6 DEF Latches
<1> QED
  BY <1>1, <1>2

Fresh == [long |-> FALSE, target |-> 0]

Feeds(g, q, load, D) ==
  g = [s \in D |-> IF s = {} THEN Fresh
                   ELSE Update(g[s \ {Max(s)}].long,
                               SubSeq(q, 1, [k \in 1..Len(q) |-> k][Max(s)]), load)]

LEMMA FedIsFold ==
  ASSUME NEW q, NEW load
  PROVE  Fed(q, load) = (CHOOSE g : Feeds(g, q, load, SUBSET DOMAIN [k \in 1..Len(q) |-> k]))
                          [DOMAIN [k \in 1..Len(q) |-> k]]
BY DEF Fed, FoldLeft, MapThenFoldSet, Feeds, Fresh

LEMMA Prefix ==
  ASSUME NEW S, NEW q \in Seq(S), NEW m \in 1..Len(q)
  PROVE  SubSeq(q, 1, m) \in Seq(S)
OBVIOUS

LEMMA FedType ==
  ASSUME NEW q \in Seq((Nat \ {0})), NEW load \in Params
  PROVE  Fed(q, load).target \in Nat
<1> DEFINE n == Len(q)
           F == [x \in Latches \X (1..n) |-> Update(x[1].long, SubSeq(q, 1, x[2]), load)]
<1>1. n \in Nat
  OBVIOUS
<1>2. ASSUME NEW x \in Latches, NEW m \in 1..n
      PROVE  Update(x.long, SubSeq(q, 1, m), load) \in Latches
  <2>1. SubSeq(q, 1, m) \in Seq((Nat \ {0}))
    BY Prefix
  <2>2. x.long \in BOOLEAN
    BY DEF Latches
  <2> QED
    BY <2>1, <2>2, UpdateType
<1>3. F \in [Latches \X (1..n) -> Latches]
  BY <1>2
<1>4. Fresh \in Latches
  BY DEF Fresh, Latches
<1>5. \E g : Feeds(g, q, load, SUBSET (1..n))
  <2>1. PICK g : Folds(g, Fresh, F, SUBSET (1..n))
    BY <1>1, FoldExists
  <2>2. \A s \in SUBSET (1..n) : g[s] \in Latches
    BY <1>1, <1>3, <1>4, <2>1, FoldType
  <2>3. ASSUME NEW s \in SUBSET (1..n), s # {}
        PROVE  F[<<g[s \ {Max(s)}], Max(s)>>]
                 = Update(g[s \ {Max(s)}].long,
                          SubSeq(q, 1, [k \in 1..Len(q) |-> k][Max(s)]), load)
    <3>1. Max(s) \in 1..n /\ g[s \ {Max(s)}] \in Latches
      BY <1>1, <2>2, <2>3, LastPlace
    <3> QED
      BY <3>1
  <2> HIDE DEF F
  <2>4. g = [s \in SUBSET (1..n) |-> IF s = {} THEN Fresh ELSE F[<<g[s \ {Max(s)}], Max(s)>>]]
    BY <2>1 DEF Folds
  <2> DEFINE step(s) == Update(g[s \ {Max(s)}].long,
                               SubSeq(q, 1, [k \in 1..Len(q) |-> k][Max(s)]), load)
  <2>5. \A s \in SUBSET (1..n) : s # {} => F[<<g[s \ {Max(s)}], Max(s)>>] = step(s)
    BY <2>3
  <2>6. Feeds(g, q, load, SUBSET (1..n)) <=>
          g = [s \in SUBSET (1..n) |-> IF s = {} THEN Fresh ELSE step(s)]
    BY DEF Feeds
  <2> HIDE DEF step
  <2>7. g = [s \in SUBSET (1..n) |-> IF s = {} THEN Fresh ELSE step(s)]
    BY <2>4, <2>5
  <2> QED
    BY <2>6, <2>7
<1>6. PICK g : Feeds(g, q, load, SUBSET (1..n)) /\ Fed(q, load) = g[1..n]
  <2>1. DOMAIN [k \in 1..Len(q) |-> k] = 1..n
    OBVIOUS
  <2> QED
    BY <1>5, <2>1, FedIsFold, Zenon
<1> DEFINE P == {s \in SUBSET (1..n) : g[s] \in Latches}
<1>7. {} \in P
  BY <1>4, <1>6 DEF Feeds
<1>8. ASSUME NEW s \in SUBSET (1..n), s # {}, s \ {Max(s)} \in P
      PROVE  s \in P
  <2>1. Max(s) \in 1..n /\ g[s \ {Max(s)}] \in Latches
    BY <1>1, <1>8, LastPlace
  <2>2. g[s] = Update(g[s \ {Max(s)}].long,
                      SubSeq(q, 1, [k \in 1..Len(q) |-> k][Max(s)]), load)
    BY <1>6, <1>8 DEF Feeds
  <2>3. [k \in 1..Len(q) |-> k][Max(s)] = Max(s)
    BY <2>1
  <2> QED
    BY <1>2, <2>1, <2>2, <2>3
<1> HIDE DEF P
<1>9. \A s \in SUBSET (1..n) : s \in P
  BY <1>1, <1>7, <1>8, PlaceInduction
<1>10. Fed(q, load) \in Latches
  BY <1>6, <1>9 DEF P
<1> QED
  BY <1>10 DEF Latches

LEMMA ShareIsNat ==
  ASSUME NEW D, IsFiniteSet(D), D # {}, NEW w, DOMAIN w = D
  PROVE  EqualShare(w) \in Nat /\ Floor(w) \in Nat /\ Cap(w) \in Nat
<1>1. Cardinality(D) \in Nat \ {0}
  BY FS_CardinalityType, FS_EmptySet
<1>2. Whole \in Nat /\ FloorPct \in Nat /\ CapPct \in Nat
  BY PolicyAssumption
<1>3. EqualShare(w) \in Nat
  BY <1>1, <1>2, Division DEF EqualShare
<1>4. FloorPct * EqualShare(w) \in Nat /\ CapPct * EqualShare(w) \in Nat
  BY <1>2, <1>3
<1>5. \A m \in Nat : m \div 100 \in Nat
  BY Division
<1> QED
  BY <1>3, <1>4, <1>5 DEF Floor, Cap

LEMMA ScaledType ==
  ASSUME NEW D, IsFiniteSet(D), D # {}, NEW w \in [D -> Nat]
  PROVE  Scaled(w) \in [D -> Nat]
<1>1. Total(w) \in Nat
  BY SumNat DEF Total
<1>2. EqualShare(w) \in Nat
  BY ShareIsNat
<1>3. ASSUME NEW n \in D, ~ (Total(w) <= 0)
      PROVE  (w[n] * Whole) \div Total(w) \in Nat
  <2>1. w[n] * Whole \in Nat /\ Total(w) \in Nat \ {0}
    BY <1>1, <1>3, PolicyAssumption
  <2> QED
    BY <2>1, Division
<1> QED
  BY <1>2, <1>3 DEF Scaled

Round(v, i) ==
  IF i > 1 /\ Guarded(v) THEN v
  ELSE Scaled(Clamped(v))

LEMMA RoundType ==
  ASSUME NEW D, IsFiniteSet(D), D # {}, NEW v \in [D -> Nat], NEW i
  PROVE  Round(v, i) \in [D -> Nat]
<1>1. \A n \in D : Min({Cap(v), Max({Floor(v), v[n]})}) \in Nat
  <2>1. Floor(v) \in Nat /\ Cap(v) \in Nat
    BY ShareIsNat
  <2> QED
    BY <2>1, PairExtremes
<1>2. [n \in DOMAIN v |-> Min({Cap(v), Max({Floor(v), v[n]})})] \in [D -> Nat]
  BY <1>1
<1>3. Scaled([n \in DOMAIN v |-> Min({Cap(v), Max({Floor(v), v[n]})})]) \in [D -> Nat]
  BY <1>2, ScaledType
<1> QED
  BY <1>3 DEF Round, Clamped

Clamps(g, w, D) ==
  g = [s \in D |-> IF s = {} THEN w
                   ELSE Round(g[s \ {Max(s)}], [i \in 1..Iters |-> i][Max(s)])]

LEMMA ClampIsFold ==
  ASSUME NEW w
  PROVE  ClampNormalize(w) = (CHOOSE g : Clamps(g, w, SUBSET DOMAIN [i \in 1..Iters |-> i]))
                               [DOMAIN [i \in 1..Iters |-> i]]
BY DEF ClampNormalize, FoldLeft, MapThenFoldSet, Clamps, Round

LEMMA ClampFold ==
  ASSUME NEW D, IsFiniteSet(D), D # {}, NEW w \in [D -> Nat]
  PROVE  \E g : Clamps(g, w, SUBSET (1..Iters)) /\ ClampNormalize(w) = g[1..Iters]
<1> DEFINE T == [D -> Nat]
           F == [x \in T \X (1..Iters) |-> Round(x[1], [i \in 1..Iters |-> i][x[2]])]
           step(g, s) == Round(g[s \ {Max(s)}], [i \in 1..Iters |-> i][Max(s)])
<1>1. Iters \in Nat
  BY PolicyAssumption
<1>2. F \in [T \X (1..Iters) -> T]
  <2>1. \A x \in T \X (1..Iters) : x[1] \in T
    OBVIOUS
  <2>2. \A v \in T : \A i : Round(v, i) \in T
    BY RoundType
  <2> HIDE DEF T
  <2> QED
    BY <2>1, <2>2
<1> HIDE DEF T
<1>3. \E g : Clamps(g, w, SUBSET (1..Iters))
  <2>1. PICK g : Folds(g, w, F, SUBSET (1..Iters))
    BY <1>1, FoldExists
  <2>2. \A s \in SUBSET (1..Iters) : g[s] \in T
    BY <1>1, <1>2, <2>1, FoldType DEF T
  <2>3. ASSUME NEW s \in SUBSET (1..Iters), s # {}
        PROVE  F[<<g[s \ {Max(s)}], Max(s)>>] = step(g, s)
    <3>1. Max(s) \in 1..Iters /\ g[s \ {Max(s)}] \in T
      BY <1>1, <2>2, <2>3, LastPlace
    <3> QED
      BY <3>1
  <2> HIDE DEF F
  <2>4. g = [s \in SUBSET (1..Iters) |-> IF s = {} THEN w ELSE F[<<g[s \ {Max(s)}], Max(s)>>]]
    BY <2>1 DEF Folds
  <2>5. \A s \in SUBSET (1..Iters) : s # {} => F[<<g[s \ {Max(s)}], Max(s)>>] = step(g, s)
    BY <2>3
  <2>6. Clamps(g, w, SUBSET (1..Iters)) <=>
          g = [s \in SUBSET (1..Iters) |-> IF s = {} THEN w ELSE step(g, s)]
    BY DEF Clamps
  <2> HIDE DEF step
  <2>7. g = [s \in SUBSET (1..Iters) |-> IF s = {} THEN w ELSE step(g, s)]
    BY <2>4, <2>5
  <2> QED
    BY <2>6, <2>7
<1>4. DOMAIN [i \in 1..Iters |-> i] = 1..Iters
  OBVIOUS
<1> QED
  BY <1>3, <1>4, ClampIsFold, Zenon

LEMMA ClampType ==
  ASSUME NEW D, IsFiniteSet(D), D # {}, NEW w \in [D -> Nat]
  PROVE  ClampNormalize(w) \in [D -> Nat]
<1> DEFINE T == [D -> Nat]
           step(g, s) == Round(g[s \ {Max(s)}], [i \in 1..Iters |-> i][Max(s)])
<1> HIDE DEF T
<1>1. Iters \in Nat
  BY PolicyAssumption
<1>2. PICK g : Clamps(g, w, SUBSET (1..Iters)) /\ ClampNormalize(w) = g[1..Iters]
  BY ClampFold
<1> DEFINE P == {s \in SUBSET (1..Iters) : g[s] \in T}
<1>3. {} \in P
  BY <1>2 DEF Clamps, T
<1>4. ASSUME NEW s \in SUBSET (1..Iters), s # {}, s \ {Max(s)} \in P
      PROVE  s \in P
  <2>1. g[s \ {Max(s)}] \in T
    BY <1>4
  <2>2. g[s] = step(g, s)
    BY <1>2, <1>4 DEF Clamps
  <2>3. step(g, s) \in T
    BY <2>1, RoundType DEF T
  <2> QED
    BY <2>2, <2>3
<1> HIDE DEF P
<1>5. \A s \in SUBSET (1..Iters) : s \in P
  BY <1>1, <1>3, <1>4, PlaceInduction
<1> QED
  BY <1>2, <1>5 DEF P, T

LEMMA BlendedType ==
  ASSUME NEW scores \in [Loads -> Int], NEW passed, NEW prev,
         \A n \in DOMAIN prev : prev[n] \in Nat
  PROVE  \E raw \in [Loads -> Nat], blended \in [Loads -> Nat] :
           ComputeWeights(scores, passed, prev) =
             IF Total(raw) = 0 THEN [n \in Loads |-> EqualShare(raw)] ELSE ClampNormalize(blended)
<1> DEFINE raw == [n \in DOMAIN scores |-> IF n \in passed THEN Max({0, scores[n]}) ELSE 0]
           before(n) == IF n \in DOMAIN prev THEN prev[n] ELSE EqualShare(raw)
           blend(n) == (EwmaPct * Scaled(raw)[n] + (100 - EwmaPct) * before(n)) \div 100
<1>1. IsFiniteSet(Loads) /\ Loads # {}
  BY PathAssumption
<1>2. raw \in [Loads -> Nat]
  <2>1. \A m \in Int : Max({0, m}) \in Nat
    <3> SUFFICES ASSUME NEW m \in Int PROVE Max({0, m}) \in Nat
      OBVIOUS
    <3>1. \E x \in {0, m} : \A y \in {0, m} : x >= y
      BY m >= 0 \/ 0 >= m
    <3>2. Max({0, m}) \in {0, m} /\ Max({0, m}) >= 0
      BY <3>1 DEF Max
    <3> QED
      BY <3>2
  <2> QED
    BY <2>1
<1> HIDE DEF raw
<1>3. EqualShare(raw) \in Nat /\ Scaled(raw) \in [Loads -> Nat]
  BY <1>1, <1>2, ShareIsNat, ScaledType
<1>4. \A n \in Loads : before(n) \in Nat
  BY <1>3
<1> HIDE DEF before
<1>5. ASSUME NEW n \in Loads
      PROVE  blend(n) \in Nat
  <2>1. EwmaPct \in Nat /\ 100 - EwmaPct \in Nat
    BY PolicyAssumption
  <2>2. Scaled(raw)[n] \in Nat /\ before(n) \in Nat
    BY <1>3, <1>4
  <2>3. EwmaPct * Scaled(raw)[n] + (100 - EwmaPct) * before(n) \in Nat
    BY <2>1, <2>2
  <2> QED
    BY <2>3, Division
<1>6. [n \in DOMAIN raw |-> blend(n)] \in [Loads -> Nat]
  BY <1>2, <1>5
<1> HIDE DEF blend
<1>7. DOMAIN raw = Loads
  BY <1>2
<1>8. ComputeWeights(scores, passed, prev) =
        IF Total(raw) = 0 THEN [n \in DOMAIN raw |-> EqualShare(raw)]
        ELSE ClampNormalize([n \in DOMAIN raw |-> blend(n)])
  BY DEF ComputeWeights, raw, blend, before
<1> QED
  BY <1>2, <1>6, <1>7, <1>8

LEMMA ComputedType ==
  ASSUME NEW scores \in [Loads -> Int], NEW passed, NEW prev,
         \A n \in DOMAIN prev : prev[n] \in Nat
  PROVE  ComputeWeights(scores, passed, prev) \in [Loads -> Nat]
<1>1. IsFiniteSet(Loads) /\ Loads # {}
  BY PathAssumption
<1>2. PICK raw \in [Loads -> Nat], blended \in [Loads -> Nat] :
        ComputeWeights(scores, passed, prev) =
          IF Total(raw) = 0 THEN [n \in Loads |-> EqualShare(raw)] ELSE ClampNormalize(blended)
  BY BlendedType
<1>3. EqualShare(raw) \in Nat /\ ClampNormalize(blended) \in [Loads -> Nat]
  <2>1. DOMAIN raw = Loads
    OBVIOUS
  <2> QED
    BY <1>1, <2>1, ShareIsNat, ClampType
<1> QED
  BY <1>2, <1>3

LEMMA CombinedType ==
  ASSUME NEW last \in [Loads -> [bar : Nat, target : Nat]], NEW bar, NEW weights,
         \A n \in Loads : weights[n] \in Nat,
         CombinedForBar(last, Loads, bar, weights) # Unknown
  PROVE  CombinedForBar(last, Loads, bar, weights) \in [num : Int, den : (Nat \ {0})]
<1> DEFINE f == [n \in Loads |-> weights[n] * last[n].target]
           h == [n \in Loads |-> weights[n]]
<1>1. (\E n \in Loads : weights[n] > 0) /\
      CombinedForBar(last, Loads, bar, weights) = [num |-> SumFunction(f),
                                                   den |-> Tenths * SumFunction(h)]
  BY DEF CombinedForBar, Weighted
<1>2. IsFiniteSet(Loads) /\ Tenths \in Nat \ {0}
  BY PathAssumption, BandAssumption
<1>3. SumFunction(f) \in Int
  <2>1. DOMAIN f = Loads /\ \A n \in Loads : f[n] \in Int
    OBVIOUS
  <2> HIDE DEF f
  <2> QED
    BY <1>2, <2>1, SumInt
<1>4. SumFunction(h) \in (Nat \ {0})
  <2>1. DOMAIN h = Loads /\ (\A n \in Loads : h[n] \in Nat) /\ \E n \in Loads : h[n] > 0
    BY <1>1
  <2> HIDE DEF h
  <2>2. SumFunction(h) \in Nat /\ SumFunction(h) > 0
    BY <1>2, <2>1, SumNat
  <2> QED
    BY <2>2
<1> HIDE DEF f, h
<1>5. Tenths * SumFunction(h) \in (Nat \ {0})
  BY <1>2, <1>4
<1> QED
  BY <1>1, <1>3, <1>5

LEMMA LoadedType ==
  ASSUME \A n \in DOMAIN rows : rows[n] \in Nat
  PROVE  \A n \in Loads : LoadWeights(Loads, rows, Adaptive)[n] \in Nat
BY DEF LoadWeights

LEMMA EquityType ==
  ASSUME NEW money \in Int, NEW shares \in [Symbols -> Nat],
         NEW prices, DOMAIN prices \subseteq Symbols,
         \A s \in DOMAIN prices : prices[s] \in Nat
  PROVE  Equity(money, shares, prices) \in Int
<1> DEFINE f == [s \in DOMAIN shares \cap DOMAIN prices |-> shares[s] * prices[s]]
<1>1. DOMAIN f = DOMAIN prices /\ IsFiniteSet(DOMAIN prices)
  BY PathAssumption, FS_Subset
<1>2. \A s \in DOMAIN f : f[s] \in Int
  BY <1>1
<1> HIDE DEF f
<1>3. SumFunction(f) \in Int
  BY <1>1, <1>2, SumInt
<1> QED
  BY <1>3 DEF Equity, f

LEMMA HalfUpType ==
  ASSUME NEW m \in Int
  PROVE  HalfUp(m) \in Int
<1>1. 2 * Quantum \in Nat \ {0} /\ 2 * m + Quantum \in Int /\ Quantum \in Int
  BY QuantumAssumption
<1>2. \A a \in Int : \A b \in Nat \ {0} : a \div b \in Int
  OBVIOUS
<1>3. (2 * m + Quantum) \div (2 * Quantum) \in Int
  BY <1>1, <1>2
<1> QED
  BY <1>1, <1>3 DEF HalfUp

LEMMA CostType ==
  ASSUME NEW p \in Nat, NEW qty \in Nat
  PROVE  Cost(p, qty) \in Int /\ Proceeds(p, qty) \in Int
<1>1. p * qty \in Nat /\ p * qty * FeeNum \in Nat /\ FeeDen \in Nat \ {0}
  BY FeeAssumption
<1>2. Fee(p, qty) \in Nat
  BY <1>1, RoundedFee DEF Fee
<1> QED
  BY <1>1, <1>2 DEF Cost, Proceeds

-----------------------------------------------------------------------------
(* What is on sale is held.  Signals, weights and prices are numbers, so   *)
(* that a decision is one that DecisionsAreCovered is about.               *)

Messages == [sym : Symbols, load : Loads, bar : Nat, target : Nat]
Quotes == UNION {[D -> Nat] : D \in SUBSET Symbols}
Acts == [sym : Symbols, bar : Nat, w : [num : Int, den : Nat \ {0}],
         prices : Quotes, todo : SUBSET Accounts]
Signalled == [Symbols -> [Loads -> [bar : Nat, target : Nat]]]

SignalType ==
  /\ topic \subseteq Messages /\ seen \subseteq Messages
  /\ latest \in Signalled
  /\ \A n \in DOMAIN rows : rows[n] \in Nat

\* An act and an order are about a symbol that has traded.
ActType ==
  cmd # Idle => cmd \in Acts /\ \A s \in DOMAIN cmd.prices : ticks[s] # << >>

OrderType(o) ==
  /\ o.account \in Accounts /\ o.sym \in Symbols /\ o.qty \in Nat
  /\ ticks[o.sym] # << >>

Booked ==
  /\ cash \in [Accounts -> Int] /\ held \in [Accounts -> [Symbols -> Nat]]
  /\ \A o \in orders : OrderType(o)

Tradable == SignalType /\ ActType /\ Booked /\ SalesAreHeld

LEMMA ClosesType ==
  ASSUME NEW q \in Seq([day : Nat, close : Nat \ {0}])
  PROVE  Closes(q) \in Seq(Nat \ {0})
<1> DEFINE R == [day : Nat, close : Nat \ {0}]
<1>0. q \in Seq(R)
  OBVIOUS
<1> HIDE DEF R
<1>1. Len(q) \in Nat /\ \A i \in 1..Len(q) : q[i] \in R
  BY <1>0
<1>2. \A i \in 1..Len(q) : q[i].close \in Nat \ {0}
  BY <1>1 DEF R
<1> QED
  BY <1>1, <1>2 DEF Closes

LEMMA SignalsType ==
  ASSUME NEW s \in Symbols, NEW q \in Seq([day : Nat, close : Nat \ {0}]), NEW bar \in Nat
  PROVE  Signals(s, q, bar) \subseteq Messages
<1>1. ASSUME NEW n \in Loads
      PROVE  Fed(Closes(q), LoadOf[n]).target \in Nat
  <2>1. LoadOf[n] \in Params
    BY PathAssumption DEF Params
  <2>2. Closes(q) \in Seq(Nat \ {0})
    BY ClosesType
  <2> QED
    BY <2>1, <2>2, FedType
<1> QED
  BY <1>1 DEF Signals, Messages

LEMMA PricesType ==
  ASSUME StreamType
  PROVE  /\ \A quoted \in SUBSET Traded : LatestPrices(quoted) \in Quotes
         /\ \A s \in Symbols : ticks[s] # << >> => Last(ticks[s]).price \in Nat
<1>1. ASSUME NEW s \in Symbols, ticks[s] # << >>
      PROVE  Last(ticks[s]).price \in Nat
  <2> DEFINE q == ticks[s]
             R == [day : Nat, price : Nat \ {0}]
  <2>1. q \in Seq(R)
    BY DEF StreamType
  <2>2. \A r \in R : r.price \in Nat
    OBVIOUS
  <2> HIDE DEF R, q
  <2>3. q # << >> => Last(q) \in R
    BY <2>1 DEF Last
  <2> QED
    BY <1>1, <2>2, <2>3 DEF q
<1>2. ASSUME NEW quoted \in SUBSET Traded
      PROVE  LatestPrices(quoted) \in [quoted -> Nat] /\ quoted \in SUBSET Symbols
  BY <1>1 DEF LatestPrices, Traded
<1> QED
  BY <1>1, <1>2 DEF Quotes

LEMMA InitTradable == Init => Tradable
<1> SUFFICES ASSUME Init PROVE Tradable
  OBVIOUS
<1>1. cash \in [Accounts -> Int]
  BY PathAssumption DEF Init
<1>2. Booked /\ SalesAreHeld
  BY <1>1 DEF Init, Booked, SalesAreHeld, OneOrderEach
<1>3. SignalType
  <2>1. DOMAIN rows = {}
    BY DEF Init
  <2>2. latest \in Signalled
    BY DEF Init, NoSignal, Signalled
  <2> QED
    BY <2>1, <2>2 DEF Init, SignalType
<1> QED
  BY <1>2, <1>3 DEF Init, Tradable, ActType

\* What the worker publishes.
LEMMA PublishTradable ==
  ASSUME Tradable, Stream', Prime \/ \E s \in Symbols : OnTick(s), Stream
  PROVE  Tradable'
<1>1. fed' \in [Symbols -> Seq([day : Nat, close : Nat \ {0}])] /\ rolled \in Nat
  BY DEF Stream, StreamType
<1>2. topic' \subseteq Messages
  <2>1. topic \subseteq Messages
    BY DEF Tradable, SignalType
  <2>2. CASE Prime
    <3>1. topic' = topic \union UNION {Signals(s, Candles(s), rolled) : s \in Symbols}
      BY <2>2 DEF Prime
    <3>2. \A s \in Symbols : fed'[s] = Candles(s)
      BY <2>2 DEF Prime
    <3>3. \A s \in Symbols : Signals(s, Candles(s), rolled) \subseteq Messages
      BY <1>1, <3>2, SignalsType
    <3> QED
      BY <2>1, <3>1, <3>3
  <2>3. CASE \E s \in Symbols : OnTick(s)
    <3>1. PICK s \in Symbols : OnTick(s)
      BY <2>3
    <3> DEFINE longer == Append(fed[s], [day |-> curDay[s], close |-> dayClose[s]])
    <3>2. \/ UNCHANGED topic
          \/ /\ fed' = [fed EXCEPT ![s] = longer]
             /\ topic' = topic \union Signals(s, longer, curDay[s])
      BY <3>1 DEF OnTick
    <3>3. curDay[s] \in Nat /\ DOMAIN fed = Symbols
      BY DEF Stream, StreamType
    <3> HIDE DEF longer
    <3>4. fed' = [fed EXCEPT ![s] = longer] => Signals(s, longer, curDay[s]) \subseteq Messages
      BY <1>1, <3>3, SignalsType
    <3> QED
      BY <2>1, <3>2, <3>4
  <2> QED
    BY <2>2, <2>3
<1>3. UNCHANGED <<ticks, seen, rows, latest, cmd, cash, held, orders>>
  BY DEF Prime, OnTick, market, weighting, commander, ledger
<1>4. SignalType'
  BY <1>2, <1>3 DEF Tradable, SignalType
<1>5. ActType' /\ Booked' /\ SalesAreHeld'
  BY <1>3 DEF Tradable, ActType, Booked, OrderType, SalesAreHeld, OneOrderEach
<1> QED
  BY <1>4, <1>5 DEF Tradable

LEMMA TradeTradable ==
  ASSUME Tradable, StreamType, NEW s \in Symbols, NEW p \in Prices, Trade(s, p)
  PROVE  Tradable'
<1>1. /\ ticks' = [ticks EXCEPT ![s] = Append(@, [day |-> day, price |-> p])]
      /\ UNCHANGED <<topic, seen, rows, latest, cmd, cash, held, orders>>
  BY DEF Trade, weighting, commander, ledger
<1>2. \A t : ticks[t] # << >> => ticks'[t] # << >>
  <2>1. Append(ticks[s], [day |-> day, price |-> p]) # << >>
    <3>1. /\ ticks[s] \in Seq([day : Nat, price : Nat \ {0}])
          /\ [day |-> day, price |-> p] \in [day : Nat, price : Nat \ {0}]
      BY PathAssumption DEF StreamType
    <3>2. Len(Append(ticks[s], [day |-> day, price |-> p])) # 0
      BY <3>1
    <3> QED
      BY <3>2
  <2>2. DOMAIN ticks = Symbols
    BY DEF StreamType
  <2> QED
    BY <1>1, <2>1, <2>2
<1>3. SignalType'
  BY <1>1 DEF Tradable, SignalType
<1>4. ActType' /\ Booked' /\ SalesAreHeld'
  BY <1>1, <1>2 DEF Tradable, ActType, Booked, OrderType, SalesAreHeld, OneOrderEach
<1> QED
  BY <1>3, <1>4 DEF Tradable

LEMMA ReadTradable ==
  ASSUME Tradable, StreamType, NEW m \in topic, Read(m)
  PROVE  Tradable'
<1>1. m \in Messages /\ latest \in Signalled
  BY DEF Tradable, SignalType
<1>2. latest' \in Signalled
  <2>1. latest' = [latest EXCEPT ![m.sym][m.load] = [bar |-> m.bar, target |-> m.target]]
    BY DEF Read
  <2>2. /\ m.sym \in Symbols /\ m.load \in Loads
        /\ [bar |-> m.bar, target |-> m.target] \in [bar : Nat, target : Nat]
    BY <1>1 DEF Messages
  <2> QED
    BY <1>1, <2>1, <2>2 DEF Signalled
<1>3. SignalType'
  BY <1>2 DEF Read, Tradable, SignalType, weighting
<1>4. ActType'
  <2> DEFINE w == CombinedForBar(latest'[m.sym], Loads, m.bar,
                                 LoadWeights(Loads, rows, Adaptive))
             act(quoted) == [sym |-> m.sym, bar |-> m.bar, w |-> w,
                             prices |-> LatestPrices(quoted), todo |-> Accounts]
  <2>1. PICK quoted \in SUBSET Traded :
          cmd' = IF acted[m.sym] = m.bar \/ w = Unknown THEN Idle ELSE act(quoted)
    BY DEF Read
  <2>2. ASSUME w # Unknown
        PROVE  w \in [num : Int, den : Nat \ {0}]
    <3>1. latest'[m.sym] \in [Loads -> [bar : Nat, target : Nat]]
      BY <1>1, <1>2 DEF Messages, Signalled
    <3>2. \A n \in Loads : LoadWeights(Loads, rows, Adaptive)[n] \in Nat
      BY LoadedType DEF Tradable, SignalType
    <3> QED
      BY <2>2, <3>1, <3>2, CombinedType
  <2> HIDE DEF w
  <2>3. /\ m.sym \in Symbols /\ m.bar \in Nat /\ LatestPrices(quoted) \in Quotes
        /\ \A s \in DOMAIN LatestPrices(quoted) : ticks[s] # << >>
    BY <1>1, <2>1, PricesType DEF Messages, LatestPrices, Traded
  <2>4. ASSUME w # Unknown
        PROVE  act(quoted) \in Acts
    BY <2>2, <2>3, <2>4 DEF Acts
  <2>5. cmd' = Idle \/ (act(quoted) \in Acts /\ cmd' = act(quoted))
    BY <2>1, <2>4
  <2>6. act(quoted).prices = LatestPrices(quoted)
    OBVIOUS
  <2>7. UNCHANGED ticks
    BY DEF Read, market
  <2> HIDE DEF act
  <2> QED
    BY <2>3, <2>5, <2>6, <2>7 DEF ActType
<1>5. Booked' /\ SalesAreHeld'
  BY DEF Read, market, ledger, Tradable, Booked, OrderType, SalesAreHeld, OneOrderEach
<1> QED
  BY <1>3, <1>4, <1>5 DEF Tradable

\* What an act decides for an account.
LEMMA DecisionHeld ==
  ASSUME Tradable, cmd # Idle, NEW a \in Accounts, Decision(a) # None
  PROVE  /\ cmd.sym \in DOMAIN cmd.prices
         /\ Decision(a).qty \in Nat
         /\ Decision(a).side = "SELL" => Decision(a).qty <= held[a][cmd.sym]
<1> DEFINE s == cmd.sym
           money == cash[a]
           shares == held[a]
           equity == Equity(money, shares, cmd.prices)
           order == Decide(shares[s], cmd.prices[s], money, equity, cmd.w)
<1>1. s \in DOMAIN cmd.prices /\ Decision(a) = order
  BY DEF Decision
<1>2. cmd \in Acts
  BY DEF Tradable, ActType
<1>3. s \in Symbols /\ cmd.w \in [num : Int, den : Nat \ {0}] /\ cmd.prices \in Quotes
  BY <1>2 DEF Acts
<1>4. DOMAIN cmd.prices \subseteq Symbols /\ \A x \in DOMAIN cmd.prices : cmd.prices[x] \in Nat
  BY <1>3 DEF Quotes
<1>5. money \in Int /\ shares \in [Symbols -> Nat]
  BY DEF Tradable, Booked
<1>6. equity \in Int
  <2> DEFINE prices == cmd.prices
  <2>1. DOMAIN prices \subseteq Symbols /\ \A x \in DOMAIN prices : prices[x] \in Nat
    BY <1>4
  <2> HIDE DEF prices, money, shares
  <2> QED
    BY <1>5, <2>1, EquityType DEF prices
<1> HIDE DEF equity
<1>7. shares[s] \in Nat /\ cmd.prices[s] \in Int
  BY <1>1, <1>3, <1>4, <1>5
<1>8. /\ order.qty \in Nat
      /\ order.side = "SELL" => order.qty <= shares[s]
  <2> DEFINE qty == shares[s]
             price == cmd.prices[s]
             w == cmd.w
  <2>1. /\ qty \in Nat /\ price \in Int /\ money \in Int /\ equity \in Int
        /\ w \in [num : Int, den : Nat \ {0}]
    BY <1>3, <1>5, <1>6, <1>7
  <2> HIDE DEF qty, price, w, money
  <2> QED
    BY <2>1, DecisionsAreCovered DEF qty, price, w
<1> QED
  BY <1>1, <1>8

LEMMA ActTradable ==
  ASSUME Tradable, NEW a \in Accounts, RebalanceAccount(a)
  PROVE  Tradable'
<1> DEFINE new == [account |-> a, sym |-> cmd.sym, w |-> cmd.w,
                   side |-> Decision(a).side, qty |-> Decision(a).qty, at |-> cmd.prices]
<1>1. /\ cmd # Idle /\ a \in cmd.todo
      /\ cmd' = [cmd EXCEPT !.todo = @ \ {a}]
      /\ orders' = IF Decision(a) = None THEN orders ELSE orders \union {new}
      /\ UNCHANGED <<ticks, topic, seen, rows, latest, cash, held>>
  BY DEF RebalanceAccount, market, weighting
<1>2. cmd \in Acts /\ \A s \in DOMAIN cmd.prices : ticks[s] # << >>
  BY <1>1 DEF Tradable, ActType
<1>3. SignalType'
  BY <1>1 DEF Tradable, SignalType
<1>4. cmd' \in Acts /\ cmd'.prices = cmd.prices
  BY <1>1, <1>2 DEF Acts
<1>5. ActType'
  BY <1>1, <1>2, <1>4 DEF ActType
<1>6. ASSUME Decision(a) # None
      PROVE  /\ OrderType(new)
             /\ new.side = "SELL" => new.qty <= held[new.account][new.sym]
  <2>1. /\ cmd.sym \in DOMAIN cmd.prices /\ Decision(a).qty \in Nat
        /\ Decision(a).side = "SELL" => Decision(a).qty <= held[a][cmd.sym]
    BY <1>1, <1>6, DecisionHeld
  <2>2. cmd.sym \in Symbols
    BY <1>2 DEF Acts
  <2>3. /\ new.account = a /\ new.sym = cmd.sym
        /\ new.side = Decision(a).side /\ new.qty = Decision(a).qty
    OBVIOUS
  <2> HIDE DEF new
  <2> QED
    BY <1>2, <2>1, <2>2, <2>3 DEF OrderType
<1> HIDE DEF new
<1>7. Booked'
  BY <1>1, <1>6 DEF Tradable, Booked, OrderType
<1>8. OneOrderEach'
  BY ActKeepsOne DEF Tradable, SalesAreHeld
<1>9. SalesAreHeld'
  BY <1>1, <1>6, <1>8 DEF Tradable, SalesAreHeld
<1> QED
  BY <1>3, <1>5, <1>7, <1>9 DEF Tradable

LEMMA ExecuteTradable ==
  ASSUME Tradable, StreamType, NEW o \in orders, Execute(o)
  PROVE  Tradable'
<1> DEFINE p == Last(ticks[o.sym]).price
           covered == IF o.side = "BUY" THEN Cost(p, o.qty) <= cash[o.account]
                                        ELSE o.qty <= held[o.account][o.sym]
           paid == IF o.side = "BUY" THEN HalfUp(cash[o.account] - Cost(p, o.qty))
                                     ELSE HalfUp(cash[o.account] + Proceeds(p, o.qty))
           left == IF o.side = "BUY" THEN held[o.account][o.sym] + o.qty
                                     ELSE held[o.account][o.sym] - o.qty
<1>1. /\ orders' = orders \ {o}
      /\ IF covered THEN /\ cash' = [cash EXCEPT ![o.account] = paid]
                         /\ held' = [held EXCEPT ![o.account][o.sym] = left]
                    ELSE UNCHANGED <<cash, held>>
      /\ UNCHANGED <<ticks, topic, seen, rows, latest, cmd>>
  BY DEF Execute, market, weighting, commander
<1>2. /\ OrderType(o) /\ cash \in [Accounts -> Int] /\ held \in [Accounts -> [Symbols -> Nat]]
  BY DEF Tradable, Booked
<1>3. /\ o.account \in Accounts /\ o.sym \in Symbols /\ o.qty \in Nat /\ p \in Nat
      /\ cash[o.account] \in Int /\ held[o.account][o.sym] \in Nat
  BY <1>2, PricesType DEF OrderType
<1>4. paid \in Int
  <2>1. Cost(p, o.qty) \in Int /\ Proceeds(p, o.qty) \in Int
    BY <1>3, CostType
  <2> HIDE DEF p
  <2>2. cash[o.account] - Cost(p, o.qty) \in Int /\ cash[o.account] + Proceeds(p, o.qty) \in Int
    BY <1>3, <2>1
  <2> QED
    BY <2>2, HalfUpType
<1>5. covered => left \in Nat
  BY <1>3
<1> HIDE DEF p, covered, paid, left
<1>6. cash' \in [Accounts -> Int] /\ held' \in [Accounts -> [Symbols -> Nat]]
  <2>1. CASE covered
    <3>1. left \in Nat
      BY <1>5, <2>1
    <3>2. /\ cash' = [cash EXCEPT ![o.account] = paid]
          /\ held' = [held EXCEPT ![o.account][o.sym] = left]
      BY <1>1, <2>1
    <3>3. [held[o.account] EXCEPT ![o.sym] = left] \in [Symbols -> Nat]
      BY <1>2, <1>3, <3>1
    <3> QED
      BY <1>2, <1>3, <1>4, <3>2, <3>3
  <2>2. CASE ~ covered
    BY <1>1, <1>2, <2>2
  <2> QED
    BY <2>1, <2>2
<1>7. Booked'
  BY <1>1, <1>6 DEF Tradable, Booked, OrderType
<1>8. OneOrderEach'
  BY <1>1 DEF Tradable, SalesAreHeld, OneOrderEach
\* An order that still waits is of another account or symbol.
<1>9. ASSUME NEW q \in orders', q.side = "SELL"
      PROVE  q.qty <= held'[q.account][q.sym]
  <2>1. q \in orders /\ q # o
    BY <1>1
  <2>2. ~ (q.account = o.account /\ q.sym = o.sym)
    BY <2>1 DEF Tradable, SalesAreHeld, OneOrderEach
  <2>3. q.account \in Accounts /\ q.sym \in Symbols
    BY <2>1 DEF Tradable, Booked, OrderType
  <2>4. held'[q.account][q.sym] = held[q.account][q.sym]
    BY <1>1, <1>2, <1>3, <2>2, <2>3
  <2> QED
    BY <1>9, <2>1, <2>4 DEF Tradable, SalesAreHeld
<1>10. SignalType' /\ ActType'
  BY <1>1 DEF Tradable, SignalType, ActType
<1> QED
  BY <1>7, <1>8, <1>9, <1>10 DEF Tradable, SalesAreHeld

LEMMA RestartTradable ==
  ASSUME Tradable, CommanderRestarts
  PROVE  Tradable'
<1>1. /\ UNCHANGED <<ticks, rows, cash, held, orders>> /\ cmd' = Idle /\ seen' = {}
      /\ \E again \in SUBSET seen : topic' = topic \union again
      /\ latest' = [s \in Symbols |-> [n \in Loads |-> NoSignal]]
  BY DEF CommanderRestarts, market, weighting, ledger
<1>2. latest' \in Signalled
  BY <1>1 DEF NoSignal, Signalled
<1>3. SignalType'
  BY <1>1, <1>2 DEF Tradable, SignalType
<1> QED
  BY <1>1, <1>3 DEF Tradable, ActType, Booked, OrderType, SalesAreHeld, OneOrderEach

LEMMA ReevalTradable ==
  ASSUME Tradable, NEW found \in Appraisals, Reevaluate(found)
  PROVE  Tradable'
<1>1. /\ rows' = ComputeWeights(found.scores, found.passed, rows)
      /\ UNCHANGED <<ticks, topic, seen, latest, cmd, cash, held, orders>>
  BY DEF Reevaluate, market, commander, ledger
<1>2. rows' \in [Loads -> Nat]
  BY <1>1, ComputedType, PathAssumption DEF Tradable, SignalType
<1>3. SignalType'
  BY <1>1, <1>2 DEF Tradable, SignalType
<1> QED
  BY <1>1, <1>3 DEF Tradable, ActType, Booked, OrderType, SalesAreHeld, OneOrderEach

LEMMA RestTradable ==
  ASSUME Tradable, UNCHANGED <<ticks, topic, seen, rows, latest, cash, held, orders>>,
         UNCHANGED cmd \/ cmd' = Idle
  PROVE  Tradable'
BY DEF Tradable, SignalType, ActType, Booked, OrderType, SalesAreHeld, OneOrderEach

LEMMA StepTradable == Stream /\ Stream' /\ Tradable /\ [Next]_vars => Tradable'
<1> SUFFICES ASSUME Stream, Stream', Tradable, [Next]_vars PROVE Tradable'
  OBVIOUS
<1>1. StreamType
  BY DEF Stream
<1>2. CASE Prime \/ \E s \in Symbols : OnTick(s)
  BY <1>2, PublishTradable
<1>3. CASE \E s \in Symbols, p \in Prices : Trade(s, p)
  BY <1>1, <1>3, TradeTradable
<1>4. CASE \E m \in topic : Read(m)
  BY <1>1, <1>4, ReadTradable
<1>5. CASE \E a \in Accounts : RebalanceAccount(a)
  BY <1>5, ActTradable
<1>6. CASE \E o \in orders : Execute(o)
  BY <1>1, <1>6, ExecuteTradable
<1>7. CASE CommanderRestarts \/ \E found \in Appraisals : Reevaluate(found)
  BY <1>7, RestartTradable, ReevalTradable
<1>8. CASE Midnight \/ RollUp \/ WorkerStops \/ ActDone \/ UNCHANGED vars
  BY <1>8, RestTradable
     DEF Midnight, RollUp, WorkerStops, ActDone, market, weighting, commander, ledger, vars
<1> QED
  BY <1>2, <1>3, <1>4, <1>5, <1>6, <1>7, <1>8, Zenon DEF Next

(***************************************************************************)
(* However often the commander acts on a bar again, and whatever executes  *)
(* between a decision and its order: no account has more of a symbol on    *)
(* sale than it holds, because the order that would take it away would     *)
(* have kept the decision from being made (commander._has_pending).        *)
(***************************************************************************)
THEOREM OnSaleIsHeld == Spec => []SalesAreHeld
<1>1. Tradable => SalesAreHeld
  BY DEF Tradable
<1> QED
  BY <1>1, InitStream, StepStream, InitTradable, StepTradable, PTL DEF Spec

-----------------------------------------------------------------------------
(* The rows of weights: sums are compared term by term.                    *)

LEMMA OneMoreTerm ==
  ASSUME NEW a \in Int, NEW b \in Int, NEW c \in Int, NEW n \in Int,
         NEW f \in Int, NEW F \in Int, NEW h \in Int, NEW H \in Int,
         a * f <= b * h + c, a * F <= b * H + c * n
  PROVE  a * (f + F) <= b * (h + H) + c * (n + 1)
<1>1. a * (f + F) = a * f + a * F /\ b * (h + H) = b * h + b * H /\ c * (n + 1) = c * n + c
  OBVIOUS
<1>2. a * f \in Int /\ a * F \in Int /\ b * h \in Int /\ b * H \in Int /\ c * n \in Int
  OBVIOUS
<1> QED
  BY <1>1, <1>2

LEMMA SumCompared ==
  ASSUME NEW S, IsFiniteSet(S), NEW f \in [S -> Int], NEW h \in [S -> Int],
         NEW a \in Int, NEW b \in Int, NEW c \in Int,
         \A x \in S : a * f[x] <= b * h[x] + c
  PROVE  /\ SumFunction(f) \in Int /\ SumFunction(h) \in Int
         /\ a * SumFunction(f) <= b * SumFunction(h) + c * Cardinality(S)
<1>1. PICK g : Adds(g, f, SUBSET S) /\ SumFunction(f) = g[S]
  BY SumFold
<1>2. PICK k : Adds(k, h, SUBSET S) /\ SumFunction(h) = k[S]
  BY SumFold
<1> DEFINE Good(s) == /\ g[s] \in Int /\ k[s] \in Int
                      /\ a * g[s] <= b * k[s] + c * Cardinality(s)
           Bad == {s \in SUBSET S : ~ Good(s)}
<1> SUFFICES ASSUME Bad # {} PROVE FALSE
  BY <1>1, <1>2
<1>3. \A s \in Bad : IsFiniteSet(s)
  BY FS_Subset
<1> HIDE DEF Bad
<1>4. PICK s \in Bad : \A t \in Bad : Cardinality(s) <= Cardinality(t)
  BY <1>3, Smallest
<1>5. s \in SUBSET S /\ ~ Good(s)
  BY DEF Bad
<1>6. /\ g[s] = IF s = {} THEN 0 ELSE f[Pick(s)] + g[s \ {Pick(s)}]
      /\ k[s] = IF s = {} THEN 0 ELSE h[Pick(s)] + k[s \ {Pick(s)}]
  BY <1>1, <1>2, <1>5 DEF Adds
<1>7. s # {}
  <2>1. ASSUME s = {}
        PROVE  Good(s)
    <3>1. g[s] = 0 /\ k[s] = 0 /\ Cardinality(s) = 0
      BY <1>6, <2>1, FS_EmptySet
    <3> QED
      BY <3>1
  <2> QED
    BY <1>5, <2>1
<1> DEFINE x == Pick(s)
           rest == s \ {x}
<1>8. x \in s /\ x \in S
  BY <1>5, <1>7, PickIn
<1>9. Cardinality(rest) \in Nat /\ Cardinality(s) = Cardinality(rest) + 1
  BY <1>3, <1>8, OneLess
<1>10. Good(rest)
  <2>1. rest \notin Bad
    <3>1. ~ (Cardinality(s) <= Cardinality(rest))
      BY <1>9
    <3> QED
      BY <1>4, <3>1
  <2> QED
    BY <1>5, <2>1 DEF Bad
<1>11. g[s] = f[x] + g[rest] /\ k[s] = h[x] + k[rest]
  BY <1>6, <1>7
<1>12. f[x] \in Int /\ h[x] \in Int /\ a * f[x] <= b * h[x] + c
  BY <1>8
<1> HIDE DEF x, rest
<1>13. a * (f[x] + g[rest]) <= b * (h[x] + k[rest]) + c * (Cardinality(rest) + 1)
  BY <1>9, <1>10, <1>12, OneMoreTerm
<1>14. Good(s)
  BY <1>9, <1>10, <1>11, <1>12, <1>13
<1> QED
  BY <1>5, <1>14

\* What a share of a part is of the whole, rounded down.
LEMMA ShareWithin ==
  ASSUME NEW v \in Nat, NEW t \in Nat \ {0}
  PROVE  /\ (v * Whole) \div t \in Nat
         /\ t * ((v * Whole) \div t) <= Whole * v
         /\ Whole * v <= t * ((v * Whole) \div t) + t
<1>1. Whole \in Nat /\ v * Whole \in Nat /\ v * Whole = Whole * v
  BY PolicyAssumption
<1> DEFINE q == (v * Whole) \div t
           r == (v * Whole) % t
<1>2. q \in Nat /\ r \in Nat /\ r < t /\ v * Whole = q * t + r
  BY <1>1, Division
<1> HIDE DEF q, r
<1>3. q * t = t * q /\ t * q \in Nat
  BY <1>2
<1>4. t * q <= Whole * v /\ Whole * v <= t * q + t
  BY <1>1, <1>2, <1>3
<1> QED
  BY <1>2, <1>4 DEF q

LEMMA ConstantSum ==
  ASSUME NEW S, IsFiniteSet(S), NEW e \in Nat, NEW w, w = [x \in S |-> e]
  PROVE  SumFunction(w) = Cardinality(S) * e
<1> DEFINE n == Cardinality(S)
           t == SumFunction(w)
<1>1. w \in [S -> Int] /\ n \in Nat
  BY FS_CardinalityType
<1>2. t \in Int /\ 1 * t <= 0 * t + e * n
  <2> DEFINE one == 1
             none == 0
  <2>1. /\ one \in Int /\ none \in Int /\ e \in Int
        /\ \A x \in S : one * w[x] <= none * w[x] + e
    OBVIOUS
  <2> HIDE DEF one, none
  <2>2. one * t <= none * t + e * n
    BY <1>1, <2>1, SumCompared
  <2>3. t \in Int
    BY <1>1, SumInt
  <2> QED
    BY <2>2, <2>3 DEF one, none
<1>3. (-1) * t <= 0 * t + (-e) * n
  <2> DEFINE less == -1
             none == 0
             under == -e
  <2>1. /\ less \in Int /\ none \in Int /\ under \in Int
        /\ \A x \in S : less * w[x] <= none * w[x] + under
    OBVIOUS
  <2> HIDE DEF less, none, under
  <2>2. less * t <= none * t + under * n
    BY <1>1, <2>1, SumCompared
  <2> QED
    BY <2>2 DEF less, none, under
<1> HIDE DEF n, t
<1>4. e * n \in Nat /\ (-e) * n = - (e * n) /\ n * e = e * n
  BY <1>1
<1>5. t = n * e
  BY <1>2, <1>3, <1>4
<1> QED
  BY <1>5 DEF n, t

LEMMA EqualAddsUp ==
  ASSUME NEW D, IsFiniteSet(D), D # {}, NEW w, DOMAIN w = D
  PROVE  LET even == [x \in D |-> EqualShare(w)]
         IN  /\ AddsUp(even)
             /\ EqualShare(w) \in Nat /\ Whole <= (EqualShare(w) + 1) * Cardinality(D)
<1> DEFINE n == Cardinality(D)
           e == EqualShare(w)
           even == [x \in D |-> e]
<1>1. n \in Nat \ {0}
  BY FS_CardinalityType, FS_EmptySet
<1>2. Whole \in Nat /\ e = Whole \div n
  BY PolicyAssumption DEF EqualShare
<1> DEFINE r == Whole % n
<1>3. e \in Nat /\ r \in Nat /\ r < n /\ Whole = e * n + r
  BY <1>1, <1>2, Division
<1>4. Total(even) = n * e
  BY <1>3, ConstantSum DEF Total
<1>5. DOMAIN even = D
  OBVIOUS
<1> HIDE DEF e, r, even
<1>6. n * e = e * n /\ (e + 1) * n = e * n + n /\ e * n \in Nat
  BY <1>1, <1>3
<1>7. AddsUp(even)
  <2>1. Whole - n <= Total(even) /\ Total(even) <= Whole
    <3> HIDE DEF n
    <3> QED
      BY <1>1, <1>3, <1>4, <1>6
  <2> QED
    BY <1>5, <2>1 DEF AddsUp
<1> HIDE DEF n
<1>8. e \in Nat /\ Whole <= (e + 1) * n
  BY <1>1, <1>3, <1>6
<1> QED
  BY <1>7, <1>8 DEF e, n, even

LEMMA ScaledAddsUp ==
  ASSUME NEW D, IsFiniteSet(D), D # {}, NEW w \in [D -> Nat]
  PROVE  AddsUp(Scaled(w))
<1> DEFINE n == Cardinality(D)
           t == Total(w)
           h == Scaled(w)
<1>1. n \in Nat \ {0} /\ Whole \in Nat
  BY PolicyAssumption, FS_CardinalityType, FS_EmptySet
<1>2. t \in Nat /\ h \in [D -> Nat]
  BY SumNat, ScaledType DEF Total
<1>3. CASE t = 0
  <2>1. h = [x \in D |-> EqualShare(w)]
    BY <1>3 DEF Scaled
  <2>2. DOMAIN w = D
    OBVIOUS
  <2> HIDE DEF h
  <2>3. AddsUp([x \in D |-> EqualShare(w)])
    BY <2>2, EqualAddsUp
  <2>4. AddsUp(h)
    BY <2>1, <2>3, Zenon
  <2> QED
    BY <2>4 DEF h
<1>4. CASE t # 0
  <2>1. \A x \in D : h[x] = (w[x] * Whole) \div t
    BY <1>2, <1>4 DEF Scaled
  <2>2. \A x \in D : t * h[x] <= Whole * w[x] /\ Whole * w[x] <= t * h[x] + t
    BY <1>2, <1>4, <2>1, ShareWithin
  <2> HIDE DEF h, t
  <2>3. h \in [D -> Int] /\ w \in [D -> Int] /\ t \in Int /\ Whole \in Int
    BY <1>1, <1>2
  <2>4. \A x \in D : t * h[x] <= Whole * w[x] + 0
    BY <1>1, <1>2, <2>2
  <2>5. t * SumFunction(h) <= Whole * SumFunction(w) + 0 * Cardinality(D)
    <3> DEFINE none == 0
    <3>1. none \in Int /\ \A x \in D : t * h[x] <= Whole * w[x] + none
      BY <2>4
    <3> HIDE DEF none
    <3>2. t * SumFunction(h) <= Whole * SumFunction(w) + none * Cardinality(D)
      BY <2>3, <3>1, SumCompared
    <3> QED
      BY <3>2 DEF none
  <2>6. Whole * SumFunction(w) <= t * SumFunction(h) + t * Cardinality(D)
    BY <2>2, <2>3, SumCompared
  <2>7. SumFunction(w) = t /\ SumFunction(h) \in Nat
    BY <1>2, SumNat DEF t, Total
  <2> DEFINE H == SumFunction(h)
  <2> HIDE DEF H, n
  <2>8. t * H <= Whole * t + 0 * n /\ Whole * t <= t * H + t * n /\ H \in Nat
    BY <2>5, <2>6, <2>7 DEF H, n
  <2>9. Whole * t = t * Whole /\ 0 * n = 0 /\ t * (H + n) = t * H + t * n
    BY <1>1, <1>2, <2>8
  <2>10. t * Whole \in Int /\ t * H \in Int /\ t * n \in Int
    BY <1>1, <1>2, <2>8
  <2>11. t * H <= t * Whole /\ t * Whole <= t * (H + n)
    BY <2>8, <2>9, <2>10
  <2>12. H <= Whole /\ Whole <= H + n
    BY <1>1, <1>2, <1>4, <2>8, <2>11, Cancel
  <2>13. Whole - n <= H
    BY <1>1, <2>8, <2>12
  <2>14. DOMAIN h = D
    BY <1>2
  <2> QED
    BY <2>12, <2>13, <2>14 DEF AddsUp, Total, H, n, h
<1> QED
  BY <1>3, <1>4

LEMMA TimesMore ==
  ASSUME NEW a \in Nat, NEW b \in Nat, NEW c \in Nat, a <= b
  PROVE  a * c <= b * c /\ c * a <= c * b
<1>1. PICK d \in Nat : b = a + d
  BY b - a \in Nat, b = a + (b - a)
<1>2. b * c = a * c + d * c /\ c * b = c * a + c * d
  BY <1>1
<1>3. d * c \in Nat /\ c * d \in Nat /\ a * c \in Nat /\ c * a \in Nat
  OBVIOUS
<1> QED
  BY <1>2, <1>3

LEMMA FloorBelowCap ==
  ASSUME NEW D, IsFiniteSet(D), D # {}, NEW w, DOMAIN w = D
  PROVE  Floor(w) \in Nat /\ Cap(w) \in Nat /\ Floor(w) <= Cap(w)
<1> DEFINE e == EqualShare(w)
           a == FloorPct * e
           b == CapPct * e
<1>1. Floor(w) \in Nat /\ Cap(w) \in Nat /\ e \in Nat
  BY ShareIsNat
<1>2. FloorPct \in Nat /\ CapPct \in Nat /\ FloorPct <= CapPct
  BY PolicyAssumption
<1> HIDE DEF e
<1>3. a \in Nat /\ b \in Nat /\ a <= b
  BY <1>1, <1>2, TimesMore
<1>4. Floor(w) = a \div 100 /\ Cap(w) = b \div 100
  BY DEF Floor, Cap, e
<1> HIDE DEF a, b
<1>5. Floor(w) <= Cap(w)
  BY <1>3, <1>4
<1> QED
  BY <1>1, <1>5

LEMMA Pressed ==
  ASSUME NEW lo \in Nat, NEW hi \in Nat, NEW x \in Nat, lo <= hi
  PROVE  LET p == Min({hi, Max({lo, x})}) IN p \in Nat /\ lo <= p /\ p <= hi
<1>1. \E m \in {lo, x} : \A y \in {lo, x} : m >= y
  BY lo >= x \/ x >= lo
<1>2. Max({lo, x}) \in {lo, x} /\ Max({lo, x}) >= lo
  BY <1>1 DEF Max
<1> DEFINE u == Max({lo, x})
<1>3. u \in Nat /\ lo <= u
  BY <1>2
<1> HIDE DEF u
<1>4. \E m \in {hi, u} : \A y \in {hi, u} : m <= y
  BY <1>3, hi <= u \/ u <= hi
<1>5. Min({hi, u}) \in {hi, u} /\ Min({hi, u}) <= hi
  BY <1>4 DEF Min
<1>6. Min({hi, u}) \in Nat /\ lo <= Min({hi, u}) /\ Min({hi, u}) <= hi
  BY <1>3, <1>5
<1> QED
  BY <1>6 DEF u

\* A load that is not believed in any more keeps its part of the whole: at
\* least the floor over the cap of an equal share, within the rounding.
NoneDeleted(w) ==
  \A n \in DOMAIN w : Floor(w) * Whole <= (w[n] + 1) * (Cardinality(DOMAIN w) * Cap(w))

\* The least a load can be left with, by the size of the others.
LEMMA LeastShare ==
  ASSUME NEW lo \in Nat, NEW hi \in Nat, NEW c \in Nat, NEW h \in Nat,
         NEW t \in Nat, NEW n \in Nat,
         lo <= c, Whole * c <= t * h + t, t <= n * hi
  PROVE  lo * Whole <= (h + 1) * (n * hi)
<1>1. Whole \in Nat /\ n * hi \in Nat
  BY PolicyAssumption
<1>2. Whole * lo <= Whole * c
  BY <1>1, TimesMore
<1>3. (h + 1) * t <= (h + 1) * (n * hi)
  BY <1>1, TimesMore
<1>4. (h + 1) * t = t * h + t /\ Whole * lo = lo * Whole
  BY <1>1
<1>5. /\ Whole * lo \in Nat /\ Whole * c \in Nat /\ t * h + t \in Nat
      /\ (h + 1) * (n * hi) \in Nat
  BY <1>1
<1> QED
  BY <1>2, <1>3, <1>4, <1>5

LEMMA EqualDeletesNone ==
  ASSUME NEW D, IsFiniteSet(D), D # {}, NEW w, DOMAIN w = D
  PROVE  NoneDeleted([x \in D |-> EqualShare(w)])
<1> DEFINE n == Cardinality(D)
           e == EqualShare(w)
           even == [x \in D |-> e]
           lo == Floor(even)
           hi == Cap(even)
<1>1. DOMAIN even = D
  OBVIOUS
<1>2. lo \in Nat /\ hi \in Nat /\ lo <= hi
  BY <1>1, FloorBelowCap
<1>3. n \in Nat /\ Whole \in Nat /\ e \in Nat /\ Whole <= (e + 1) * n
  BY EqualAddsUp, PolicyAssumption, FS_CardinalityType
<1> HIDE DEF n, e, lo, hi
<1>4. lo * Whole <= hi * Whole /\ hi * Whole <= hi * ((e + 1) * n)
  <2>1. (e + 1) * n \in Nat
    BY <1>3
  <2> QED
    BY <1>2, <1>3, <2>1, TimesMore
<1>5. hi * ((e + 1) * n) = (e + 1) * (n * hi)
  <2>1. e + 1 \in Nat
    BY <1>3
  <2> DEFINE k == e + 1
  <2> HIDE DEF k
  <2>2. k \in Nat => hi * (k * n) = k * (n * hi)
    BY <1>2, <1>3
  <2> QED
    BY <2>1, <2>2 DEF k
<1>6. lo * Whole \in Nat /\ hi * Whole \in Nat /\ hi * ((e + 1) * n) \in Nat
  BY <1>2, <1>3
<1>7. lo * Whole <= (e + 1) * (n * hi)
  BY <1>4, <1>5, <1>6
<1>8. \A x \in D : even[x] = e
  OBVIOUS
<1> HIDE DEF even
<1> QED
  BY <1>1, <1>7, <1>8 DEF NoneDeleted, n, lo, hi, e, even

LEMMA ScaledDeletesNone ==
  ASSUME NEW D, IsFiniteSet(D), D # {}, NEW v, DOMAIN v = D, NEW c \in [D -> Nat],
         \A x \in D : Floor(v) <= c[x] /\ c[x] <= Cap(v)
  PROVE  NoneDeleted(Scaled(c))
<1> DEFINE n == Cardinality(D)
           t == Total(c)
           h == Scaled(c)
           lo == Floor(h)
           hi == Cap(h)
<1>1. n \in Nat /\ t \in Nat /\ h \in [D -> Nat]
  BY SumNat, ScaledType, FS_CardinalityType DEF Total
<1>2. DOMAIN h = D
  BY <1>1
<1>3. lo = Floor(v) /\ hi = Cap(v)
  BY <1>2 DEF Floor, Cap, EqualShare
<1>4. lo \in Nat /\ hi \in Nat
  BY <1>2, FloorBelowCap
<1>5. CASE t = 0
  <2>1. h = [x \in D |-> EqualShare(c)]
    BY <1>5 DEF Scaled
  <2>2. DOMAIN c = D
    OBVIOUS
  <2> HIDE DEF h
  <2>3. NoneDeleted([x \in D |-> EqualShare(c)])
    BY <2>2, EqualDeletesNone
  <2>4. NoneDeleted(h)
    BY <2>1, <2>3, Zenon
  <2> QED
    BY <2>4 DEF h
<1>6. CASE t # 0
  <2>1. \A x \in D : h[x] = (c[x] * Whole) \div t
    BY <1>1, <1>6 DEF Scaled
  <2>2. \A x \in D : Whole * c[x] <= t * h[x] + t
    BY <1>1, <1>6, <2>1, ShareWithin
  <2>3. t <= n * hi
    <3> HIDE DEF h, hi
    <3>1. hi \in Int /\ c \in [D -> Int]
      BY <1>4
    <3>2. \A x \in D : 1 * c[x] <= 0 * c[x] + hi
      BY <1>3, <1>4
    <3>3. 1 * SumFunction(c) <= 0 * SumFunction(c) + hi * Cardinality(D)
      <4> DEFINE one == 1
                 none == 0
      <4>1. one \in Int /\ none \in Int /\ \A x \in D : one * c[x] <= none * c[x] + hi
        BY <3>2
      <4> HIDE DEF one, none
      <4>2. one * SumFunction(c) <= none * SumFunction(c) + hi * Cardinality(D)
        BY <3>1, <4>1, SumCompared
      <4> QED
        BY <4>2 DEF one, none
    <3>4. SumFunction(c) = t
      BY DEF Total
    <3> HIDE DEF n, t
    <3>5. 1 * t <= 0 * t + hi * n
      BY <3>3, <3>4 DEF n
    <3>6. hi * n = n * hi /\ n * hi \in Nat
      BY <1>1, <1>4
    <3> QED
      BY <1>1, <3>5, <3>6
  <2> HIDE DEF n, t, h, lo, hi
  <2>4. \A x \in D : lo * Whole <= (h[x] + 1) * (n * hi)
    <3> SUFFICES ASSUME NEW x \in D PROVE lo * Whole <= (h[x] + 1) * (n * hi)
      OBVIOUS
    <3>1. c[x] \in Nat /\ h[x] \in Nat /\ lo <= c[x] /\ Whole * c[x] <= t * h[x] + t
      BY <1>1, <1>3, <2>2
    <3> QED
      BY <1>1, <1>4, <2>3, <3>1, LeastShare
  <2>5. NoneDeleted(h)
    BY <1>2, <2>4 DEF NoneDeleted, n, lo, hi
  <2> QED
    BY <2>5 DEF h
<1> QED
  BY <1>5, <1>6

LEMMA RoundAddsUp ==
  ASSUME NEW D, IsFiniteSet(D), D # {}, NEW v \in [D -> Nat], NEW i,
         i > 1 => AddsUp(v) /\ NoneDeleted(v)
  PROVE  AddsUp(Round(v, i)) /\ NoneDeleted(Round(v, i))
<1> DEFINE c == [n \in DOMAIN v |-> Min({Cap(v), Max({Floor(v), v[n]})})]
<1>1. Floor(v) \in Nat /\ Cap(v) \in Nat /\ Floor(v) <= Cap(v)
  BY FloorBelowCap
<1>2. /\ c \in [D -> Nat]
      /\ \A x \in D : Floor(v) <= c[x] /\ c[x] <= Cap(v)
  <2>1. \A x \in D : LET p == Min({Cap(v), Max({Floor(v), v[x]})})
                     IN  p \in Nat /\ Floor(v) <= p /\ p <= Cap(v)
    BY <1>1, Pressed
  <2>2. \A x \in D : c[x] \in Nat /\ Floor(v) <= c[x] /\ c[x] <= Cap(v)
    BY <2>1
  <2> QED
    BY <2>2
<1>3. Round(v, i) = IF i > 1 /\ Guarded(v) THEN v ELSE Scaled(c)
  BY DEF Round, Clamped
<1> HIDE DEF c
<1>4. AddsUp(Scaled(c)) /\ NoneDeleted(Scaled(c))
  BY <1>2, ScaledAddsUp, ScaledDeletesNone
<1> QED
  BY <1>3, <1>4, Zenon

LEMMA ClampAddsUp ==
  ASSUME NEW D, IsFiniteSet(D), D # {}, NEW w \in [D -> Nat]
  PROVE  AddsUp(ClampNormalize(w)) /\ NoneDeleted(ClampNormalize(w))
<1>1. PICK g : Clamps(g, w, SUBSET (1..Iters)) /\ ClampNormalize(w) = g[1..Iters]
  BY ClampFold
<1>2. Iters \in Nat \ {0}
  BY PolicyAssumption
<1> DEFINE Good(v) == AddsUp(v) /\ NoneDeleted(v)
           P == {s \in SUBSET (1..Iters) : g[s] \in [D -> Nat] /\ (1 \in s => Good(g[s]))}
<1> HIDE DEF Good
<1>3. {} \in P
  BY <1>1 DEF Clamps
<1>4. ASSUME NEW s \in SUBSET (1..Iters), s # {}, s \ {Max(s)} \in P
      PROVE  s \in P
  <2> DEFINE i == [j \in 1..Iters |-> j][Max(s)]
             v == g[s \ {Max(s)}]
  <2>1. Max(s) \in s /\ i = Max(s) /\ i \in Nat
    <3>1. Max(s) \in s /\ \A y \in s : y <= Max(s)
      BY <1>2, <1>4, LastPlace
    <3> DEFINE m == Max(s)
    <3> HIDE DEF m
    <3>2. m \in 1..Iters => [j \in 1..Iters |-> j][m] = m
      OBVIOUS
    <3>3. m \in 1..Iters
      BY <1>4, <3>1 DEF m
    <3>4. m \in Nat
      BY <3>3
    <3> QED
      BY <3>1, <3>2, <3>3, <3>4 DEF m
  <2>2. g[s] = Round(v, i)
    BY <1>1, <1>4 DEF Clamps
  <2>3. v \in [D -> Nat] /\ (1 \in s \ {Max(s)} => Good(v))
    BY <1>4
  <2> HIDE DEF v, P
  <2>4. Round(v, i) \in [D -> Nat]
    BY <2>3, RoundType
  <2>5. ASSUME 1 \in s
        PROVE  Good(Round(v, i))
    <3>1. i > 1 => Good(v)
      BY <2>1, <2>3, <2>5
    <3> HIDE DEF i
    <3>2. AddsUp(Round(v, i)) /\ NoneDeleted(Round(v, i))
      BY <2>3, <3>1, RoundAddsUp DEF Good
    <3> QED
      BY <3>2 DEF Good
  <2> QED
    BY <2>2, <2>4, <2>5 DEF P
<1> HIDE DEF P
<1>5. 1..Iters \in P
  BY <1>2, <1>3, <1>4, PlaceInduction
<1>6. 1 \in 1..Iters
  BY <1>2
<1> QED
  BY <1>1, <1>5, <1>6 DEF P, Good

LEMMA ComputedAddsUp ==
  ASSUME NEW scores \in [Loads -> Int], NEW passed, NEW prev,
         \A n \in DOMAIN prev : prev[n] \in Nat
  PROVE  /\ AddsUp(ComputeWeights(scores, passed, prev))
         /\ NoneDeleted(ComputeWeights(scores, passed, prev))
<1>1. IsFiniteSet(Loads) /\ Loads # {}
  BY PathAssumption
<1>2. PICK raw \in [Loads -> Nat], blended \in [Loads -> Nat] :
        ComputeWeights(scores, passed, prev) =
          IF Total(raw) = 0 THEN [n \in Loads |-> EqualShare(raw)] ELSE ClampNormalize(blended)
  BY BlendedType
<1>3. CASE Total(raw) = 0
  <2>1. ComputeWeights(scores, passed, prev) = [n \in Loads |-> EqualShare(raw)]
    BY <1>2, <1>3
  <2>2. DOMAIN raw = Loads
    OBVIOUS
  <2> DEFINE even == [n \in Loads |-> EqualShare(raw)]
  <2>3. AddsUp(even)
    BY <1>1, <2>2, EqualAddsUp
  <2>4. NoneDeleted(even)
    BY <1>1, <2>2, EqualDeletesNone
  <2>5. ComputeWeights(scores, passed, prev) = even
    BY <2>1
  <2> HIDE DEF even
  <2> QED
    BY <2>3, <2>4, <2>5, Zenon
<1>4. CASE Total(raw) # 0
  <2>1. ComputeWeights(scores, passed, prev) = ClampNormalize(blended)
    BY <1>2, <1>4
  <2> QED
    BY <1>1, <2>1, ClampAddsUp
<1> QED
  BY <1>3, <1>4

(***************************************************************************)
(* However often the loads are scored, however badly, and however few      *)
(* passes the clamping loop makes: the stored weights add up, within the   *)
(* rounding, and a demoted load keeps at least the floor over the cap of   *)
(* an equal share (weight_policy: demote, not delete).                     *)
(***************************************************************************)
THEOREM NoLoadIsDeleted ==
  Spec => [](rows # << >> => AddsUp(rows) /\ NoneDeleted(rows))
<1> DEFINE Kept == rows # << >> => AddsUp(rows) /\ NoneDeleted(rows)
<1>1. Init => Kept
  BY DEF Init
<1>2. Stream /\ Stream' /\ Tradable /\ Kept /\ [Next]_vars => Kept'
  <2> SUFFICES ASSUME Tradable, Kept, [Next]_vars PROVE Kept'
    OBVIOUS
  <2>1. ASSUME NEW found \in Appraisals, Reevaluate(found)
        PROVE  Kept'
    <3>1. rows' = ComputeWeights(found.scores, found.passed, rows)
      BY <2>1 DEF Reevaluate
    <3>2. /\ found.scores \in [Loads -> Int]
          /\ \A n \in DOMAIN rows : rows[n] \in Nat
      BY PathAssumption DEF Tradable, SignalType
    <3>3. AddsUp(rows') /\ NoneDeleted(rows')
      BY <3>1, <3>2, ComputedAddsUp
    <3> QED
      BY <3>3 DEF AddsUp, NoneDeleted, Total, Floor, Cap, EqualShare
  <2>2. CASE UNCHANGED rows
    BY <2>2 DEF AddsUp, NoneDeleted, Total, Floor, Cap, EqualShare
  <2> QED
    BY <2>1, <2>2
       DEF Next, Trade, Midnight, RollUp, Prime, OnTick, WorkerStops, Read, ActDone,
           RebalanceAccount, CommanderRestarts, Execute, weighting, vars
<1> HIDE DEF Kept
<1>3. Spec => []Kept
  BY <1>1, <1>2, InitStream, StepStream, InitTradable, StepTradable, PTL DEF Spec
<1> QED
  BY <1>3 DEF Kept
=============================================================================
