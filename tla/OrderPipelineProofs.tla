------------------------ MODULE OrderPipelineProofs ------------------------
(***************************************************************************)
(* Proofs about the streaming order path, for any number of orders,        *)
(* accounts, symbols, relays, restarts and give-ups.                       *)
(***************************************************************************)
EXTENDS OrderPipelineProps, FiniteSetTheorems, WellFoundedInduction, TLAPS

-----------------------------------------------------------------------------
(* Money. *)

LEMMA ProductLe ==
  ASSUME NEW m \in Nat, NEW a \in Nat, NEW b \in Nat, a <= b
  PROVE  m * a <= m * b
<1>1. PICK c \in Nat : b = a + c
  BY b - a \in Nat, b = a + (b - a)
<1>2. m * b = m * a + m * c
  BY <1>1
<1>3. m * c \in Nat /\ m * a \in Nat
  OBVIOUS
<1> QED
  BY <1>2, <1>3

\* A rate of at most one takes at most the whole amount.
LEMMA RoundedShare ==
  ASSUME NEW m \in Nat, NEW n \in Nat, NEW d \in Nat \ {0}, n <= m * d
  PROVE  RoundHalfEven(n, d) \in 0 .. m
<1> DEFINE k == n \div d
           r == n % d
<1>1. k \in Nat /\ r \in Nat /\ r < d /\ n = k * d + r
  OBVIOUS
<1>2. m * d \in Nat /\ k * d \in Nat
  BY <1>1
<1> HIDE DEF k, r
<1>3. CASE k < m
  BY <1>1, <1>3 DEF RoundHalfEven, k, r
<1>4. CASE k >= m
  <2>1. m * d <= k * d
    <3>1. d * m <= d * k
      BY <1>1, <1>4, ProductLe
    <3> QED
      BY <3>1, <1>1
  <2>2. r = 0 /\ m * d = k * d
    BY <1>1, <1>2, <2>1
  <2>3. k = m
    <3> SUFFICES ASSUME k > m PROVE FALSE
      BY <1>1, <1>4
    <3>1. d * (m + 1) <= d * k
      BY <1>1, ProductLe
    <3>2. d * (m + 1) = d * m + d
      OBVIOUS
    <3> QED
      BY <3>1, <3>2, <2>2, <1>1, <1>2
  <2> QED
    BY <2>2, <2>3 DEF RoundHalfEven, k, r
<1> QED
  BY <1>1, <1>3, <1>4

LEMMA FeeType ==
  ASSUME NEW p \in Nat, NEW q \in Nat
  PROVE  Fee(p, q) \in 0 .. p * q
<1> DEFINE m == p * q
<1>1. m \in Nat
  OBVIOUS
<1>2. FeeNum \in Nat /\ FeeDen \in Nat \ {0} /\ FeeNum <= FeeDen
  BY FeeAssumption
<1> HIDE DEF m
<1>3. m * FeeNum <= m * FeeDen /\ m * FeeNum \in Nat
  BY <1>1, <1>2, ProductLe
<1>4. RoundHalfEven(m * FeeNum, FeeDen) \in 0 .. m
  BY <1>1, <1>2, <1>3, RoundedShare
<1> QED
  BY <1>4 DEF m, Fee

LEMMA MoneyType ==
  ASSUME NEW f \in Forms, NEW p \in Prices
  PROVE  /\ Cost(f, p) \in Nat
         /\ Proceeds(f, p) \in Nat
<1>1. p \in Nat /\ f.qty \in Nat
  BY FormsAssumption, PricesAssumption DEF OrderForm
<1>2. p * f.qty \in Nat
  BY <1>1
<1>3. Fee(p, f.qty) \in 0 .. p * f.qty
  BY <1>1, FeeType
<1> QED
  BY <1>2, <1>3 DEF Cost, Proceeds

LEMMA LedgerType ==
  ASSUME NEW f \in Forms, NEW p \in Prices,
         cash \in [Accounts -> Nat], held \in [Accounts -> [Symbols -> Nat]],
         Covered(f, p, cash, held)
  PROVE  /\ CashAfter(f, p, cash) \in [Accounts -> Nat]
         /\ HeldAfter(f, held) \in [Accounts -> [Symbols -> Nat]]
<1>1. /\ f.account \in Accounts /\ f.symbol \in Symbols
      /\ f.qty \in Nat /\ f.side \in {"BUY", "SELL"}
  BY FormsAssumption DEF OrderForm
<1>2. Cost(f, p) \in Nat /\ Proceeds(f, p) \in Nat
  BY MoneyType
<1>3. cash[f.account] \in Nat /\ held[f.account][f.symbol] \in Nat
  BY <1>1
<1>4. CASE f.side = "BUY"
  <2>1. cash[f.account] - Cost(f, p) \in Nat
    BY <1>2, <1>3, <1>4 DEF Covered
  <2>2. held[f.account][f.symbol] + f.qty \in Nat
    BY <1>1, <1>3
  <2> QED
    BY <1>1, <1>4, <2>1, <2>2 DEF CashAfter, HeldAfter
<1>5. CASE f.side = "SELL"
  <2>1. held[f.account][f.symbol] - f.qty \in Nat
    BY <1>1, <1>3, <1>5 DEF Covered
  <2>2. cash[f.account] + Proceeds(f, p) \in Nat
    BY <1>2, <1>3
  <2> QED
    BY <1>1, <1>5, <2>1, <2>2 DEF CashAfter, HeldAfter
<1> QED
  BY <1>1, <1>4, <1>5

-----------------------------------------------------------------------------
(* Lists of the engine. *)

\* Entries of one symbol are finitely many: an order and an offset not past the
\* end of the topic.
LEMMA ListingsType ==
  ASSUME NEW S \in SUBSET Entries, NEW q \in Listings(S)
  PROVE  /\ IsFiniteSet(S) => q \in Seq(S)
         /\ \A i \in DOMAIN q : q[i] \in S
         /\ \A e \in S : \E i \in DOMAIN q : q[i] = e
<1>1. q \in [1 .. Cardinality(S) -> S] /\ {q[i] : i \in DOMAIN q} = S
  BY DEF Listings
<1>2. IsFiniteSet(S) => q \in Seq(S)
  BY <1>1, FS_CardinalityType
<1> QED
  BY <1>1, <1>2

LEMMA ToExecutionsType ==
  ASSUME NEW q \in Seq(Entries), NEW p \in Prices
  PROVE  /\ ToExecutions(q, p) \in Seq(Fills)
         /\ Len(ToExecutions(q, p)) = Len(q)
         /\ \A i \in 1 .. Len(q) :
              ToExecutions(q, p)[i] = [order |-> q[i].order, price |-> p]
<1>1. \A i \in 1 .. Len(q) : q[i] \in Entries
  OBVIOUS
<1>2. \A e \in Entries : e.order \in OrderIds
  BY DEF Entries
<1> QED
  BY <1>1, <1>2 DEF ToExecutions, Fills

-----------------------------------------------------------------------------
(* Types and routing. *)

FiniteLists ==
  \A s \in Symbols : IsFiniteSet(pending[s]) /\ IsFiniteSet(limitOrders[s])

Base == TypeOK /\ Routing /\ FiniteLists

LEMMA InitBase == Init => Base
<1> SUFFICES ASSUME Init PROVE Base
  OBVIOUS
<1> USE DEF Init
<1>1. TypeOK
  <2>1. /\ form \in [OrderIds -> Forms \union {NoForm}]
        /\ status \in [OrderIds -> {"ABSENT", "PENDING", "FILLED", "REJECTED"}]
        /\ outboxId \in [OrderIds -> Nat]
        /\ published \in SUBSET OrderIds
    OBVIOUS
  <2>2. /\ cash \in [Accounts -> Nat]
        /\ held \in [Accounts -> [Symbols -> Nat]]
        /\ executions \in SUBSET Fills
    BY BalancesAssumption
  <2>3. /\ batch \in [Relays -> SUBSET OrderIds]
        /\ sent \in [Relays -> SUBSET OrderIds]
        /\ orderLog \in [Symbols -> Seq(OrderIds)]
        /\ execLog \in [Symbols -> Seq(Fills)]
    OBVIOUS
  <2>4. /\ latestPrice \in [Symbols -> Prices \union {NoPrice}]
        /\ pending \in [Symbols -> SUBSET Entries]
        /\ limitOrders \in [Symbols -> SUBSET Entries]
        /\ buffer \in [Symbols -> Seq(Fills)]
    OBVIOUS
  <2>5. engineUp \in BOOLEAN
    OBVIOUS
  <2> QED
    BY <2>1, <2>2, <2>3, <2>4, <2>5 DEF TypeOK
<1>2. Routing
  BY NoFormAssumption
     DEF Routing, RowsPlaced, OrdersRouted, ExecutionsAdmitted,
         OffsetsInTopics, Placed
<1>3. FiniteLists
  BY FS_EmptySet DEF FiniteLists
<1> QED
  BY <1>1, <1>2, <1>3 DEF Base

LEMMA PlaceOrderBase ==
  ASSUME Base, NEW o \in OrderIds, NEW f \in Forms, PlaceOrder(o, f)
  PROVE  Base'
<1> USE DEF PlaceOrder, ledgerVars, relayVars, engineVars, updaterVars
<1>1. f # NoForm /\ form[o] = NoForm
  BY FormsAssumption, NoFormAssumption DEF Base, Routing, RowsPlaced
<1>2. IsFiniteSet(Placed) /\ Cardinality(Placed) \in Nat
  BY OrderIdsAssumption, FS_Subset, FS_CardinalityType DEF Placed
<1>3. TypeOK'
  BY <1>2 DEF Base, TypeOK
<1>4. RowsPlaced'
  BY <1>1 DEF Base, TypeOK, Routing, RowsPlaced, Placed
<1>5. OrdersRouted'
  BY <1>1, SMTT(40) DEF Base, TypeOK, Routing, OrdersRouted, Routed, Entries
<1>6. ExecutionsAdmitted'
  BY <1>1, SMTT(60) DEF Base, TypeOK, Routing, ExecutionsAdmitted, Admitted, Routed, Fills
<1>7. OffsetsInTopics' /\ FiniteLists'
  BY DEF Base, Routing, OffsetsInTopics, FiniteLists
<1> QED
  BY <1>3, <1>4, <1>5, <1>6, <1>7 DEF Base, Routing

\* The steps of a relay touch its own rows and, at most, the topic orders.
LEMMA RelayBase ==
  ASSUME Base, RelayNext
  PROVE  Base'
<1> USE DEF orderVars, ledgerVars, engineVars, updaterVars
<1>1. ASSUME NEW r \in Relays, RelaySelect(r)
      PROVE  Base'
  <2>1. Oldest(Unlocked) \subseteq Placed
    BY DEF Oldest, Unlocked
  <2>2. TypeOK'
    BY <1>1, <2>1 DEF RelaySelect, Base, TypeOK, Placed
  <2>3. Routing'
    BY <1>1, <2>1
       DEF RelaySelect, Base, TypeOK, Routing, RowsPlaced, OrdersRouted,
           ExecutionsAdmitted, OffsetsInTopics, Routed, Admitted, Placed
  <2> QED
    BY <1>1, <2>2, <2>3 DEF RelaySelect, Base, FiniteLists
<1>2. ASSUME NEW r \in Relays, NEW o \in OrderIds, RelayDeliver(r, o)
      PROVE  Base'
  <2>1. o \in batch[r] /\ form[o] # NoForm /\ form[o] \in Forms
    BY <1>2 DEF RelayDeliver, NextToSend, Base, TypeOK, Routing, RowsPlaced, Placed
  <2>2. form[o].symbol \in Symbols
    BY <2>1, FormsAssumption DEF OrderForm
  <2>3. TypeOK'
    BY <1>2, <2>1, <2>2, SMTT(40) DEF RelayDeliver, Base, TypeOK
  <2>4. RowsPlaced'
    BY <1>2, <2>1 DEF RelayDeliver, Base, TypeOK, Routing, RowsPlaced, Placed
  <2>5. OrdersRouted'
    <3> SUFFICES ASSUME NEW s \in Symbols
                 PROVE  /\ \A i \in 1 .. Len(orderLog'[s]) :
                             Routed(orderLog[s][i], s)' 
                        /\ \A e \in pending'[s] :
                             (Routed(e.order, s) /\ form[e.order].type = "MARKET")'
                        /\ \A e \in limitOrders'[s] : Routed(e.order, s)'
      BY DEF OrdersRouted
    <3>1. /\ UNCHANGED <<form, pending, limitOrders>>
          /\ orderLog' = [orderLog EXCEPT ![form[o].symbol] = Append(@, o)]
      BY <1>2 DEF RelayDeliver
    <3>2. /\ orderLog[s] \in Seq(OrderIds)
          /\ \A i \in 1 .. Len(orderLog[s]) : Routed(orderLog[s][i], s)
          /\ \A e \in pending[s] :
               Routed(e.order, s) /\ form[e.order].type = "MARKET"
          /\ \A e \in limitOrders[s] : Routed(e.order, s)
      BY DEF Base, TypeOK, Routing, OrdersRouted
    <3>3. CASE s = form[o].symbol
      <4>1. orderLog'[s] = Append(orderLog[s], o) /\ Routed(o, s)
        BY <2>1, <3>1, <3>3 DEF Base, TypeOK, Routed
      <4> QED
        BY <3>1, <3>2, <4>1 DEF Routed
    <3>4. CASE s # form[o].symbol
      BY <3>1, <3>2, <3>4 DEF Base, TypeOK, Routed
    <3> QED
      BY <3>3, <3>4
  <2>6. ExecutionsAdmitted' /\ OffsetsInTopics' /\ FiniteLists'
    BY <1>2, <2>2, SMTT(40)
       DEF RelayDeliver, Base, TypeOK, Routing, ExecutionsAdmitted,
           OffsetsInTopics, FiniteLists, Admitted, Routed
  <2> QED
    BY <2>3, <2>4, <2>5, <2>6 DEF Base, Routing
<1>3. ASSUME NEW r \in Relays, NEW o \in OrderIds, RelayExpire(r, o)
      PROVE  Base'
  <2>1. TypeOK'
    BY <1>3 DEF RelayExpire, Base, TypeOK
  <2>2. Routing'
    <3>1. RowsPlaced'
      BY <1>3
         DEF RelayExpire, NextToSend, Base, TypeOK, Routing, RowsPlaced, Placed
    <3>2. OrdersRouted' /\ ExecutionsAdmitted' /\ OffsetsInTopics'
      BY <1>3
         DEF RelayExpire, Base, Routing, OrdersRouted, ExecutionsAdmitted,
             OffsetsInTopics, Routed, Admitted
    <3> QED
      BY <3>1, <3>2 DEF Routing
  <2> QED
    BY <1>3, <2>1, <2>2 DEF RelayExpire, Base, FiniteLists
<1>4. ASSUME NEW r \in Relays, RelayCommit(r)
      PROVE  Base'
  <2>1. TypeOK'
    BY <1>4 DEF RelayCommit, Base, TypeOK
  <2>2. Routing'
    <3>1. RowsPlaced'
      BY <1>4 DEF RelayCommit, Base, TypeOK, Routing, RowsPlaced, Placed
    <3>2. OrdersRouted' /\ ExecutionsAdmitted' /\ OffsetsInTopics'
      BY <1>4
         DEF RelayCommit, Base, Routing, OrdersRouted, ExecutionsAdmitted,
             OffsetsInTopics, Routed, Admitted
    <3> QED
      BY <3>1, <3>2 DEF Routing
  <2> QED
    BY <1>4, <2>1, <2>2 DEF RelayCommit, Base, FiniteLists
<1>5. ASSUME NEW r \in Relays, RelayCrash(r)
      PROVE  Base'
  <2>1. TypeOK'
    BY <1>5 DEF RelayCrash, Base, TypeOK
  <2>2. Routing'
    BY <1>5
       DEF RelayCrash, Base, TypeOK, Routing, RowsPlaced,
           OrdersRouted, ExecutionsAdmitted, OffsetsInTopics, Routed,
           Admitted, Placed
  <2> QED
    BY <1>5, <2>1, <2>2 DEF RelayCrash, Base, FiniteLists
<1> QED
  BY <1>1, <1>2, <1>3, <1>4, <1>5 DEF RelayNext

\* One list emptied or filtered by a tick: what is appended to the buffer.
LEMMA EmittedType ==
  ASSUME TypeOK, NEW M \in SUBSET Entries, NEW L \in SUBSET Entries,
         IsFiniteSet(M), IsFiniteSet(L),
         NEW m \in Listings(M), NEW l \in Listings(L), NEW p \in Prices
  PROVE  LET x == ToExecutions(m \o l, p)
         IN  /\ x \in Seq(Fills)
             /\ \A i \in 1 .. Len(x) :
                  \E e \in M \union L : x[i] = [order |-> e.order, price |-> p]
             /\ \A e \in M \union L : \E i \in 1 .. Len(x) :
                  x[i] = [order |-> e.order, price |-> p]
<1>1. m \in Seq(M) /\ l \in Seq(L)
  BY ListingsType
<1>2. m \in Seq(Entries) /\ l \in Seq(Entries)
  BY <1>1
<1>3. /\ m \o l \in Seq(Entries)
      /\ Len(m \o l) = Len(m) + Len(l)
      /\ \A i \in 1 .. Len(m) : (m \o l)[i] = m[i]
      /\ \A i \in 1 .. Len(l) : (m \o l)[Len(m) + i] = l[i]
  BY <1>2
<1>4. \A i \in 1 .. Len(m \o l) : (m \o l)[i] \in M \union L
  <2> TAKE i \in 1 .. Len(m \o l)
  <2>1. CASE i <= Len(m)
    BY <1>1, <1>3, <2>1
  <2>2. CASE i > Len(m)
    <3>1. i - Len(m) \in 1 .. Len(l)
      BY <1>2, <1>3, <2>2
    <3> QED
      BY <1>1, <1>2, <1>3, <3>1
  <2> QED
    BY <1>2, <2>1, <2>2
<1>5. \A e \in M \union L : \E i \in 1 .. Len(m \o l) : (m \o l)[i] = e
  <2> TAKE e \in M \union L
  <2>1. CASE e \in M
    <3>1. PICK i \in 1 .. Len(m) : m[i] = e
      BY <1>1, <2>1, ListingsType
    <3>2. i \in 1 .. Len(m \o l)
      BY <1>2, <1>3
    <3> QED
      BY <1>3, <3>1, <3>2
  <2>2. CASE e \in L
    <3>1. PICK i \in 1 .. Len(l) : l[i] = e
      BY <1>1, <2>2, ListingsType
    <3>2. Len(m) + i \in 1 .. Len(m \o l)
      BY <1>2, <1>3
    <3> QED
      BY <1>3, <3>1, <3>2
  <2> QED
    BY <2>1, <2>2
<1> DEFINE x == ToExecutions(m \o l, p)
<1>6. /\ x \in Seq(Fills) /\ Len(x) = Len(m \o l)
      /\ \A i \in 1 .. Len(m \o l) :
           x[i] = [order |-> (m \o l)[i].order, price |-> p]
  BY <1>3, ToExecutionsType
<1> HIDE DEF x
<1>7. \A i \in 1 .. Len(x) :
        \E e \in M \union L : x[i] = [order |-> e.order, price |-> p]
  BY <1>4, <1>6
<1>8. \A e \in M \union L : \E i \in 1 .. Len(x) :
        x[i] = [order |-> e.order, price |-> p]
  BY <1>5, <1>6
<1> QED
  BY <1>6, <1>7, <1>8 DEF x

LEMMA TickBase ==
  ASSUME Base, NEW s \in Symbols, NEW p \in Prices, Tick(s, p)
  PROVE  Base'
<1> DEFINE crossed == {e \in limitOrders[s] : Crosses(form[e.order], p)}
<1>1. /\ UNCHANGED <<orderVars, ledgerVars, relayVars, orderLog, execLog,
                     engineUp, orderPos, orderCommitted, updaterVars,
                     restarts, expiries>>
      /\ latestPrice' = [latestPrice EXCEPT ![s] = p]
      /\ pending' = [pending EXCEPT ![s] = {}]
      /\ limitOrders' = [limitOrders EXCEPT ![s] = @ \ crossed]
  BY DEF Tick
<1>2. /\ pending[s] \in SUBSET Entries /\ crossed \in SUBSET Entries
      /\ IsFiniteSet(pending[s]) /\ IsFiniteSet(crossed)
      /\ limitOrders[s] \ crossed \in SUBSET Entries
      /\ IsFiniteSet(limitOrders[s] \ crossed)
  BY FS_Subset DEF Base, TypeOK, FiniteLists
<1>3. PICK m \in Listings(pending[s]), l \in Listings(crossed) :
        buffer' = [buffer EXCEPT ![s] = @ \o ToExecutions(m \o l, p)]
  BY DEF Tick
<1> DEFINE x == ToExecutions(m \o l, p)
<1>4. /\ x \in Seq(Fills)
      /\ \A i \in 1 .. Len(x) : \E e \in pending[s] \union crossed :
           x[i] = [order |-> e.order, price |-> p]
  BY <1>2, EmittedType DEF Base
<1>5. \A e \in pending[s] \union crossed :
        Admitted([order |-> e.order, price |-> p], s)
  <2> TAKE e \in pending[s] \union crossed
  <2>1. Routed(e.order, s)
    BY DEF Base, Routing, OrdersRouted
  <2>2. Crosses(form[e.order], p)
    BY DEF Base, Routing, OrdersRouted, Crosses
  <2> QED
    BY <2>1, <2>2 DEF Admitted
<1>6. \A i \in 1 .. Len(x) : Admitted(x[i], s)
  BY <1>4, <1>5
<1> HIDE DEF x, crossed
<1> USE DEF orderVars, ledgerVars, relayVars, updaterVars
<1>7. TypeOK'
  <2>1. buffer' \in [Symbols -> Seq(Fills)]
    BY <1>3, <1>4 DEF Base, TypeOK, x
  <2> QED
    BY <1>1, <1>2, <2>1 DEF Base, TypeOK
<1>8. RowsPlaced' /\ OffsetsInTopics'
  BY <1>1 DEF Base, Routing, RowsPlaced, OffsetsInTopics, Placed
<1>9. OrdersRouted'
  BY <1>1 DEF Base, TypeOK, Routing, OrdersRouted, Routed
<1>10. ExecutionsAdmitted'
  <2> SUFFICES ASSUME NEW t \in Symbols, NEW i \in 1 .. Len(buffer'[t])
               PROVE  Admitted(buffer[t][i], t)'
    BY <1>1 DEF Base, Routing, ExecutionsAdmitted, Admitted, Routed
  <2>1. CASE t # s
    BY <1>1, <1>3, <2>1
       DEF Base, TypeOK, Routing, ExecutionsAdmitted, Admitted, Routed
  <2>2. CASE t = s
    <3>1. buffer'[t] = buffer[t] \o x /\ buffer[t] \in Seq(Fills)
      BY <1>3, <2>2 DEF Base, TypeOK, x
    <3>2. CASE i <= Len(buffer[t])
      <4>1. buffer'[t][i] = buffer[t][i] /\ i \in 1 .. Len(buffer[t])
        BY <1>4, <3>1, <3>2
      <4> QED
        BY <1>1, <4>1
           DEF Base, Routing, ExecutionsAdmitted, Admitted, Routed
    <3>3. CASE i > Len(buffer[t])
      <4>1. /\ i - Len(buffer[t]) \in 1 .. Len(x)
            /\ buffer'[t][i] = x[i - Len(buffer[t])]
        BY <1>4, <3>1, <3>3
      <4> QED
        BY <1>1, <1>6, <2>2, <4>1 DEF Admitted, Routed
    <3> QED
      BY <1>4, <3>1, <3>2, <3>3
  <2> QED
    BY <2>1, <2>2
<1>11. FiniteLists'
  BY <1>1, <1>2, FS_EmptySet DEF Base, TypeOK, FiniteLists
<1> QED
  BY <1>7, <1>8, <1>9, <1>10, <1>11 DEF Base, Routing

LEMMA EngineStartBase ==
  ASSUME Base, EngineStart
  PROVE  Base'
<1> USE DEF EngineStart, orderVars, ledgerVars, relayVars, updaterVars
<1>1. ASSUME NEW type, NEW s \in Symbols
      PROVE  Reseeded(type, s) \in SUBSET Entries /\ IsFiniteSet(Reseeded(type, s))
  <2> DEFINE rows == {o \in OrderIds : status[o] = "PENDING"
                                         /\ form[o].type = type
                                         /\ form[o].symbol = s}
  <2>1. IsFiniteSet(rows)
    BY OrderIdsAssumption, FS_Subset
  <2>2. [o \in rows |-> [order |-> o, at |-> 0]] \in Surjection(rows, Reseeded(type, s))
    BY DEF Reseeded, Surjection
  <2>3. IsFiniteSet(Reseeded(type, s))
    BY <2>1, <2>2, FS_Surjection
  <2> QED
    BY <2>3 DEF Reseeded, Entries
<1>2. TypeOK'
  <2>1. engineUp' \in BOOLEAN
    OBVIOUS
  <2>2. /\ pending' \in [Symbols -> SUBSET Entries]
        /\ limitOrders' \in [Symbols -> SUBSET Entries]
        /\ orderPos' \in [Symbols -> Nat]
    BY <1>1 DEF Base, TypeOK
  <2> QED
    BY <2>1, <2>2 DEF Base, TypeOK
<1>3. RowsPlaced' /\ ExecutionsAdmitted' /\ OffsetsInTopics'
  <2>1. RowsPlaced'
    BY DEF Base, Routing, RowsPlaced, Placed
  <2>2. ExecutionsAdmitted'
    BY DEF Base, Routing, ExecutionsAdmitted, Admitted, Routed
  <2>3. OffsetsInTopics'
    BY DEF Base, TypeOK, Routing, OffsetsInTopics
  <2> QED
    BY <2>1, <2>2, <2>3
<1>4. OrdersRouted'
  <2>1. \A s \in Symbols, type \in {"MARKET", "LIMIT"} :
          \A e \in Reseeded(type, s) :
            Routed(e.order, s) /\ form[e.order].type = type
    BY DEF Base, Routing, RowsPlaced, Reseeded, Routed
  <2> QED
    BY <2>1 DEF Base, TypeOK, Routing, OrdersRouted, Routed
<1>5. FiniteLists'
  BY <1>1 DEF FiniteLists
<1> QED
  BY <1>2, <1>3, <1>4, <1>5 DEF Base, Routing

LEMMA ConsumeOrderBase ==
  ASSUME Base, NEW s \in Symbols, ConsumeOrder(s)
  PROVE  Base'
<1> DEFINE at == orderPos[s] + 1
           o  == orderLog[s][at]
           p  == latestPrice[s]
           e  == [order |-> o, at |-> at]
           x  == [order |-> o, price |-> p]
<1>1. /\ UNCHANGED <<orderVars, ledgerVars, relayVars, orderLog, execLog,
                     engineUp, latestPrice, orderCommitted, updaterVars,
                     restarts, expiries>>
      /\ orderPos' = [orderPos EXCEPT ![s] = at]
      /\ at \in 1 .. Len(orderLog[s])
      /\ \/ buffer' = buffer
         \/ /\ p # NoPrice /\ Crosses(form[o], p)
            /\ buffer' = [buffer EXCEPT ![s] = Append(@, x)]
      /\ \/ pending' = pending
         \/ /\ form[o].type = "MARKET"
            /\ pending' = [pending EXCEPT ![s] = @ \union {e}]
      /\ \/ limitOrders' = limitOrders
         \/ limitOrders' = [limitOrders EXCEPT ![s] = @ \union {e}]
  BY DEF ConsumeOrder, Executable, Base, TypeOK
<1>2. /\ Routed(o, s) /\ o \in OrderIds /\ e \in Entries
      /\ p # NoPrice => x \in Fills
      /\ buffer[s] \in Seq(Fills)
  <2>1. orderLog[s] \in Seq(OrderIds) /\ at \in Nat /\ buffer[s] \in Seq(Fills)
    BY <1>1 DEF Base, TypeOK
  <2>2. Routed(o, s) /\ o \in OrderIds
    BY <1>1, <2>1 DEF Base, Routing, OrdersRouted
  <2>3. p \in Prices \union {NoPrice}
    BY DEF Base, TypeOK
  <2> HIDE DEF o, p, at
  <2>4. e \in Entries /\ (p # NoPrice => x \in Fills)
    BY <2>1, <2>2, <2>3 DEF Entries, Fills
  <2> QED
    BY <2>1, <2>2, <2>4
<1> HIDE DEF o, p, e, x
<1>l. ASSUME NEW t \in Symbols
      PROVE  /\ \/ pending'[t] = pending[t]
                \/ /\ t = s /\ form[o].type = "MARKET"
                   /\ pending'[t] = pending[t] \union {e}
             /\ \/ limitOrders'[t] = limitOrders[t]
                \/ t = s /\ limitOrders'[t] = limitOrders[t] \union {e}
  <2>1. /\ \/ pending' = pending
           \/ /\ form[o].type = "MARKET"
              /\ pending' = [pending EXCEPT ![s] = @ \union {e}]
        /\ \/ limitOrders' = limitOrders
           \/ limitOrders' = [limitOrders EXCEPT ![s] = @ \union {e}]
    BY <1>1
  <2>2. DOMAIN pending = Symbols /\ DOMAIN limitOrders = Symbols
        /\ pending = [r \in Symbols |-> pending[r]]
        /\ limitOrders = [r \in Symbols |-> limitOrders[r]]
    BY DEF Base, TypeOK
  <2> QED
    BY <2>1, <2>2
<1> USE DEF orderVars, ledgerVars, relayVars, updaterVars
<1>3. TypeOK'
  <2>1. orderPos' \in [Symbols -> Nat]
    BY <1>1 DEF Base, TypeOK
  <2>2. buffer' \in [Symbols -> Seq(Fills)]
    <3>1. buffer \in [Symbols -> Seq(Fills)]
      BY DEF Base, TypeOK
    <3>2. CASE p # NoPrice /\ buffer' = [buffer EXCEPT ![s] = Append(@, x)]
      <4>1. Append(buffer[s], x) \in Seq(Fills)
        BY <1>2, <3>2
      <4> QED
        BY <3>1, <3>2, <4>1
    <3> QED
      BY <1>1, <3>1, <3>2
  <2>3. pending' \in [Symbols -> SUBSET Entries]
    <3>1. pending \in [Symbols -> SUBSET Entries]
      BY DEF Base, TypeOK
    <3> QED
      BY <1>1, <1>2, <3>1
  <2>4. limitOrders' \in [Symbols -> SUBSET Entries]
    <3>1. limitOrders \in [Symbols -> SUBSET Entries]
      BY DEF Base, TypeOK
    <3> QED
      BY <1>1, <1>2, <3>1
  <2> QED
    BY <1>1, <2>1, <2>2, <2>3, <2>4 DEF Base, TypeOK
<1>4. RowsPlaced' /\ OffsetsInTopics'
  BY <1>1 DEF Base, TypeOK, Routing, RowsPlaced, OffsetsInTopics, Placed
<1>5. OrdersRouted'
  <2>1. UNCHANGED <<form, orderLog>>
    BY <1>1
  <2>2. ASSUME NEW t \in Symbols, NEW d \in pending'[t]
        PROVE  Routed(d.order, t) /\ form[d.order].type = "MARKET"
    <3>1. CASE d \in pending[t]
      BY <3>1 DEF Base, Routing, OrdersRouted
    <3>2. CASE d \notin pending[t]
      <4>1. t = s /\ d = e /\ form[o].type = "MARKET"
        BY <1>l, <2>2, <3>2
      <4> QED
        BY <1>2, <4>1 DEF e
    <3> QED
      BY <3>1, <3>2
  <2>3. ASSUME NEW t \in Symbols, NEW d \in limitOrders'[t]
        PROVE  Routed(d.order, t)
    <3>1. CASE d \in limitOrders[t]
      BY <3>1 DEF Base, Routing, OrdersRouted
    <3>2. CASE d \notin limitOrders[t]
      <4>1. t = s /\ d = e
        BY <1>l, <2>3, <3>2
      <4> QED
        BY <1>2, <4>1 DEF e
    <3> QED
      BY <3>1, <3>2
  <2> QED
    BY <2>1, <2>2, <2>3 DEF Base, Routing, OrdersRouted, Routed
<1>6. ExecutionsAdmitted'
  <2> SUFFICES ASSUME NEW t \in Symbols, NEW i \in 1 .. Len(buffer'[t])
               PROVE  Admitted(buffer[t][i], t)'
    BY <1>1 DEF Base, Routing, ExecutionsAdmitted, Admitted, Routed
  <2>1. CASE buffer'[t] = buffer[t]
    BY <1>1, <2>1 DEF Base, Routing, ExecutionsAdmitted, Admitted, Routed
  <2>2. CASE buffer'[t] # buffer[t]
    <3>1. /\ t = s /\ p # NoPrice /\ Crosses(form[o], p)
          /\ buffer'[t] = Append(buffer[s], x)
      BY <1>1, <2>2 DEF Base, TypeOK
    <3>2. Admitted(x, s)
      BY <1>2, <3>1 DEF Admitted, x
    <3> QED
      BY <1>1, <1>2, <3>1, <3>2
         DEF Base, Routing, ExecutionsAdmitted, Admitted, Routed
  <2> QED
    BY <2>1, <2>2
<1>7. FiniteLists'
  <2>1. ASSUME NEW t \in Symbols
        PROVE  /\ pending'[t] = pending[t] \/ pending'[t] = pending[t] \union {e}
               /\ \/ limitOrders'[t] = limitOrders[t]
                  \/ limitOrders'[t] = limitOrders[t] \union {e}
    BY <1>l
  <2>2. \A t \in Symbols : /\ IsFiniteSet(pending[t] \union {e})
                           /\ IsFiniteSet(limitOrders[t] \union {e})
    BY FS_AddElement DEF Base, FiniteLists
  <2> QED
    BY <2>1, <2>2 DEF Base, FiniteLists
<1> QED
  BY <1>3, <1>4, <1>5, <1>6, <1>7 DEF Base, Routing

LEMMA BufferBase ==
  ASSUME Base, NEW s \in Symbols, EngineDeliver(s) \/ EngineExpire(s)
  PROVE  Base'
<1>1. /\ UNCHANGED <<orderVars, ledgerVars, relayVars, orderLog, engineUp,
                     latestPrice, pending, limitOrders, orderPos,
                     orderCommitted, updaterVars, restarts>>
      /\ buffer' = [buffer EXCEPT ![s] = Tail(@)]
      /\ buffer[s] # <<>>
  BY DEF EngineDeliver, EngineExpire
<1>2. \/ execLog' = execLog
      \/ execLog' = [execLog EXCEPT ![s] = Append(@, Head(buffer[s]))]
  BY DEF EngineDeliver, EngineExpire
<1>3. expiries' \in Nat
  BY DEF EngineDeliver, EngineExpire, Base, TypeOK
<1>4. /\ buffer \in [Symbols -> Seq(Fills)] /\ execLog \in [Symbols -> Seq(Fills)]
      /\ \A t \in Symbols : \A i \in 1 .. Len(buffer[t]) : Admitted(buffer[t][i], t)
      /\ \A t \in Symbols : \A i \in 1 .. Len(execLog[t]) : Admitted(execLog[t][i], t)
  BY DEF Base, TypeOK, Routing, ExecutionsAdmitted
<1>5. /\ Head(buffer[s]) \in Fills /\ Admitted(Head(buffer[s]), s)
      /\ Tail(buffer[s]) \in Seq(Fills)
      /\ \A i \in 1 .. Len(Tail(buffer[s])) : Admitted(Tail(buffer[s])[i], s)
  BY <1>1, <1>4
<1> USE DEF orderVars, ledgerVars, relayVars, updaterVars
<1>6. TypeOK'
  <2>1. buffer' \in [Symbols -> Seq(Fills)]
    BY <1>1, <1>4, <1>5
  <2>2. execLog' \in [Symbols -> Seq(Fills)]
    <3>1. Append(execLog[s], Head(buffer[s])) \in Seq(Fills)
      BY <1>4, <1>5
    <3> QED
      BY <1>2, <1>4, <3>1
  <2> QED
    BY <1>1, <1>3, <2>1, <2>2 DEF Base, TypeOK
<1>7. RowsPlaced' /\ OrdersRouted' /\ FiniteLists'
  BY <1>1 DEF Base, Routing, RowsPlaced, OrdersRouted, FiniteLists, Routed, Placed
<1>8. OffsetsInTopics'
  <2>1. ASSUME NEW t \in Symbols
        PROVE  Len(execLog[t]) <= Len(execLog'[t])
    <3>1. Len(Append(execLog[t], Head(buffer[s]))) = Len(execLog[t]) + 1
      BY <1>4, <1>5
    <3>2. \/ execLog'[t] = execLog[t]
          \/ execLog'[t] = Append(execLog[t], Head(buffer[s]))
      BY <1>2, <1>4
    <3>3. Len(execLog[t]) \in Nat
      BY <1>4
    <3> QED
      BY <3>1, <3>2, <3>3
  <2>2. \A t \in Symbols : Len(execLog[t]) \in Nat /\ Len(execLog'[t]) \in Nat
    BY <1>2, <1>4, <1>5
  <2> QED
    BY <1>1, <2>1, <2>2 DEF Base, TypeOK, Routing, OffsetsInTopics
<1>9. ExecutionsAdmitted'
  <2>1. \A t \in Symbols : \A i \in 1 .. Len(buffer'[t]) : Admitted(buffer'[t][i], t)
    BY <1>1, <1>4, <1>5
  <2>2. \A t \in Symbols : \A i \in 1 .. Len(execLog'[t]) : Admitted(execLog'[t][i], t)
    BY <1>2, <1>4, <1>5
  <2> QED
    BY <1>1, <2>1, <2>2, ZenonT(60) DEF ExecutionsAdmitted, Admitted, Routed
<1> QED
  BY <1>6, <1>7, <1>8, <1>9 DEF Base, Routing

LEMMA EngineCommitBase ==
  ASSUME Base, EngineCommit
  PROVE  Base'
<1>1. /\ buffer \in [Symbols -> Seq(Fills)] /\ execLog \in [Symbols -> Seq(Fills)]
      /\ \A t \in Symbols : \A i \in 1 .. Len(buffer[t]) : Admitted(buffer[t][i], t)
      /\ \A t \in Symbols : \A i \in 1 .. Len(execLog[t]) : Admitted(execLog[t][i], t)
  BY DEF Base, TypeOK, Routing, ExecutionsAdmitted
<1>2. /\ UNCHANGED <<orderVars, ledgerVars, relayVars, orderLog, engineUp,
                     latestPrice, pending, limitOrders, orderPos, updaterVars,
                     restarts, expiries>>
      /\ execLog' = [s \in Symbols |-> execLog[s] \o buffer[s]]
      /\ buffer' = [s \in Symbols |-> <<>>]
      /\ orderCommitted' = orderPos
  BY DEF EngineCommit
<1> USE DEF orderVars, ledgerVars, relayVars, updaterVars
<1>3. TypeOK'
  BY <1>1, <1>2 DEF Base, TypeOK
<1>4. RowsPlaced' /\ OrdersRouted' /\ FiniteLists'
  BY <1>2 DEF Base, Routing, RowsPlaced, OrdersRouted, FiniteLists, Routed, Placed
<1>5. OffsetsInTopics'
  BY <1>1, <1>2 DEF Base, TypeOK, Routing, OffsetsInTopics
<1>6. ExecutionsAdmitted'
  <2>1. ASSUME NEW t \in Symbols, NEW i \in 1 .. Len(execLog'[t])
        PROVE  Admitted(execLog'[t][i], t)
    <3>1. execLog'[t] = execLog[t] \o buffer[t]
      BY <1>2
    <3>2. CASE i <= Len(execLog[t])
      BY <1>1, <3>1, <3>2
    <3>3. CASE i > Len(execLog[t])
      <4>1. /\ i - Len(execLog[t]) \in 1 .. Len(buffer[t])
            /\ execLog'[t][i] = buffer[t][i - Len(execLog[t])]
        BY <1>1, <3>1, <3>3
      <4> QED
        BY <1>1, <4>1
    <3> QED
      BY <1>1, <3>2, <3>3
  <2>2. ASSUME NEW t \in Symbols
        PROVE  Len(buffer'[t]) = 0
    BY <1>2
  <2>3. \A t \in Symbols : \A i \in 1 .. Len(buffer'[t]) : Admitted(buffer'[t][i], t)
    BY <2>2
  <2> QED
    BY <1>2, <2>1, <2>3, ZenonT(60) DEF ExecutionsAdmitted, Admitted, Routed
<1> QED
  BY <1>3, <1>4, <1>5, <1>6 DEF Base, Routing

LEMMA EngineForgetsBase ==
  ASSUME Base, EngineCrash \/ EngineStop
  PROVE  Base'
<1>1. EngineForgets /\ (orderCommitted' = orderCommitted \/ orderCommitted' = orderPos)
  BY DEF EngineCrash, EngineStop
<1> USE DEF EngineForgets, orderVars, ledgerVars, relayVars, updaterVars
<1>2. TypeOK'
  <2>1. engineUp' \in BOOLEAN
    BY <1>1
  <2>2. orderCommitted' \in [Symbols -> Nat]
    BY <1>1 DEF Base, TypeOK
  <2>3. restarts' \in Nat
    BY <1>1 DEF Base, TypeOK
  <2>4. /\ latestPrice' \in [Symbols -> Prices \union {NoPrice}]
        /\ pending' \in [Symbols -> SUBSET Entries]
        /\ limitOrders' \in [Symbols -> SUBSET Entries]
        /\ buffer' \in [Symbols -> Seq(Fills)]
        /\ orderPos' \in [Symbols -> Nat]
    BY <1>1
  <2> QED
    BY <1>1, <2>1, <2>2, <2>3, <2>4 DEF Base, TypeOK
<1>3. RowsPlaced' /\ OrdersRouted'
  BY <1>1 DEF Base, Routing, RowsPlaced, OrdersRouted, Routed, Placed
<1>4. ExecutionsAdmitted' /\ OffsetsInTopics'
  BY <1>1 DEF Base, TypeOK, Routing, ExecutionsAdmitted, OffsetsInTopics,
              Admitted, Routed
<1>5. FiniteLists'
  BY <1>1, FS_EmptySet DEF FiniteLists
<1> QED
  BY <1>2, <1>3, <1>4, <1>5 DEF Base, Routing

\* A message of the topic executions is settled: its order has been placed.
LEMMA ApplyBase ==
  ASSUME Base, NEW s \in Symbols, UpdaterApply(s)
  PROVE  Base'
<1> DEFINE e == execLog[s][execPos[s] + 1]
<1>1. /\ UNCHANGED <<form, outboxId, published, relayVars, orderLog, execLog,
                     engineVars, execCommitted, restarts, expiries>>
      /\ execPos' = [execPos EXCEPT ![s] = @ + 1]
      /\ execPos[s] < Len(execLog[s])
      /\ ApplyDuplicate(e) \/ ApplyReject(e) \/ ApplyFill(e)
  BY DEF UpdaterApply
<1>2. execPos[s] + 1 \in 1 .. Len(execLog[s]) /\ execLog[s] \in Seq(Fills)
  BY <1>1 DEF Base, TypeOK
<1>3. e \in Fills /\ Admitted(e, s)
  BY <1>2 DEF Base, Routing, ExecutionsAdmitted
<1> HIDE DEF e
<1>4. e.order \in OrderIds /\ e.price \in Prices
  BY <1>3 DEF Fills
<1>5. form[e.order] \in Forms /\ status[e.order] # "ABSENT"
  BY <1>3, <1>4 DEF Base, TypeOK, Routing, RowsPlaced, Admitted, Routed
<1> USE DEF relayVars, ledgerVars, engineVars
<1>6. /\ status' \in [OrderIds -> {"ABSENT", "PENDING", "FILLED", "REJECTED"}]
      /\ \A o \in OrderIds : status'[o] = "ABSENT" <=> status[o] = "ABSENT"
  <2>1. status \in [OrderIds -> {"ABSENT", "PENDING", "FILLED", "REJECTED"}]
    BY DEF Base, TypeOK
  <2>2. CASE ApplyDuplicate(e)
    BY <2>1, <2>2 DEF ApplyDuplicate
  <2>3. CASE ApplyReject(e)
    BY <1>4, <1>5, <2>1, <2>3 DEF ApplyReject
  <2>4. CASE ApplyFill(e)
    BY <1>4, <1>5, <2>1, <2>4 DEF ApplyFill
  <2> QED
    BY <1>1, <2>2, <2>3, <2>4
<1>7. /\ cash' \in [Accounts -> Nat]
      /\ held' \in [Accounts -> [Symbols -> Nat]]
      /\ executions' \in SUBSET Fills
  <2>1. /\ cash \in [Accounts -> Nat]
        /\ held \in [Accounts -> [Symbols -> Nat]]
        /\ executions \in SUBSET Fills
    BY DEF Base, TypeOK
  <2>2. CASE ApplyDuplicate(e) \/ ApplyReject(e)
    BY <2>1, <2>2 DEF ApplyDuplicate, ApplyReject
  <2>3. CASE ApplyFill(e)
    <3>1. /\ CashAfter(form[e.order], e.price, cash) \in [Accounts -> Nat]
          /\ HeldAfter(form[e.order], held) \in [Accounts -> [Symbols -> Nat]]
      BY <1>4, <1>5, <2>1, <2>3, LedgerType DEF ApplyFill
    <3> QED
      BY <1>3, <2>1, <2>3, <3>1 DEF ApplyFill
  <2> QED
    BY <1>1, <2>2, <2>3
<1>8. execPos' \in [Symbols -> Nat]
  BY <1>1 DEF Base, TypeOK
<1>9. TypeOK'
  BY <1>1, <1>6, <1>7, <1>8 DEF Base, TypeOK
<1>10. RowsPlaced'
  BY <1>1, <1>6 DEF Base, Routing, RowsPlaced, Placed
<1>11. OrdersRouted' /\ FiniteLists'
  BY <1>1 DEF Base, Routing, OrdersRouted, Routed, FiniteLists
<1>12. ExecutionsAdmitted'
  BY <1>1 DEF Base, Routing, ExecutionsAdmitted, Admitted, Routed
<1>13. OffsetsInTopics'
  BY <1>1, <1>2 DEF Base, TypeOK, Routing, OffsetsInTopics
<1> QED
  BY <1>9, <1>10, <1>11, <1>12, <1>13 DEF Base, Routing

LEMMA UpdaterBase ==
  ASSUME Base, UpdaterNext
  PROVE  Base'
<1> USE DEF relayVars, ledgerVars, engineVars, orderVars
<1>1. CASE UpdaterCrash
  <2>1. TypeOK'
    BY <1>1 DEF UpdaterCrash, Base, TypeOK
  <2>2. RowsPlaced' /\ OrdersRouted' /\ ExecutionsAdmitted' /\ FiniteLists'
    BY <1>1
       DEF UpdaterCrash, Base, Routing, RowsPlaced, OrdersRouted,
           ExecutionsAdmitted, Admitted, Routed, Placed, FiniteLists
  <2>3. OffsetsInTopics'
    BY <1>1 DEF UpdaterCrash, Base, TypeOK, Routing, OffsetsInTopics
  <2> QED
    BY <2>1, <2>2, <2>3 DEF Base, Routing
<1>2. ASSUME NEW s \in Symbols, UpdaterCommit(s)
      PROVE  Base'
  <2>1. TypeOK'
    BY <1>2 DEF UpdaterCommit, Base, TypeOK
  <2>2. RowsPlaced' /\ OrdersRouted' /\ ExecutionsAdmitted' /\ FiniteLists'
    BY <1>2
       DEF UpdaterCommit, Base, Routing, RowsPlaced, OrdersRouted,
           ExecutionsAdmitted, Admitted, Routed, Placed, FiniteLists
  <2>3. OffsetsInTopics'
    BY <1>2 DEF UpdaterCommit, Base, TypeOK, Routing, OffsetsInTopics
  <2> QED
    BY <2>1, <2>2, <2>3 DEF Base, Routing
<1> QED
  BY <1>1, <1>2, ApplyBase DEF UpdaterNext

LEMMA StutterBase == Base /\ UNCHANGED vars => Base'
<1> SUFFICES ASSUME Base, UNCHANGED vars PROVE Base'
  OBVIOUS
<1> USE DEF vars, relayVars, ledgerVars, engineVars, orderVars, updaterVars
<1>1. TypeOK'
  BY DEF Base, TypeOK
<1>2. Routing'
  BY DEF Base, Routing, RowsPlaced, OrdersRouted, ExecutionsAdmitted,
         OffsetsInTopics, Admitted, Routed, Placed
<1>3. FiniteLists'
  BY DEF Base, FiniteLists
<1> QED
  BY <1>1, <1>2, <1>3 DEF Base

LEMMA StepBase == Base /\ [Next]_vars => Base'
<1> SUFFICES ASSUME Base, Next PROVE Base'
  BY StutterBase
<1>1. CASE EngineNext
  BY <1>1, TickBase, EngineStartBase, ConsumeOrderBase, BufferBase,
     EngineCommitBase, EngineForgetsBase DEF EngineNext
<1> QED
  BY <1>1, PlaceOrderBase, RelayBase, UpdaterBase DEF Next

LEMMA BaseInvariant == Spec => []Base
BY InitBase, StepBase, PTL DEF Spec

\* In particular no balance and no holding ever goes below zero: the check of
\* apply_execution leaves nothing for the CHECK constraints to refuse.
THEOREM TypeCorrect == Spec => []TypeOK
<1>1. Base => TypeOK
  BY DEF Base
<1> QED
  BY <1>1, BaseInvariant, PTL

\* Every row, message and list entry belongs to a placed order of its symbol,
\* every execution carries a price its order admits, and offsets stay inside
\* their topics.
THEOREM RoutingCorrect == Spec => []Routing
<1>1. Base => Routing
  BY DEF Base
<1> QED
  BY <1>1, BaseInvariant, PTL

-----------------------------------------------------------------------------
(* Topics only grow. *)

LEMMA ConcatItems ==
  ASSUME NEW S, NEW a \in Seq(S), NEW b \in Seq(S)
  PROVE  /\ a \o b \in Seq(S) /\ Len(a \o b) = Len(a) + Len(b)
         /\ \A i \in 1 .. Len(a) : (a \o b)[i] = a[i]
         /\ \A i \in 1 .. Len(b) : (a \o b)[Len(a) + i] = b[i]
  OBVIOUS

LEMMA AppendItems ==
  ASSUME NEW S, NEW a \in Seq(S), NEW x
  PROVE  /\ Len(a) \in Nat /\ Len(Append(a, x)) = Len(a) + 1
         /\ Append(a, x)[Len(a) + 1] = x
         /\ \A i \in 1 .. Len(a) : Append(a, x)[i] = a[i]
<1>1. a \in Seq(S \union {x})
  OBVIOUS
<1> QED
  BY <1>1

-----------------------------------------------------------------------------
(* Settlement: executions and statuses agree, and what was read is settled. *)

ReadMeansSettled ==
  \A s \in Symbols : \A i \in 1 .. execPos[s] :
    status[execLog[s][i].order] \in {"FILLED", "REJECTED"}

Settlement == SettledOnce /\ LimitPriceRespected /\ ReadMeansSettled

\* The steps that neither place nor settle an order, and only append to the
\* topic executions.
LEMMA QuietSettlement ==
  ASSUME Base, Settlement, UNCHANGED <<form, status, executions>>,
         execLog' \in [Symbols -> Seq(Fills)],
         \A s \in Symbols : \A i \in 1 .. Len(execLog[s]) :
           execLog'[s][i] = execLog[s][i],
         execPos' \in [Symbols -> Nat],
         \A s \in Symbols : execPos'[s] <= execPos[s]
  PROVE  Settlement'
<1>1. SettledOnce' /\ LimitPriceRespected'
  BY DEF Settlement, SettledOnce, LimitPriceRespected, Executed
<1>2. ReadMeansSettled'
  <2> SUFFICES ASSUME NEW s \in Symbols, NEW i \in 1 .. execPos'[s]
               PROVE  status[execLog'[s][i].order] \in {"FILLED", "REJECTED"}
    BY DEF ReadMeansSettled
  <2>1. /\ execPos[s] \in Nat /\ execPos'[s] \in Nat
        /\ execPos[s] <= Len(execLog[s]) /\ Len(execLog[s]) \in Nat
    BY DEF Base, TypeOK, Routing, OffsetsInTopics
  <2>2. i \in 1 .. execPos[s] /\ i \in 1 .. Len(execLog[s])
    BY <2>1
  <2> QED
    BY <2>2 DEF Settlement, ReadMeansSettled
<1> QED
  BY <1>1, <1>2 DEF Settlement

LEMMA PlaceOrderSettlement ==
  ASSUME Base, Settlement, NEW o \in OrderIds, NEW f \in Forms, PlaceOrder(o, f)
  PROVE  Settlement'
<1> USE DEF PlaceOrder, ledgerVars, updaterVars
<1>1. ~ Executed(o) /\ form[o] = NoForm
  BY DEF Base, Routing, RowsPlaced, Settlement, SettledOnce
<1>2. /\ form' = [form EXCEPT ![o] = f] /\ form \in [OrderIds -> Forms \union {NoForm}]
      /\ status' = [status EXCEPT ![o] = "PENDING"]
      /\ status \in [OrderIds -> {"ABSENT", "PENDING", "FILLED", "REJECTED"}]
      /\ executions \in SUBSET Fills
      /\ UNCHANGED <<executions, execLog, execPos>>
  BY DEF Base, TypeOK
<1>3. SettledOnce'
  BY <1>1, <1>2 DEF Settlement, SettledOnce, Executed
<1>4. LimitPriceRespected'
  BY <1>1, <1>2 DEF Settlement, LimitPriceRespected, Executed, Fills
<1>5. ReadMeansSettled'
  <2> SUFFICES ASSUME NEW s \in Symbols, NEW i \in 1 .. execPos[s]
               PROVE  status'[execLog[s][i].order] \in {"FILLED", "REJECTED"}
    BY <1>2 DEF ReadMeansSettled
  <2>1. status[execLog[s][i].order] \in {"FILLED", "REJECTED"}
    BY DEF Settlement, ReadMeansSettled
  <2>2. status[o] = "ABSENT"
    OBVIOUS
  <2>3. i \in 1 .. Len(execLog[s]) /\ execLog[s] \in Seq(Fills)
    BY DEF Base, TypeOK, Routing, OffsetsInTopics
  <2>4. execLog[s][i] \in Fills
    BY <2>3
  <2>5. execLog[s][i].order \in OrderIds
    BY <2>4 DEF Fills
  <2> QED
    BY <1>2, <2>1, <2>2, <2>5
<1> QED
  BY <1>3, <1>4, <1>5 DEF Settlement

LEMMA ApplySettlement ==
  ASSUME Base, Settlement, NEW s \in Symbols, UpdaterApply(s)
  PROVE  Settlement'
<1> DEFINE e == execLog[s][execPos[s] + 1]
<1>1. /\ UNCHANGED <<form, execLog>>
      /\ execPos' = [execPos EXCEPT ![s] = @ + 1]
      /\ execPos[s] < Len(execLog[s])
      /\ ApplyDuplicate(e) \/ ApplyReject(e) \/ ApplyFill(e)
  BY DEF UpdaterApply
<1>2. execPos[s] + 1 \in 1 .. Len(execLog[s]) /\ execLog[s] \in Seq(Fills)
  BY <1>1 DEF Base, TypeOK
<1>3. e \in Fills /\ Admitted(e, s)
  BY <1>2 DEF Base, Routing, ExecutionsAdmitted
<1> HIDE DEF e
<1>4. e.order \in OrderIds /\ status[e.order] # "ABSENT"
  BY <1>3 DEF Fills, Base, Routing, RowsPlaced, Admitted, Routed
<1>5. /\ status \in [OrderIds -> {"ABSENT", "PENDING", "FILLED", "REJECTED"}]
      /\ executions \in SUBSET Fills
  BY DEF Base, TypeOK
<1>6. /\ SettledOnce' /\ LimitPriceRespected'
      /\ status'[e.order] \in {"FILLED", "REJECTED"}
      /\ \A o \in OrderIds : status[o] \in {"FILLED", "REJECTED"}
                               => status'[o] \in {"FILLED", "REJECTED"}
  <2> USE DEF ledgerVars
  <2>1. CASE ApplyDuplicate(e)
    BY <1>1, <1>4, <2>1
       DEF ApplyDuplicate, Settlement, SettledOnce, LimitPriceRespected, Executed
  <2>2. CASE ApplyReject(e)
    <3>1. /\ ~ Executed(e.order) /\ executions' = executions
          /\ status' = [status EXCEPT ![e.order] =
                          IF @ = "PENDING" THEN "REJECTED" ELSE @]
      BY <2>2 DEF ApplyReject
    <3>2. status[e.order] \in {"PENDING", "REJECTED"}
      BY <1>4, <1>5, <3>1 DEF Settlement, SettledOnce
    <3>3. SettledOnce' /\ LimitPriceRespected'
      BY <1>1, <1>4, <1>5, <3>1, <3>2
         DEF Settlement, SettledOnce, LimitPriceRespected, Executed
    <3> QED
      BY <1>4, <1>5, <3>1, <3>2, <3>3
  <2>3. CASE ApplyFill(e)
    <3>1. /\ ~ Executed(e.order) /\ executions' = executions \union {e}
          /\ status' = [status EXCEPT ![e.order] = "FILLED"]
      BY <2>3 DEF ApplyFill
    <3>2. SettledOnce'
      BY <1>4, <1>5, <3>1 DEF Settlement, SettledOnce, Executed
    <3>3. LimitPriceRespected'
      BY <1>1, <1>3, <3>1 DEF Settlement, LimitPriceRespected, Admitted
    <3> QED
      BY <1>4, <1>5, <3>1, <3>2, <3>3
  <2> QED
    BY <1>1, <2>1, <2>2, <2>3
<1>7. ReadMeansSettled'
  <2> SUFFICES ASSUME NEW t \in Symbols, NEW i \in 1 .. execPos'[t]
               PROVE  status'[execLog[t][i].order] \in {"FILLED", "REJECTED"}
    BY <1>1 DEF ReadMeansSettled
  <2>1. execPos[t] \in Nat /\ execPos \in [Symbols -> Nat]
    BY DEF Base, TypeOK
  <2>2. CASE i \in 1 .. execPos[t]
    <3>1. status[execLog[t][i].order] \in {"FILLED", "REJECTED"}
      BY <2>2 DEF Settlement, ReadMeansSettled
    <3>2. i \in 1 .. Len(execLog[t]) /\ execLog[t] \in Seq(Fills)
      BY <2>2 DEF Base, TypeOK, Routing, OffsetsInTopics
    <3>3. execLog[t][i] \in Fills
      BY <3>2
    <3>4. execLog[t][i].order \in OrderIds
      BY <3>3 DEF Fills
    <3> QED
      BY <1>6, <3>1, <3>4
  <2>3. CASE i \notin 1 .. execPos[t]
    <3>1. t = s /\ i = execPos[s] + 1
      BY <1>1, <2>1, <2>3
    <3> QED
      BY <1>6, <3>1 DEF e
  <2> QED
    BY <2>2, <2>3
<1> QED
  BY <1>6, <1>7 DEF Settlement

LEMMA StepSettlement == Base /\ Settlement /\ [Next]_vars => Settlement'
<1> SUFFICES ASSUME Base, Settlement, [Next]_vars PROVE Settlement'
  OBVIOUS
<1>1. CASE \E o \in OrderIds, f \in Forms : PlaceOrder(o, f)
  BY <1>1, PlaceOrderSettlement
<1>2. CASE \E s \in Symbols : UpdaterApply(s)
  BY <1>2, ApplySettlement
<1>3. CASE /\ UNCHANGED <<form, status, executions>>
           /\ \A s \in Symbols : \A i \in 1 .. Len(execLog[s]) :
                execLog'[s][i] = execLog[s][i]
           /\ \A s \in Symbols : execPos'[s] <= execPos[s]
  <2>1. Base'
    BY StepBase
  <2> QED
    BY <1>3, <2>1, QuietSettlement DEF Base, TypeOK
<1> USE DEF orderVars, ledgerVars, relayVars, engineVars, updaterVars
<1>4. \A s \in Symbols : execPos[s] \in Nat /\ execLog[s] \in Seq(Fills)
  BY DEF Base, TypeOK
<1>5. CASE RelayNext \/ UNCHANGED vars
  <2>1. UNCHANGED <<form, status, executions, execLog, execPos>>
    BY <1>5 DEF RelayNext, RelaySelect, RelayDeliver, RelayExpire, RelayCommit,
                RelayCrash, vars
  <2> QED
    BY <1>3, <1>4, <2>1
<1>6. CASE EngineNext
  <2>1. UNCHANGED <<form, status, executions, execPos>>
    BY <1>6 DEF EngineNext, EngineStart, EngineCommit, EngineCrash, EngineStop,
                EngineForgets, Tick, ConsumeOrder, EngineDeliver, EngineExpire
  <2>2. ASSUME NEW s \in Symbols, NEW i \in 1 .. Len(execLog[s])
        PROVE  execLog'[s][i] = execLog[s][i]
    <3>1. CASE execLog' = execLog
      BY <3>1
    <3>2. CASE EngineCommit
      <4>1. execLog'[s] = execLog[s] \o buffer[s]
        BY <3>2 DEF EngineCommit
      <4>2. buffer[s] \in Seq(Fills) /\ execLog[s] \in Seq(Fills)
        BY DEF Base, TypeOK
      <4>3. (execLog[s] \o buffer[s])[i] = execLog[s][i]
        BY <4>2, ConcatItems
      <4> QED
        BY <4>1, <4>3
    <3>3. ASSUME NEW t \in Symbols, EngineDeliver(t)
          PROVE  execLog'[s][i] = execLog[s][i]
      <4>1. execLog' = [execLog EXCEPT ![t] = Append(@, Head(buffer[t]))]
        BY <3>3 DEF EngineDeliver
      <4>2. \/ execLog'[s] = execLog[s]
            \/ execLog'[s] = Append(execLog[s], Head(buffer[t]))
        BY <4>1 DEF Base, TypeOK
      <4>3. buffer[t] \in Seq(Fills) /\ buffer[t] # <<>>
        BY <3>3 DEF EngineDeliver, Base, TypeOK
      <4>4. Head(buffer[t]) \in Fills
        BY <4>3
      <4> QED
        BY <1>4, <4>2, <4>4
    <3> QED
      BY <1>6, <3>1, <3>2, <3>3
         DEF EngineNext, EngineStart, EngineCrash, EngineStop, EngineForgets,
             Tick, ConsumeOrder, EngineExpire
  <2> QED
    BY <1>3, <1>4, <2>1, <2>2
<1>7. CASE UpdaterCrash \/ \E s \in Symbols : UpdaterCommit(s)
  <2>1. UNCHANGED <<form, status, executions, execLog>>
    BY <1>7 DEF UpdaterCrash, UpdaterCommit
  <2>2. \A s \in Symbols : execPos'[s] <= execPos[s]
    BY <1>4, <1>7
       DEF UpdaterCrash, UpdaterCommit, Base, Routing, OffsetsInTopics
  <2> QED
    BY <1>3, <2>1, <2>2
<1> QED
  BY <1>1, <1>2, <1>5, <1>6, <1>7 DEF Next, UpdaterNext

LEMMA SettlementInvariant == Spec => []Settlement
<1>1. Init => Settlement
  BY DEF Init, Settlement, SettledOnce, LimitPriceRespected, ReadMeansSettled,
         Executed
<1> QED
  BY <1>1, BaseInvariant, StepSettlement, PTL DEF Spec

\* An order is FILLED exactly when one row of executions says so, although the
\* relay republishes, the engine replays and the updater reads again.
THEOREM SettlesOnce == Spec => []SettledOnce
<1>1. Settlement => SettledOnce
  BY DEF Settlement
<1> QED
  BY <1>1, SettlementInvariant, PTL

\* No execution is booked at a price its order's limit does not admit.
THEOREM LimitPriceKept == Spec => []LimitPriceRespected
<1>1. Settlement => LimitPriceRespected
  BY DEF Settlement
<1> QED
  BY <1>1, SettlementInvariant, PTL

\* The updater never commits past an execution whose order it has not settled.
THEOREM CommitsAfterSettling == Spec => []CommittedMeansSettled
<1>1. Base /\ Settlement => CommittedMeansSettled
  BY DEF Base, TypeOK, Routing, OffsetsInTopics, Settlement, ReadMeansSettled,
         CommittedMeansSettled
<1> QED
  BY <1>1, BaseInvariant, SettlementInvariant, PTL

-----------------------------------------------------------------------------
(* The path implements OrderLedger. *)

LEMMA InitImplements == Init => Ledger!Init
BY DEF Init, Ledger!Init

LEMMA PlaceImplements ==
  ASSUME NEW o \in OrderIds, NEW f \in Forms, PlaceOrder(o, f)
  PROVE  Ledger!Place(o, f)
BY DEF PlaceOrder, ledgerVars, Ledger!Place

LEMMA ApplyImplements ==
  ASSUME Base, Settlement, NEW s \in Symbols, UpdaterApply(s)
  PROVE  \/ \E o \in OrderIds, p \in Prices : Ledger!Fill(o, p) \/ Ledger!Reject(o, p)
         \/ UNCHANGED Ledger!vars
<1> DEFINE e == execLog[s][execPos[s] + 1]
<1>1. /\ form' = form
      /\ execPos[s] < Len(execLog[s])
      /\ ApplyDuplicate(e) \/ ApplyReject(e) \/ ApplyFill(e)
  BY DEF UpdaterApply
<1>2. execPos[s] + 1 \in 1 .. Len(execLog[s]) /\ execLog[s] \in Seq(Fills)
  BY <1>1 DEF Base, TypeOK
<1>3. e \in Fills /\ Admitted(e, s)
  BY <1>2 DEF Base, Routing, ExecutionsAdmitted
<1> HIDE DEF e
<1>4. /\ e.order \in OrderIds /\ e.price \in Prices
      /\ e = [order |-> e.order, price |-> e.price]
      /\ status[e.order] # "ABSENT" /\ Crosses(form[e.order], e.price)
  BY <1>3 DEF Fills, Base, Routing, RowsPlaced, Admitted, Routed
<1>5. status \in [OrderIds -> {"ABSENT", "PENDING", "FILLED", "REJECTED"}]
  BY DEF Base, TypeOK
<1>6. ~ Executed(e.order) => status[e.order] \in {"PENDING", "REJECTED"}
  BY <1>4, <1>5 DEF Settlement, SettledOnce
<1> USE DEF ledgerVars
<1>7. CASE ApplyDuplicate(e)
  BY <1>1, <1>7 DEF ApplyDuplicate, Ledger!vars
<1>8. CASE ApplyReject(e)
  <2>1. CASE status[e.order] = "PENDING"
    <3>1. Ledger!Reject(e.order, e.price)
      BY <1>1, <1>4, <1>5, <1>8, <2>1
         DEF ApplyReject, Ledger!Reject, Crosses, Covered, Cost, Fee,
             RoundHalfEven, Ledger!Crosses, Ledger!Covered, Ledger!Cost,
             Ledger!Fee, Ledger!RoundHalfEven
    <3> QED
      BY <1>4, <3>1
  <2>2. CASE status[e.order] # "PENDING"
    <3>1. status' = status
      BY <1>5, <1>8, <2>2 DEF ApplyReject
    <3> QED
      BY <1>1, <1>8, <3>1 DEF ApplyReject, Ledger!vars
  <2> QED
    BY <2>1, <2>2
<1>9. CASE ApplyFill(e)
  <2>1. Ledger!Fill(e.order, e.price)
    <3>1. /\ Ledger!Crosses(form[e.order], e.price)
          /\ Ledger!Covered(form[e.order], e.price, cash, held)
      BY <1>4, <1>9
         DEF ApplyFill, Crosses, Covered, Cost, Fee, RoundHalfEven,
             Ledger!Crosses, Ledger!Covered, Ledger!Cost, Ledger!Fee,
             Ledger!RoundHalfEven
    <3>2. cash' = Ledger!CashAfter(form[e.order], e.price, cash)
      BY <1>9
         DEF ApplyFill, CashAfter, Cost, Proceeds, Fee, RoundHalfEven,
             Ledger!CashAfter, Ledger!Cost, Ledger!Proceeds, Ledger!Fee,
             Ledger!RoundHalfEven
    <3>3. held' = Ledger!HeldAfter(form[e.order], held)
      BY <1>9 DEF ApplyFill, HeldAfter, Ledger!HeldAfter
    <3>4. /\ status[e.order] \in {"PENDING", "REJECTED"}
          /\ status' = [status EXCEPT ![e.order] = "FILLED"]
          /\ executions' = executions \union {[order |-> e.order, price |-> e.price]}
      BY <1>4, <1>6, <1>9 DEF ApplyFill
    <3> QED
      BY <1>1, <3>1, <3>2, <3>3, <3>4 DEF Ledger!Fill
  <2> QED
    BY <1>4, <2>1
<1> QED
  BY <1>1, <1>7, <1>8, <1>9

LEMMA StepImplements ==
  Base /\ Settlement /\ [Next]_vars => [Ledger!Next]_(Ledger!vars)
<1> SUFFICES ASSUME Base, Settlement, [Next]_vars
             PROVE  Ledger!Next \/ UNCHANGED Ledger!vars
  OBVIOUS
<1>1. CASE \E o \in OrderIds, f \in Forms : PlaceOrder(o, f)
  BY <1>1, PlaceImplements DEF Ledger!Next
<1>2. CASE \E s \in Symbols : UpdaterApply(s)
  BY <1>2, ApplyImplements DEF Ledger!Next
<1>3. CASE RelayNext
  <2> USE DEF ledgerVars, Ledger!vars
  <2>1. ASSUME NEW r \in Relays, NEW o \in OrderIds,
               RelayDeliver(r, o) \/ RelayExpire(r, o)
        PROVE  UNCHANGED <<orderVars, ledgerVars>>
    BY <2>1 DEF RelayDeliver, RelayExpire
  <2>2. ASSUME NEW r \in Relays,
               RelaySelect(r) \/ RelayCommit(r) \/ RelayCrash(r)
        PROVE  UNCHANGED Ledger!vars
    BY <2>2 DEF RelaySelect, RelayCommit, RelayCrash, orderVars
  <2>3. UNCHANGED <<orderVars, ledgerVars>> => UNCHANGED Ledger!vars
    BY DEF orderVars
  <2> QED
    BY <1>3, <2>1, <2>2, <2>3 DEF RelayNext
<1>4. CASE EngineNext
  <2>1. ASSUME EngineStart \/ EngineCrash \/ EngineStop
        PROVE  UNCHANGED <<orderVars, ledgerVars>>
    BY <2>1 DEF EngineStart, EngineCrash, EngineStop, EngineForgets
  <2>2. ASSUME EngineCommit
        PROVE  UNCHANGED <<orderVars, ledgerVars>>
    BY <2>2 DEF EngineCommit
  <2>3. ASSUME NEW s \in Symbols,
               ConsumeOrder(s) \/ EngineDeliver(s) \/ EngineExpire(s)
        PROVE  UNCHANGED <<orderVars, ledgerVars>>
    BY <2>3 DEF ConsumeOrder, EngineDeliver, EngineExpire
  <2>4. ASSUME NEW s \in Symbols, NEW p \in Prices, Tick(s, p)
        PROVE  UNCHANGED <<orderVars, ledgerVars>>
    BY <2>4 DEF Tick
  <2>5. UNCHANGED <<orderVars, ledgerVars>>
    BY <1>4, <2>1, <2>2, <2>3, <2>4 DEF EngineNext
  <2> QED
    BY <2>5 DEF orderVars, ledgerVars, Ledger!vars
<1>5. CASE \/ UpdaterCrash
           \/ \E s \in Symbols : UpdaterCommit(s)
           \/ UNCHANGED vars
  BY <1>5
     DEF UpdaterCrash, UpdaterCommit, vars, orderVars, ledgerVars, Ledger!vars
<1> QED
  BY <1>1, <1>2, <1>3, <1>4, <1>5 DEF Next, UpdaterNext

\* Whatever crashes, is republished or given up, an account's owner sees no more
\* than orders that settle once, at an admitted and covered price, or not.
THEOREM ImplementsLedger == Spec => LedgerSpec
BY InitImplements, BaseInvariant, SettlementInvariant, StepImplements, PTL
   DEF Spec, LedgerSpec, Ledger!Spec

-----------------------------------------------------------------------------
(* Sums over a finite set.  A fold is a CHOOSE of a function that satisfies *)
(* an equation: that there is one is the first thing to show.  Induction is *)
(* on the size of a set, by a smallest counterexample.                      *)

\* The element a fold takes out of a set first, and the equation of the fold
\* that SumFunctionOnSet is, on a collection D of sets.
Pick(s) == CHOOSE x \in s : TRUE

Adds(g, f, D) ==
  g = [s \in D |-> IF s = {} THEN 0 ELSE f[Pick(s)] + g[s \ {Pick(s)}]]

LEMMA SumIsFold ==
  ASSUME NEW f, NEW S
  PROVE  SumFunctionOnSet(f, S) = (CHOOSE g : Adds(g, f, SUBSET S))[S]
BY DEF SumFunctionOnSet, FoldFunctionOnSet, MapThenFoldSet, Adds, Pick

\* Induction on the size of a set: a family of finite sets has a smallest one.
LEMMA Smallest ==
  ASSUME NEW F, F # {}, \A s \in F : IsFiniteSet(s)
  PROVE  \E s \in F : \A t \in F : Cardinality(s) <= Cardinality(t)
<1> DEFINE N == {Cardinality(s) : s \in F}
<1>1. N \subseteq Nat /\ N # {}
  BY FS_CardinalityType
<1>2. \E n \in N : \A m \in N : ~ (<<m, n>> \in OpToRel(<, Nat))
  BY <1>1, WFMin, NatLessThanWellFounded
<1> HIDE DEF N
<1>3. PICK n \in N : \A m \in N : n <= m
  <2>1. PICK n \in N : \A m \in N : ~ (<<m, n>> \in OpToRel(<, Nat))
    BY <1>2
  <2>2. \A m \in N : n <= m
    <3> SUFFICES ASSUME NEW m \in N, m < n PROVE FALSE
      BY <1>1
    <3>1. <<m, n>> \in OpToRel(<, Nat)
      BY <1>1 DEF OpToRel
    <3> QED
      BY <2>1, <3>1
  <2> QED
    BY <2>2
<1>4. \A s \in F : Cardinality(s) \in N
  BY DEF N
<1>5. PICK s \in F : Cardinality(s) = n
  BY DEF N
<1> QED
  BY <1>3, <1>4, <1>5

LEMMA OneLess ==
  ASSUME NEW S, IsFiniteSet(S), NEW x \in S
  PROVE  /\ IsFiniteSet(S \ {x})
         /\ Cardinality(S \ {x}) \in Nat
         /\ Cardinality(S) = Cardinality(S \ {x}) + 1
<1>1. /\ IsFiniteSet(S \ {x})
      /\ Cardinality(S \ {x}) = Cardinality(S) - 1
  BY FS_RemoveElement
<1>2. Cardinality(S) \in Nat /\ Cardinality(S \ {x}) \in Nat
  BY <1>1, FS_CardinalityType
<1> QED
  BY <1>1, <1>2

LEMMA PickIn ==
  ASSUME NEW s, s # {}
  PROVE  Pick(s) \in s
BY DEF Pick

\* The fold exists: built up over the subsets of at most n elements.
LEMMA AddsExists ==
  ASSUME NEW f, NEW S, IsFiniteSet(S)
  PROVE  \E g : Adds(g, f, SUBSET S)
<1> DEFINE D(n) == {s \in SUBSET S : Cardinality(s) <= n}
           Bad == {n \in Nat : ~ \E g : Adds(g, f, D(n))}
<1>1. \A s \in SUBSET S : IsFiniteSet(s) /\ Cardinality(s) \in Nat
  BY FS_Subset, FS_CardinalityType
<1>2. Bad = {}
  <2> SUFFICES ASSUME Bad # {} PROVE FALSE
    OBVIOUS
  <2>1. \E n \in Bad : \A m \in Bad : ~ (<<m, n>> \in OpToRel(<, Nat))
    BY WFMin, NatLessThanWellFounded
  <2>2. PICK n \in Bad : \A m \in Bad : ~ (m < n)
    <3>1. PICK n \in Bad : \A m \in Bad : ~ (<<m, n>> \in OpToRel(<, Nat))
      BY <2>1
    <3>2. \A m \in Bad : m < n => <<m, n>> \in OpToRel(<, Nat)
      BY DEF OpToRel
    <3> QED
      BY <3>1, <3>2
  <2>3. CASE n = 0
    <3>1. \A s \in D(0) : s = {}
      BY <1>1, FS_EmptySet
    <3>2. Adds([s \in D(0) |-> 0], f, D(0))
      BY <3>1 DEF Adds
    <3> QED
      BY <2>3, <3>2
  <2>4. CASE n # 0
    <3>1. n - 1 \in Nat /\ n - 1 \notin Bad
      <4>1. n \in Nat /\ n # 0
        BY <2>4
      <4>2. n - 1 \in Nat /\ n - 1 < n
        BY <4>1
      <4> HIDE DEF Bad
      <4> QED
        BY <2>2, <4>2
    <3>2. PICK g : Adds(g, f, D(n - 1))
      BY <3>1
    <3> DEFINE h == [s \in D(n) |->
                       IF s = {} THEN 0 ELSE f[Pick(s)] + g[s \ {Pick(s)}]]
    <3>3. ASSUME NEW s \in D(n), s # {}
          PROVE  h[s \ {Pick(s)}] = g[s \ {Pick(s)}]
      <4> DEFINE t == s \ {Pick(s)}
      <4>1. t \in D(n - 1) /\ t \in D(n)
        <5>1. Pick(s) \in s /\ s \in SUBSET S
          BY <3>3, PickIn
        <5>2. Cardinality(s) = Cardinality(t) + 1 /\ Cardinality(t) \in Nat
          BY <1>1, <5>1, OneLess
        <5> QED
          BY <5>1, <5>2
      <4> HIDE DEF D
      <4> QED
        BY <3>2, <4>1 DEF Adds
    <3>4. Adds(h, f, D(n))
      <4> HIDE DEF D
      <4>1. h = [s \in D(n) |->
                   IF s = {} THEN 0 ELSE f[Pick(s)] + h[s \ {Pick(s)}]]
        BY <3>3
      <4> HIDE DEF h
      <4> QED
        BY <4>1 DEF Adds
    <3> QED
      BY <3>4
  <2> QED
    BY <2>3, <2>4
<1>3. Cardinality(S) \in Nat
  BY <1>1
<1>4. D(Cardinality(S)) = SUBSET S
  BY <1>1, FS_Subset
<1> HIDE DEF D
<1> QED
  BY <1>2, <1>3, <1>4

\* Two folds of functions that agree agree on what both fold.
LEMMA AddsSame ==
  ASSUME NEW f, NEW h, NEW A, NEW B, NEW g, NEW k,
         Adds(g, f, SUBSET A), Adds(k, h, SUBSET B),
         NEW S, IsFiniteSet(S), S \subseteq A, S \subseteq B,
         \A x \in S : f[x] = h[x]
  PROVE  g[S] = k[S]
<1> DEFINE Bad == {s \in SUBSET S : g[s] # k[s]}
<1> SUFFICES Bad = {}
  OBVIOUS
<1> SUFFICES ASSUME Bad # {} PROVE FALSE
  OBVIOUS
<1>1. \A s \in Bad : IsFiniteSet(s)
  BY FS_Subset
<1>2. PICK s \in Bad : \A t \in Bad : Cardinality(s) <= Cardinality(t)
  BY <1>1, Smallest
<1>3. /\ g[s] = IF s = {} THEN 0 ELSE f[Pick(s)] + g[s \ {Pick(s)}]
      /\ k[s] = IF s = {} THEN 0 ELSE h[Pick(s)] + k[s \ {Pick(s)}]
  <2>1. s \in SUBSET A /\ s \in SUBSET B
    OBVIOUS
  <2> HIDE DEF Bad
  <2> QED
    BY <2>1 DEF Adds
<1>4. s # {}
  BY <1>3
<1>5. Pick(s) \in s /\ f[Pick(s)] = h[Pick(s)]
  BY <1>4, PickIn
<1>6. s \ {Pick(s)} \notin Bad
  BY <1>1, <1>2, <1>5, OneLess
<1>7. g[s \ {Pick(s)}] = k[s \ {Pick(s)}]
  BY <1>6
<1> QED
  BY <1>3, <1>4, <1>5, <1>7

LEMMA SumStep ==
  ASSUME NEW f, NEW S, IsFiniteSet(S)
  PROVE  SumFunctionOnSet(f, S) =
           IF S = {} THEN 0
           ELSE f[Pick(S)] + SumFunctionOnSet(f, S \ {Pick(S)})
<1> DEFINE T == S \ {Pick(S)}
           g == CHOOSE g : Adds(g, f, SUBSET S)
           k == CHOOSE k : Adds(k, f, SUBSET T)
<1>1. T \subseteq S /\ IsFiniteSet(T)
  BY FS_Subset
<1>2. Adds(g, f, SUBSET S) /\ Adds(k, f, SUBSET T)
  BY <1>1, AddsExists
<1>3. SumFunctionOnSet(f, S) = g[S] /\ SumFunctionOnSet(f, T) = k[T]
  BY SumIsFold
<1> HIDE DEF g, k
<1> HIDE DEF T
<1>4. g[T] = k[T]
  <2>1. \A x \in T : f[x] = f[x]
    OBVIOUS
  <2>2. T \subseteq T
    OBVIOUS
  <2> QED
    BY <1>1, <1>2, <2>1, <2>2, AddsSame
<1>5. g[S] = IF S = {} THEN 0 ELSE f[Pick(S)] + g[T]
  BY <1>2 DEF Adds, T
<1> QED
  BY <1>3, <1>4, <1>5 DEF T

LEMMA SumSame ==
  ASSUME NEW f, NEW h, NEW S, IsFiniteSet(S), \A x \in S : f[x] = h[x]
  PROVE  SumFunctionOnSet(f, S) = SumFunctionOnSet(h, S)
<1> DEFINE g == CHOOSE g : Adds(g, f, SUBSET S)
           k == CHOOSE k : Adds(k, h, SUBSET S)
<1>1. Adds(g, f, SUBSET S) /\ Adds(k, h, SUBSET S)
  BY AddsExists
<1>2. SumFunctionOnSet(f, S) = g[S] /\ SumFunctionOnSet(h, S) = k[S]
  BY SumIsFold
<1> HIDE DEF g, k
<1> QED
  BY <1>1, <1>2, AddsSame

LEMMA SumInt ==
  ASSUME NEW f, NEW S, IsFiniteSet(S), \A x \in S : f[x] \in Int
  PROVE  SumFunctionOnSet(f, S) \in Int
<1> DEFINE Bad == {s \in SUBSET S : SumFunctionOnSet(f, s) \notin Int}
<1> SUFFICES ASSUME Bad # {} PROVE FALSE
  OBVIOUS
<1>1. \A s \in Bad : IsFiniteSet(s)
  BY FS_Subset
<1>2. PICK s \in Bad : \A t \in Bad : Cardinality(s) <= Cardinality(t)
  BY <1>1, Smallest
<1>3. SumFunctionOnSet(f, s) =
        IF s = {} THEN 0 ELSE f[Pick(s)] + SumFunctionOnSet(f, s \ {Pick(s)})
  BY <1>1, SumStep
<1>4. s # {} /\ Pick(s) \in s /\ f[Pick(s)] \in Int
  BY <1>3, PickIn
<1>5. s \ {Pick(s)} \notin Bad
  BY <1>1, <1>2, <1>4, OneLess
<1> QED
  BY <1>3, <1>4, <1>5

\* Any element can be taken out, not only the one the fold takes first.
LEMMA SumRemove ==
  ASSUME NEW f, NEW S, IsFiniteSet(S), \A x \in S : f[x] \in Int, NEW a \in S
  PROVE  SumFunctionOnSet(f, S) = f[a] + SumFunctionOnSet(f, S \ {a})
<1> DEFINE Total(s) == SumFunctionOnSet(f, s)
           Bad == {s \in SUBSET S :
                     \E x \in s : Total(s) # f[x] + Total(s \ {x})}
<1> SUFFICES ASSUME Bad # {} PROVE FALSE
  OBVIOUS
<1>1. \A s \in SUBSET S : IsFiniteSet(s)
  BY FS_Subset
<1>2. PICK s \in Bad : \A t \in Bad : Cardinality(s) <= Cardinality(t)
  BY <1>1, Smallest
<1>3. PICK x \in s : Total(s) # f[x] + Total(s \ {x})
  OBVIOUS
<1> DEFINE c == Pick(s)
<1>4. c \in s /\ Total(s) = f[c] + Total(s \ {c})
  BY <1>1, <1>3, SumStep, PickIn
<1>5. x # c
  BY <1>3, <1>4
<1>6. s \ {c} \notin Bad /\ s \ {x} \notin Bad
  <2>1. IsFiniteSet(s)
    BY <1>1
  <2>2. ASSUME NEW y \in s
        PROVE  s \ {y} \notin Bad
    <3>1. /\ Cardinality(s \ {y}) \in Nat
          /\ Cardinality(s) = Cardinality(s \ {y}) + 1
      BY <2>1, OneLess
    <3>2. ~ (Cardinality(s) <= Cardinality(s \ {y}))
      BY <3>1
    <3> HIDE DEF Bad
    <3> QED
      BY <1>2, <3>2
  <2> HIDE DEF Bad, c
  <2> QED
    BY <1>3, <1>4, <2>2
<1>7. /\ Total(s \ {c}) = f[x] + Total((s \ {c}) \ {x})
      /\ Total(s \ {x}) = f[c] + Total((s \ {x}) \ {c})
  BY <1>3, <1>4, <1>5, <1>6
<1>8. (s \ {c}) \ {x} = (s \ {x}) \ {c}
  OBVIOUS
<1>9. f[x] \in Int /\ f[c] \in Int /\ Total((s \ {c}) \ {x}) \in Int
  <2>1. (s \ {c}) \ {x} \in SUBSET S
    OBVIOUS
  <2> QED
    BY <1>1, <1>3, <1>4, <2>1, SumInt
<1> HIDE DEF Total, c, Bad
<1>10. Total(s) = f[c] + (f[x] + Total((s \ {c}) \ {x}))
  BY <1>4, <1>7
<1>11. f[x] + Total(s \ {x}) = f[x] + (f[c] + Total((s \ {c}) \ {x}))
  BY <1>7, <1>8
<1> QED
  BY <1>3, <1>9, <1>10, <1>11

\* One more element.
LEMMA SumAdd ==
  ASSUME NEW f, NEW h, NEW S, IsFiniteSet(S), NEW a, a \notin S,
         DOMAIN f = S \union {a}, DOMAIN h = S,
         \A x \in S : f[x] = h[x] /\ f[x] \in Int, f[a] \in Int
  PROVE  SumFunction(f) = f[a] + SumFunction(h)
<1>1. IsFiniteSet(S \union {a}) /\ (S \union {a}) \ {a} = S
  BY FS_AddElement
<1>2. SumFunctionOnSet(f, S \union {a}) = f[a] + SumFunctionOnSet(f, S)
  BY <1>1, SumRemove
<1>3. SumFunctionOnSet(f, S) = SumFunctionOnSet(h, S)
  BY SumSame
<1> QED
  BY <1>2, <1>3 DEF SumFunction

LEMMA SumOfNone ==
  ASSUME NEW f, DOMAIN f = {}
  PROVE  SumFunction(f) = 0
BY SumStep, FS_EmptySet DEF SumFunction

-----------------------------------------------------------------------------
(* Money and holdings are those of the start plus what was executed. *)

Books == IsFiniteSet(executions) /\ LedgerBalances

LEMMA InitBooks == Init => Books
<1> SUFFICES ASSUME Init PROVE Books
  OBVIOUS
<1>1. executions = {} /\ cash = Cash0 /\ held = Held0
  BY DEF Init
<1>2. \A a \in Accounts : CashFlow(a) = 0 /\ \A s \in Symbols : Flow(a, s) = 0
  BY <1>1, SumOfNone DEF CashFlow, Flow
<1>3. /\ \A a \in Accounts : Cash0[a] \in Nat
      /\ \A a \in Accounts, s \in Symbols : Held0[a][s] \in Nat
  BY BalancesAssumption
<1> QED
  BY <1>1, <1>2, <1>3, FS_EmptySet DEF Books, LedgerBalances

\* What a row of executions paid and moved follows from its order, which stays
\* as it was placed.
LEMMA RowsStay ==
  ASSUME Books, UNCHANGED <<cash, held, executions>>,
         \A e \in executions : form'[e.order] = form[e.order]
  PROVE  Books'
<1>1. ASSUME NEW a \in Accounts
      PROVE  CashFlow(a)' = CashFlow(a) /\ \A s \in Symbols : Flow(a, s)' = Flow(a, s)
  <2>1. \A e \in executions : Paid(a, e)' = Paid(a, e)
    BY DEF Paid
  <2>2. \A s \in Symbols : \A e \in executions : Moved(a, s, e)' = Moved(a, s, e)
    BY DEF Moved
  <2> QED
    BY <2>1, <2>2 DEF CashFlow, Flow
<1> QED
  BY <1>1 DEF Books, LedgerBalances

LEMMA RowType ==
  ASSUME Base, NEW e \in Fills, form[e.order] # NoForm, NEW a \in Accounts
  PROVE  /\ form[e.order] \in Forms
         /\ Paid(a, e) \in Int
         /\ \A s \in Symbols : Moved(a, s, e) \in Int
<1>1. e.order \in OrderIds /\ e.price \in Prices
  BY DEF Fills
<1>2. form[e.order] \in Forms
  BY <1>1 DEF Base, TypeOK
<1>3. Cost(form[e.order], e.price) \in Nat /\ Proceeds(form[e.order], e.price) \in Nat
  BY <1>1, <1>2, MoneyType
<1>4. form[e.order].qty \in Nat
  BY <1>2, FormsAssumption DEF OrderForm
<1> QED
  BY <1>2, <1>3, <1>4 DEF Paid, Moved

LEMMA FillBooks ==
  ASSUME Base, Settlement, Books, NEW o \in OrderIds, NEW p \in Prices,
         Ledger!Fill(o, p)
  PROVE  Books'
<1> DEFINE e == [order |-> o, price |-> p]
           f == form[o]
<1>1. /\ form' = form /\ executions' = executions \union {e}
      /\ status[o] \in {"PENDING", "REJECTED"}
  BY DEF Ledger!Fill
<1>2. e \in Fills /\ e.order = o /\ e.price = p
  BY DEF Fills
<1>3. f # NoForm /\ f \in Forms
  BY <1>1 DEF Base, TypeOK, Routing, RowsPlaced
<1>4. /\ f.account \in Accounts /\ f.symbol \in Symbols
      /\ f.side \in {"BUY", "SELL"} /\ f.qty \in Nat
  BY <1>3, FormsAssumption DEF OrderForm
<1>5. Cost(f, p) \in Nat /\ Proceeds(f, p) \in Nat
  BY <1>3, MoneyType
<1>6. /\ cash' = [cash EXCEPT ![f.account] =
                    IF f.side = "BUY" THEN @ - Cost(f, p) ELSE @ + Proceeds(f, p)]
      /\ held' = [held EXCEPT ![f.account][f.symbol] =
                    IF f.side = "BUY" THEN @ + f.qty ELSE @ - f.qty]
  BY DEF Ledger!Fill, Ledger!CashAfter, Ledger!HeldAfter, Ledger!Cost, Ledger!Proceeds,
         Ledger!Fee, Ledger!RoundHalfEven, Cost, Proceeds, Fee, RoundHalfEven
<1>7. e \notin executions
  BY <1>1, <1>2 DEF Settlement, SettledOnce, Executed
<1>8. ASSUME NEW d \in executions
      PROVE  d \in Fills /\ form[d.order] # NoForm
  BY <1>8, FormsAssumption, NoFormAssumption
     DEF Base, TypeOK, Fills, Settlement, SettledOnce, Executed, Routing, RowsPlaced
<1>9. IsFiniteSet(executions) /\ IsFiniteSet(executions')
  BY <1>1, FS_AddElement DEF Books
<1>10. /\ cash \in [Accounts -> Nat] /\ held \in [Accounts -> [Symbols -> Nat]]
       /\ Cash0 \in [Accounts -> Nat] /\ Held0 \in [Accounts -> [Symbols -> Nat]]
  BY BalancesAssumption DEF Base, TypeOK
<1> HIDE DEF e, f
<1>11. ASSUME NEW a \in Accounts
       PROVE  cash'[a] = Cash0[a] + CashFlow(a)'
  <2> DEFINE h == [d \in executions |-> Paid(a, d)]
             g == [d \in executions \union {e} |-> Paid(a, d)]
  <2>1. \A d \in executions \union {e} : Paid(a, d) \in Int
    BY <1>2, <1>3, <1>8, RowType DEF f
  <2>2. SumFunction(g) = Paid(a, e) + SumFunction(h)
    <3>1. /\ DOMAIN g = executions \union {e} /\ DOMAIN h = executions
          /\ \A d \in executions : g[d] = h[d] /\ g[d] \in Int
          /\ g[e] = Paid(a, e) /\ g[e] \in Int
      BY <2>1
    <3> HIDE DEF g, h
    <3> QED
      BY <1>7, <1>9, <3>1, SumAdd
  <2>3. CashFlow(a) = SumFunction(h)
    BY DEF CashFlow
  <2>4. CashFlow(a)' = SumFunction(g)
    <3>1. \A d \in executions \union {e} : Paid(a, d)' = Paid(a, d)
      BY <1>1 DEF Paid
    <3> QED
      BY <1>1, <3>1 DEF CashFlow
  <2>5. cash[a] = Cash0[a] + CashFlow(a)
    BY DEF Books, LedgerBalances
  <2>6. CashFlow(a) \in Int
    <3>1. \A d \in executions : h[d] \in Int
      BY <2>1
    <3>2. DOMAIN h = executions
      OBVIOUS
    <3> HIDE DEF h
    <3> QED
      BY <1>9, <2>3, <3>1, <3>2, SumInt DEF SumFunction
  <2> HIDE DEF g, h
  <2>7. cash'[a] = cash[a] + Paid(a, e)
    <3>1. CASE f.account = a
      BY <1>2, <1>4, <1>5, <1>6, <1>10, <3>1 DEF Paid, f
    <3>2. CASE f.account # a
      BY <1>2, <1>4, <1>6, <1>10, <3>2 DEF Paid, f
    <3> QED
      BY <3>1, <3>2
  <2>8. Cash0[a] \in Int /\ Paid(a, e) \in Int
    BY <1>10, <2>1
  <2> QED
    BY <2>2, <2>3, <2>4, <2>5, <2>6, <2>7, <2>8
<1>12. ASSUME NEW a \in Accounts, NEW s \in Symbols
       PROVE  held'[a][s] = Held0[a][s] + Flow(a, s)'
  <2> DEFINE h == [d \in executions |-> Moved(a, s, d)]
             g == [d \in executions \union {e} |-> Moved(a, s, d)]
  <2>1. \A d \in executions \union {e} : Moved(a, s, d) \in Int
    BY <1>2, <1>3, <1>8, RowType DEF f
  <2>2. SumFunction(g) = Moved(a, s, e) + SumFunction(h)
    <3>1. /\ DOMAIN g = executions \union {e} /\ DOMAIN h = executions
          /\ \A d \in executions : g[d] = h[d] /\ g[d] \in Int
          /\ g[e] = Moved(a, s, e) /\ g[e] \in Int
      BY <2>1
    <3> HIDE DEF g, h
    <3> QED
      BY <1>7, <1>9, <3>1, SumAdd
  <2>3. Flow(a, s) = SumFunction(h)
    BY DEF Flow
  <2>4. Flow(a, s)' = SumFunction(g)
    <3>1. \A d \in executions \union {e} : Moved(a, s, d)' = Moved(a, s, d)
      BY <1>1 DEF Moved
    <3> QED
      BY <1>1, <3>1 DEF Flow
  <2>5. held[a][s] = Held0[a][s] + Flow(a, s)
    BY DEF Books, LedgerBalances
  <2>6. Flow(a, s) \in Int
    <3>1. \A d \in executions : h[d] \in Int
      BY <2>1
    <3>2. DOMAIN h = executions
      OBVIOUS
    <3> HIDE DEF h
    <3> QED
      BY <1>9, <2>3, <3>1, <3>2, SumInt DEF SumFunction
  <2> HIDE DEF g, h
  <2>7. held'[a][s] = held[a][s] + Moved(a, s, e)
    <3>1. CASE f.account = a /\ f.symbol = s
      BY <1>2, <1>4, <1>6, <1>10, <3>1 DEF Moved, f
    <3>2. CASE f.account # a \/ f.symbol # s
      BY <1>2, <1>4, <1>6, <1>10, <3>2 DEF Moved, f
    <3> QED
      BY <3>1, <3>2
  <2>8. Held0[a][s] \in Int /\ Moved(a, s, e) \in Int
    BY <1>10, <2>1
  <2> QED
    BY <2>2, <2>3, <2>4, <2>5, <2>6, <2>7, <2>8
<1> QED
  BY <1>9, <1>11, <1>12 DEF Books, LedgerBalances

LEMMA StepBooks == Base /\ Settlement /\ Books /\ [Next]_vars => Books'
<1> SUFFICES ASSUME Base, Settlement, Books, [Next]_vars
             PROVE  Books'
  OBVIOUS
<1>1. Ledger!Next \/ UNCHANGED Ledger!vars
  BY StepImplements
<1>2. ASSUME NEW o \in OrderIds, NEW f \in Forms, Ledger!Place(o, f)
      PROVE  Books'
  <2>1. \A e \in executions : e.order \in OrderIds /\ status[e.order] = "FILLED"
    BY DEF Base, TypeOK, Fills, Settlement, SettledOnce, Executed
  <2>2. \A e \in executions : form'[e.order] = form[e.order]
    BY <1>2, <2>1 DEF Ledger!Place, Base, TypeOK
  <2> QED
    BY <1>2, <2>2, RowsStay DEF Ledger!Place
<1>3. ASSUME UNCHANGED <<form, cash, held, executions>>
      PROVE  Books'
  BY <1>3, RowsStay
<1> QED
  BY <1>1, <1>2, <1>3, FillBooks DEF Ledger!Next, Ledger!Reject, Ledger!vars

\* Whatever is published twice, replayed, read again or given up on, every
\* balance and every holding is the seeded one plus the rows of executions, each
\* counted once, its fee included (updater.apply_execution).
THEOREM LedgerAlwaysBalances == Spec => []LedgerBalances
<1>1. Books => LedgerBalances
  BY DEF Books
<1> QED
  BY <1>1, InitBooks, StepBooks, BaseInvariant, SettlementInvariant, PTL DEF Spec

-----------------------------------------------------------------------------
(* No order is lost, as long as the producers give up on no message.       *)
(*                                                                         *)
(* NoOrderLost is not inductive: an order that left the outbox has to be   *)
(* somewhere already before the relay's transaction says that it was sent. *)

Sent(o) == o \in published \/ \E r \in Relays : o \in sent[r]

Tracked(o, s) ==
  \/ ~ engineUp
  \/ \E i \in Nat : orderPos[s] < i /\ i <= Len(orderLog[s]) /\ orderLog[s][i] = o
  \/ \E e \in pending[s] \union limitOrders[s] : e.order = o
  \/ \E i \in 1 .. Len(buffer[s]) : buffer[s][i].order = o
  \/ \E i \in Nat : /\ execPos[s] < i /\ i <= Len(execLog[s])
                    /\ execLog[s][i].order = o

Delivery ==
  \A o \in OrderIds :
    status[o] = "PENDING" /\ Sent(o) => Tracked(o, form[o].symbol)

LEMMA TrackedInFlight ==
  ASSUME Base, Delivery, NEW o \in OrderIds, status[o] = "PENDING"
  PROVE  InFlight(o, form[o].symbol)
<1> DEFINE s == form[o].symbol
<1>1. s \in Symbols
  BY FormsAssumption DEF Base, TypeOK, Routing, RowsPlaced, OrderForm
<1>2. CASE o \notin published
  BY <1>2 DEF InFlight
<1>3. CASE o \in published
  <2>1. Tracked(o, s)
    BY <1>3 DEF Delivery, Sent
  <2>2. /\ orderPos[s] \in Nat /\ execPos[s] \in Nat
        /\ Len(orderLog[s]) \in Nat /\ Len(execLog[s]) \in Nat
    BY <1>1 DEF Base, TypeOK
  <2> HIDE DEF s
  <2>3. ASSUME NEW i \in Nat, orderPos[s] < i, i <= Len(orderLog[s]),
               orderLog[s][i] = o
        PROVE  o \in Remaining(orderLog[s], orderPos[s])
    BY <2>2, <2>3 DEF Remaining
  <2>4. ASSUME NEW i \in 1 .. Len(buffer[s]), buffer[s][i].order = o
        PROVE  \E e \in Remaining(buffer[s], 0) : e.order = o
    BY <2>4 DEF Remaining
  <2>5. ASSUME NEW i \in Nat, execPos[s] < i, i <= Len(execLog[s]),
               execLog[s][i].order = o
        PROVE  \E e \in Remaining(execLog[s], execPos[s]) : e.order = o
    BY <2>2, <2>5 DEF Remaining
  <2>6. InFlight(o, s)
    BY <2>1, <2>3, <2>4, <2>5 DEF Tracked, InFlight
  <2> QED
    BY <2>6 DEF s
<1> QED
  BY <1>2, <1>3

LEMMA StaysTracked ==
  ASSUME NEW o, NEW s,
         UNCHANGED <<engineUp, orderLog, execLog, pending, limitOrders, buffer,
                     orderPos, execPos>>
  PROVE  Tracked(o, s) => Tracked(o, s)'
BY DEF Tracked

LEMMA PlaceOrderDelivery ==
  ASSUME Base, Delivery, NEW o \in OrderIds, NEW f \in Forms, PlaceOrder(o, f)
  PROVE  Delivery'
<1> USE DEF PlaceOrder, relayVars, engineVars, updaterVars
<1>1. ~ Sent(o)
  BY DEF Base, TypeOK, Routing, RowsPlaced, Placed, Sent
<1> SUFFICES ASSUME NEW x \in OrderIds, status'[x] = "PENDING", Sent(x)'
             PROVE  Tracked(x, form[x].symbol)'
  BY DEF Delivery
<1>2. Sent(x) /\ x # o
  BY <1>1 DEF Sent
<1>3. form'[x] = form[x] /\ status[x] = "PENDING"
  BY <1>2 DEF Base, TypeOK
<1>4. Tracked(x, form[x].symbol)
  BY <1>2, <1>3 DEF Delivery
<1> QED
  BY <1>3, <1>4 DEF Tracked

LEMMA RelayDelivery ==
  ASSUME Base, Delivery, expiries' = 0, RelayNext
  PROVE  Delivery'
<1> USE DEF orderVars, engineVars, updaterVars
<1>1. ASSUME NEW r \in Relays, NEW o \in OrderIds, RelayDeliver(r, o)
      PROVE  Delivery'
  <2>1. /\ UNCHANGED <<form, status, published, execLog, engineUp, pending,
                       limitOrders, buffer, orderPos, execPos>>
        /\ sent' = [sent EXCEPT ![r] = @ \union {o}]
        /\ orderLog' = [orderLog EXCEPT ![form[o].symbol] = Append(@, o)]
    BY <1>1 DEF RelayDeliver
  <2> SUFFICES ASSUME NEW x \in OrderIds, status[x] = "PENDING", Sent(x)'
               PROVE  Tracked(x, form[x].symbol)'
    BY <2>1 DEF Delivery
  <2> DEFINE s == form[x].symbol
  <2>2. s \in Symbols /\ orderLog \in [Symbols -> Seq(OrderIds)]
        /\ orderPos[s] \in Nat /\ orderPos[s] <= Len(orderLog[s])
        /\ Len(orderLog[s]) \in Nat
    BY FormsAssumption
       DEF Base, TypeOK, Routing, RowsPlaced, OffsetsInTopics, OrderForm
  <2> HIDE DEF s
  <2>3. CASE x = o
    <3>1. orderLog'[s] = Append(orderLog[s], o)
      BY <2>1, <2>2, <2>3 DEF s
    <3>2. /\ Len(orderLog'[s]) = Len(orderLog[s]) + 1
          /\ orderLog'[s][Len(orderLog[s]) + 1] = o
      BY <2>2, <3>1
    <3>3. Len(orderLog[s]) + 1 \in Nat /\ orderPos[s] < Len(orderLog[s]) + 1
      BY <2>2
    <3> QED
      BY <2>1, <2>3, <3>2, <3>3 DEF Tracked, s
  <2>4. CASE x # o
    <3>1. Sent(x)
      BY <2>1, <2>4 DEF Sent, Base, TypeOK
    <3>2. Tracked(x, s)
      BY <3>1 DEF Delivery, s
    <3>3. ASSUME NEW i \in Nat, orderPos[s] < i, i <= Len(orderLog[s]),
                 orderLog[s][i] = x
          PROVE  i <= Len(orderLog'[s]) /\ orderLog'[s][i] = x
      <4>1. orderLog'[s] = orderLog[s] \/ orderLog'[s] = Append(orderLog[s], o)
        BY <2>1, <2>2
      <4>2. orderLog[s] \in Seq(OrderIds) /\ i \in 1 .. Len(orderLog[s])
        BY <2>2, <3>3
      <4> QED
        BY <3>3, <4>1, <4>2
    <3>4. s' = s
      BY <2>1 DEF s
    <3>5. Tracked(x, s)'
      BY <2>1, <3>2, <3>3, <3>4 DEF Tracked
    <3> QED
      BY <2>1, <3>5 DEF s
  <2> QED
    BY <2>3, <2>4
<1>2. ASSUME NEW r \in Relays, NEW o \in OrderIds, RelayExpire(r, o)
      PROVE  FALSE
  BY <1>2 DEF RelayExpire, Base, TypeOK
<1>3. ASSUME NEW r \in Relays, RelaySelect(r) \/ RelayCommit(r) \/ RelayCrash(r)
      PROVE  Delivery'
  <2>1. UNCHANGED <<form, status, orderLog, execLog, engineUp, pending,
                    limitOrders, buffer, orderPos, execPos>>
    BY <1>3 DEF RelaySelect, RelayCommit, RelayCrash
  <2>2. ASSUME NEW x \in OrderIds, Sent(x)'
        PROVE  Sent(x)
    BY <1>3, <2>2
       DEF RelaySelect, RelayCommit, RelayCrash, Sent, Base, TypeOK
  <2> QED
    BY <2>1, <2>2, StaysTracked DEF Delivery
<1> QED
  BY <1>1, <1>2, <1>3 DEF RelayNext

\* Steps of the engine and of the updater leave the outbox alone: what they may
\* not do is drop a PENDING order they are responsible for.
LEMMA KeepsDelivery ==
  ASSUME Base, Delivery,
         UNCHANGED <<form, published, sent>>,
         \A x \in OrderIds : status'[x] = "PENDING" => status[x] = "PENDING",
         \A x \in OrderIds, s \in Symbols :
           /\ form[x].symbol = s
           /\ status'[x] = "PENDING"
           /\ Tracked(x, s)
           => Tracked(x, s)'
  PROVE  Delivery'
<1> SUFFICES ASSUME NEW x \in OrderIds, status'[x] = "PENDING", Sent(x)'
             PROVE  Tracked(x, form[x].symbol)'
  BY DEF Delivery
<1>1. Sent(x) /\ status[x] = "PENDING"
  BY DEF Sent
<1>2. form[x].symbol \in Symbols
  BY <1>1, FormsAssumption DEF Base, TypeOK, Routing, RowsPlaced, OrderForm
<1>3. Tracked(x, form[x].symbol)
  BY <1>1 DEF Delivery
<1> DEFINE s == form[x].symbol
<1>4. Tracked(x, s)'
  <2> HIDE DEF s
  <2> QED
    BY <1>2, <1>3 DEF s
<1> QED
  BY <1>4

LEMMA TickDelivery ==
  ASSUME Base, Delivery, NEW t \in Symbols, NEW p \in Prices, Tick(t, p)
  PROVE  Delivery'
<1> DEFINE crossed == {e \in limitOrders[t] : Crosses(form[e.order], p)}
<1>1. /\ UNCHANGED <<form, status, published, sent, orderLog, execLog, engineUp,
                     orderPos, execPos>>
      /\ pending' = [pending EXCEPT ![t] = {}]
      /\ limitOrders' = [limitOrders EXCEPT ![t] = @ \ crossed]
  BY DEF Tick, orderVars, relayVars, updaterVars
<1>2. PICK m \in Listings(pending[t]), l \in Listings(crossed) :
        buffer' = [buffer EXCEPT ![t] = @ \o ToExecutions(m \o l, p)]
  BY DEF Tick
<1> DEFINE q == ToExecutions(m \o l, p)
<1>3. /\ pending[t] \in SUBSET Entries /\ crossed \in SUBSET Entries
      /\ IsFiniteSet(pending[t]) /\ IsFiniteSet(crossed)
  BY FS_Subset DEF Base, TypeOK, FiniteLists
<1>4. /\ q \in Seq(Fills)
      /\ \A e \in pending[t] \union crossed :
           \E i \in 1 .. Len(q) : q[i] = [order |-> e.order, price |-> p]
  BY <1>3, EmittedType DEF Base
<1>5. buffer' = [buffer EXCEPT ![t] = @ \o q]
  BY <1>2
<1> HIDE DEF q, crossed
<1>6. ASSUME NEW x \in OrderIds, NEW s \in Symbols, Tracked(x, s)
      PROVE  Tracked(x, s)'
  <2>1. CASE s # t
    <3>1. /\ pending'[s] = pending[s] /\ limitOrders'[s] = limitOrders[s]
          /\ buffer'[s] = buffer[s]
      BY <1>1, <1>5, <2>1 DEF Base, TypeOK
    <3> QED
      BY <1>1, <1>6, <3>1 DEF Tracked
  <2>2. CASE s = t
    <3>1. /\ limitOrders'[s] = limitOrders[s] \ crossed
          /\ buffer'[s] = buffer[s] \o q
          /\ buffer[s] \in Seq(Fills)
      BY <1>1, <1>5, <2>2 DEF Base, TypeOK
    <3>2. /\ Len(buffer'[s]) = Len(buffer[s]) + Len(q)
          /\ Len(buffer[s]) \in Nat /\ Len(q) \in Nat
          /\ \A i \in 1 .. Len(buffer[s]) : buffer'[s][i] = buffer[s][i]
          /\ \A i \in 1 .. Len(q) : buffer'[s][Len(buffer[s]) + i] = q[i]
      BY <1>4, <3>1, ConcatItems
    <3>3. ASSUME NEW i \in 1 .. Len(buffer[s]), buffer[s][i].order = x
          PROVE  Tracked(x, s)'
      <4>1. i \in 1 .. Len(buffer'[s]) /\ buffer'[s][i].order = x
        BY <3>2, <3>3
      <4> QED
        BY <4>1 DEF Tracked
    <3>4. ASSUME NEW e \in pending[s] \union crossed, e.order = x
          PROVE  Tracked(x, s)'
      <4>1. PICK i \in 1 .. Len(q) : q[i] = [order |-> x, price |-> p]
        BY <1>4, <2>2, <3>4
      <4>2. /\ Len(buffer[s]) + i \in 1 .. Len(buffer'[s])
            /\ buffer'[s][Len(buffer[s]) + i].order = x
        BY <3>2, <4>1
      <4> QED
        BY <4>2 DEF Tracked
    <3>5. ASSUME NEW e \in limitOrders[s] \ crossed, e.order = x
          PROVE  Tracked(x, s)'
      BY <3>1, <3>5 DEF Tracked
    <3> QED
      BY <1>1, <1>6, <3>3, <3>4, <3>5 DEF Tracked
  <2> QED
    BY <2>1, <2>2
<1> QED
  BY <1>1, <1>6, KeepsDelivery

LEMMA ConsumeOrderDelivery ==
  ASSUME Base, Delivery, NEW t \in Symbols, ConsumeOrder(t)
  PROVE  Delivery'
<1> DEFINE at == orderPos[t] + 1
           o  == orderLog[t][at]
           e  == [order |-> o, at |-> at]
           q  == [order |-> o, price |-> latestPrice[t]]
<1>1. /\ UNCHANGED <<form, status, published, sent, orderLog, execLog, engineUp,
                     execPos>>
      /\ orderPos' = [orderPos EXCEPT ![t] = at]
      /\ \/ /\ buffer' = [buffer EXCEPT ![t] = Append(@, q)]
            /\ UNCHANGED <<pending, limitOrders>>
         \/ /\ pending' = [pending EXCEPT ![t] = @ \union {e}]
            /\ UNCHANGED <<buffer, limitOrders>>
         \/ /\ limitOrders' = [limitOrders EXCEPT ![t] = @ \union {e}]
            /\ UNCHANGED <<buffer, pending>>
  BY DEF ConsumeOrder, orderVars, relayVars, updaterVars
<1>2. /\ buffer \in [Symbols -> Seq(Fills)]
      /\ pending \in [Symbols -> SUBSET Entries]
      /\ limitOrders \in [Symbols -> SUBSET Entries]
      /\ orderPos \in [Symbols -> Nat]
  BY DEF Base, TypeOK
<1>3. e.order = o /\ q.order = o
  OBVIOUS
<1> HIDE DEF e, q, o
<1>4. \A s \in Symbols : /\ pending[s] \subseteq pending'[s]
                         /\ limitOrders[s] \subseteq limitOrders'[s]
  BY <1>1, <1>2
<1>5. ASSUME NEW s \in Symbols, NEW i \in 1 .. Len(buffer[s])
      PROVE  i \in 1 .. Len(buffer'[s]) /\ buffer'[s][i] = buffer[s][i]
  <2>1. buffer'[s] = buffer[s] \/ buffer'[s] = Append(buffer[s], q)
    BY <1>1, <1>2
  <2>2. buffer[s] \in Seq(Fills)
    BY <1>2
  <2> QED
    BY <2>1, <2>2, AppendItems
<1>6. ASSUME NEW x \in OrderIds, x = o
      PROVE  Tracked(x, t)'
  <2>1. CASE buffer' = [buffer EXCEPT ![t] = Append(@, q)]
    <3>1. buffer'[t] = Append(buffer[t], q) /\ buffer[t] \in Seq(Fills)
      BY <1>2, <2>1
    <3>2. /\ Len(buffer[t]) + 1 \in 1 .. Len(buffer'[t])
          /\ buffer'[t][Len(buffer[t]) + 1] = q
      BY <3>1, AppendItems
    <3> QED
      BY <1>3, <1>6, <3>2 DEF Tracked
  <2>2. CASE e \in pending'[t] \union limitOrders'[t]
    BY <1>3, <1>6, <2>2 DEF Tracked
  <2> QED
    BY <1>1, <1>2, <2>1, <2>2
<1>7. ASSUME NEW x \in OrderIds, NEW s \in Symbols, Tracked(x, s)
      PROVE  Tracked(x, s)'
  <2>1. ASSUME NEW i \in Nat, orderPos[s] < i, i <= Len(orderLog[s]),
               orderLog[s][i] = x
        PROVE  Tracked(x, s)'
    <3>1. CASE s = t /\ i = at
      BY <1>6, <2>1, <3>1 DEF o
    <3>2. CASE s # t \/ i # at
      <4>1. orderPos'[s] < i
        BY <1>1, <1>2, <2>1, <3>2
      <4> QED
        BY <1>1, <2>1, <4>1 DEF Tracked
    <3> QED
      BY <3>1, <3>2
  <2>2. ASSUME NEW i \in 1 .. Len(buffer[s]), buffer[s][i].order = x
        PROVE  Tracked(x, s)'
    BY <1>5, <2>2 DEF Tracked
  <2>3. ASSUME NEW d \in pending[s] \union limitOrders[s], d.order = x
        PROVE  Tracked(x, s)'
    BY <1>4, <2>3 DEF Tracked
  <2> QED
    BY <1>1, <1>7, <2>1, <2>2, <2>3 DEF Tracked
<1> QED
  BY <1>1, <1>7, KeepsDelivery

LEMMA EngineDeliverDelivery ==
  ASSUME Base, Delivery, NEW t \in Symbols, EngineDeliver(t)
  PROVE  Delivery'
<1>1. /\ UNCHANGED <<form, status, published, sent, orderLog, engineUp, pending,
                     limitOrders, orderPos, execPos>>
      /\ buffer[t] # <<>>
      /\ execLog' = [execLog EXCEPT ![t] = Append(@, Head(buffer[t]))]
      /\ buffer' = [buffer EXCEPT ![t] = Tail(@)]
  BY DEF EngineDeliver, orderVars, relayVars, updaterVars
<1>2. ASSUME NEW x \in OrderIds, NEW s \in Symbols, Tracked(x, s)
      PROVE  Tracked(x, s)'
  <2>1. CASE s # t
    <3>1. buffer'[s] = buffer[s] /\ execLog'[s] = execLog[s]
      BY <1>1, <2>1 DEF Base, TypeOK
    <3> QED
      BY <1>1, <1>2, <3>1 DEF Tracked
  <2>2. CASE s = t
    <3>1. /\ buffer[s] \in Seq(Fills) /\ buffer[s] # <<>>
          /\ execLog[s] \in Seq(Fills) /\ Head(buffer[s]) \in Fills
          /\ execLog'[s] = Append(execLog[s], Head(buffer[s]))
          /\ buffer'[s] = Tail(buffer[s])
      BY <1>1, <2>2 DEF Base, TypeOK
    <3>2. execPos[s] \in Nat /\ execPos[s] <= Len(execLog[s])
      BY DEF Base, TypeOK, Routing, OffsetsInTopics
    <3>3. /\ Len(execLog[s]) \in Nat
          /\ Len(execLog'[s]) = Len(execLog[s]) + 1
          /\ execLog'[s][Len(execLog[s]) + 1] = buffer[s][1]
          /\ \A i \in 1 .. Len(execLog[s]) : execLog'[s][i] = execLog[s][i]
      BY <3>1
    <3>4. ASSUME NEW i \in 1 .. Len(buffer[s]), buffer[s][i].order = x
          PROVE  Tracked(x, s)'
      <4>1. CASE i = 1
        <5>1. /\ Len(execLog[s]) + 1 \in Nat
              /\ execPos[s] < Len(execLog[s]) + 1
              /\ execLog'[s][Len(execLog[s]) + 1].order = x
          BY <3>2, <3>3, <3>4, <4>1
        <5> QED
          BY <1>1, <3>3, <5>1 DEF Tracked
      <4>2. CASE i # 1
        <5>1. i - 1 \in 1 .. Len(buffer'[s]) /\ buffer'[s][i - 1] = buffer[s][i]
          BY <3>1, <4>2
        <5> QED
          BY <3>4, <5>1 DEF Tracked
      <4> QED
        BY <4>1, <4>2
    <3>5. ASSUME NEW i \in Nat, execPos[s] < i, i <= Len(execLog[s]),
                 execLog[s][i].order = x
          PROVE  Tracked(x, s)'
      <4>1. i \in 1 .. Len(execLog[s]) /\ i <= Len(execLog'[s])
        BY <3>2, <3>3, <3>5
      <4>2. execLog'[s][i].order = x
        BY <3>3, <3>5, <4>1
      <4> QED
        BY <1>1, <3>5, <4>1, <4>2 DEF Tracked
    <3> QED
      BY <1>1, <1>2, <3>4, <3>5 DEF Tracked
  <2> QED
    BY <2>1, <2>2
<1> QED
  BY <1>1, <1>2, KeepsDelivery

LEMMA EngineCommitDelivery ==
  ASSUME Base, Delivery, EngineCommit
  PROVE  Delivery'
<1>1. /\ UNCHANGED <<form, status, published, sent, orderLog, engineUp, pending,
                     limitOrders, orderPos, execPos>>
      /\ execLog' = [s \in Symbols |-> execLog[s] \o buffer[s]]
  BY DEF EngineCommit, orderVars, relayVars, updaterVars
<1>2. ASSUME NEW x \in OrderIds, NEW s \in Symbols, Tracked(x, s)
      PROVE  Tracked(x, s)'
  <2>1. /\ buffer[s] \in Seq(Fills) /\ execLog[s] \in Seq(Fills)
        /\ execPos[s] \in Nat /\ execPos[s] <= Len(execLog[s])
    BY DEF Base, TypeOK, Routing, OffsetsInTopics
  <2>2. execLog'[s] = execLog[s] \o buffer[s]
    BY <1>1
  <2>3. /\ Len(execLog[s]) \in Nat /\ Len(buffer[s]) \in Nat
        /\ Len(execLog'[s]) = Len(execLog[s]) + Len(buffer[s])
        /\ \A i \in 1 .. Len(execLog[s]) : execLog'[s][i] = execLog[s][i]
        /\ \A i \in 1 .. Len(buffer[s]) :
             execLog'[s][Len(execLog[s]) + i] = buffer[s][i]
    <3> DEFINE a == execLog[s]
               b == buffer[s]
    <3>1. a \in Seq(Fills) /\ b \in Seq(Fills)
      BY <2>1
    <3> HIDE DEF a, b
    <3>2. /\ Len(a) \in Nat /\ Len(b) \in Nat
          /\ Len(a \o b) = Len(a) + Len(b)
          /\ \A i \in 1 .. Len(a) : (a \o b)[i] = a[i]
          /\ \A i \in 1 .. Len(b) : (a \o b)[Len(a) + i] = b[i]
      BY <3>1, ConcatItems
    <3> QED
      BY <2>2, <3>2 DEF a, b
  <2>4. ASSUME NEW i \in 1 .. Len(buffer[s]), buffer[s][i].order = x
        PROVE  Tracked(x, s)'
    <3>1. /\ Len(execLog[s]) + i \in Nat
          /\ execPos[s] < Len(execLog[s]) + i
          /\ Len(execLog[s]) + i <= Len(execLog'[s])
          /\ execLog'[s][Len(execLog[s]) + i].order = x
      BY <2>1, <2>3, <2>4
    <3> QED
      BY <1>1, <3>1 DEF Tracked
  <2>5. ASSUME NEW i \in Nat, execPos[s] < i, i <= Len(execLog[s]),
               execLog[s][i].order = x
        PROVE  Tracked(x, s)'
    <3>1. i \in 1 .. Len(execLog[s])
      BY <2>1, <2>3, <2>5
    <3>2. i <= Len(execLog'[s])
      <4>1. \A k, m, n \in Nat : k <= m => k <= m + n
        OBVIOUS
      <4>2. Len(execLog[s]) \in Nat /\ Len(buffer[s]) \in Nat
        BY <2>1
      <4>3. i <= Len(execLog[s]) + Len(buffer[s])
        BY <2>5, <4>1, <4>2
      <4>4. Len(execLog'[s]) = Len(execLog[s]) + Len(buffer[s])
        BY <2>3
      <4> QED
        BY <4>3, <4>4
    <3>3. execLog'[s][i].order = x
      BY <2>3, <2>5, <3>1
    <3> QED
      BY <1>1, <2>5, <3>2, <3>3 DEF Tracked
  <2> QED
    BY <1>1, <1>2, <2>4, <2>5 DEF Tracked
<1> QED
  BY <1>1, <1>2, KeepsDelivery

\* What a start-up reads from the database covers all that the offsets, committed
\* before a stop or a crash, leave out.
LEMMA EngineRestartDelivery ==
  ASSUME Base, Delivery, EngineStart \/ EngineCrash \/ EngineStop
  PROVE  Delivery'
<1>1. UNCHANGED <<form, status, published, sent>>
  BY DEF EngineStart, EngineCrash, EngineStop, EngineForgets, orderVars, relayVars
<1>2. ASSUME NEW x \in OrderIds, NEW s \in Symbols, form[x].symbol = s,
             status'[x] = "PENDING"
      PROVE  Tracked(x, s)'
  <2>1. CASE EngineCrash \/ EngineStop
    BY <2>1 DEF EngineCrash, EngineStop, EngineForgets, Tracked
  <2>2. CASE EngineStart
    <3>1. form[x].type \in {"MARKET", "LIMIT"}
      BY <1>1, <1>2, FormsAssumption
         DEF Base, TypeOK, Routing, RowsPlaced, OrderForm
    <3>2. [order |-> x, at |-> 0] \in Reseeded(form[x].type, s)
      BY <1>1, <1>2 DEF Reseeded
    <3>3. [order |-> x, at |-> 0] \in pending'[s] \union limitOrders'[s]
      BY <2>2, <3>1, <3>2 DEF EngineStart
    <3> QED
      BY <3>3 DEF Tracked
  <2> QED
    BY <2>1, <2>2
<1> QED
  BY <1>1, <1>2, KeepsDelivery

LEMMA ApplyDelivery ==
  ASSUME Base, Settlement, Delivery, NEW t \in Symbols, UpdaterApply(t)
  PROVE  Delivery'
<1> DEFINE e == execLog[t][execPos[t] + 1]
<1>1. /\ UNCHANGED <<form, published, sent, orderLog, execLog, engineUp, pending,
                     limitOrders, buffer, orderPos>>
      /\ execPos' = [execPos EXCEPT ![t] = @ + 1]
      /\ ApplyDuplicate(e) \/ ApplyReject(e) \/ ApplyFill(e)
      /\ execPos \in [Symbols -> Nat]
  BY DEF UpdaterApply, relayVars, engineVars, Base, TypeOK
<1> HIDE DEF e
<1>2. \A x \in OrderIds : status'[x] = "PENDING" => status[x] = "PENDING"
  BY <1>1 DEF ApplyDuplicate, ApplyReject, ApplyFill, Base, TypeOK
<1>3. status'[e.order] # "PENDING"
  <2>1. Settlement'
    BY ApplySettlement
  <2>2. execPos'[t] = execPos[t] + 1 /\ execPos[t] + 1 \in 1 .. execPos'[t]
    BY <1>1
  <2>3. status'[execLog'[t][execPos[t] + 1].order] \in {"FILLED", "REJECTED"}
    BY <2>1, <2>2 DEF Settlement, ReadMeansSettled
  <2> QED
    BY <1>1, <2>3 DEF e
<1>4. ASSUME NEW x \in OrderIds, NEW s \in Symbols, Tracked(x, s),
             status'[x] = "PENDING"
      PROVE  Tracked(x, s)'
  <2>1. ASSUME NEW i \in Nat, execPos[s] < i, i <= Len(execLog[s]),
               execLog[s][i].order = x
        PROVE  execPos'[s] < i
    <3>1. ~ (s = t /\ i = execPos[t] + 1)
      BY <1>3, <1>4, <2>1 DEF e
    <3> QED
      BY <1>1, <2>1, <3>1
  <2> QED
    BY <1>1, <1>4, <2>1 DEF Tracked
<1> QED
  BY <1>1, <1>2, <1>4, KeepsDelivery

LEMMA UpdaterDelivery ==
  ASSUME Base, Settlement, Delivery, UpdaterNext
  PROVE  Delivery'
<1>1. CASE UpdaterCrash \/ \E s \in Symbols : UpdaterCommit(s)
  <2>1. /\ UNCHANGED <<form, status, published, sent, orderLog, execLog, engineUp,
                       pending, limitOrders, buffer, orderPos>>
        /\ execPos' = execPos \/ execPos' = execCommitted
    BY <1>1 DEF UpdaterCrash, UpdaterCommit, orderVars, relayVars, engineVars
  <2>2. \A s \in Symbols : /\ execPos[s] \in Nat /\ execPos'[s] \in Nat
                           /\ execPos'[s] <= execPos[s]
    BY <2>1 DEF Base, TypeOK, Routing, OffsetsInTopics
  <2>3. ASSUME NEW x \in OrderIds, NEW s \in Symbols, Tracked(x, s)
        PROVE  Tracked(x, s)'
    BY <2>1, <2>2, <2>3 DEF Tracked
  <2> QED
    BY <2>1, <2>3, KeepsDelivery
<1> QED
  BY <1>1, ApplyDelivery DEF UpdaterNext

LEMMA StepDelivery ==
  ASSUME expiries' = 0, Base, Settlement, Delivery, [Next]_vars
  PROVE  Delivery'
<1>1. CASE UNCHANGED vars
  BY <1>1, StaysTracked
     DEF Delivery, Sent, vars, orderVars, relayVars, engineVars, updaterVars
<1>2. ~ \E s \in Symbols : EngineExpire(s)
  BY DEF EngineExpire, Base, TypeOK
<1>3. CASE EngineNext
  BY <1>2, <1>3, TickDelivery, ConsumeOrderDelivery, EngineDeliverDelivery,
     EngineCommitDelivery, EngineRestartDelivery DEF EngineNext
<1> QED
  BY <1>1, <1>3, PlaceOrderDelivery, RelayDelivery, UpdaterDelivery DEF Next

LEMMA ExpiriesGrow ==
  ASSUME Base, [Next]_vars, expiries' = 0
  PROVE  expiries = 0
<1> DEFINE Grows == expiries' = expiries \/ expiries' = expiries + 1
<1>1. RelayNext => Grows
  BY DEF RelayNext, RelaySelect, RelayDeliver, RelayExpire, RelayCommit,
         RelayCrash
<1>2. EngineNext => Grows
  BY DEF EngineNext, EngineStart, Tick, ConsumeOrder, EngineDeliver,
         EngineExpire, EngineCommit, EngineForgets, EngineCrash, EngineStop
<1>3. UpdaterNext => Grows
  BY DEF UpdaterNext, UpdaterApply, UpdaterCommit, UpdaterCrash
<1>4. ASSUME NEW o \in OrderIds, NEW f \in Forms, PlaceOrder(o, f) PROVE Grows
  BY <1>4 DEF PlaceOrder
<1>5. Grows
  BY <1>1, <1>2, <1>3, <1>4 DEF Next, vars
<1> QED
  BY <1>5 DEF Base, TypeOK

\* No crash or stop of any process loses a PENDING order; only a producer that
\* gives up on a message does.
THEOREM NoOrderIsLost == Spec => []NoOrderLost
<1> DEFINE Delivered == expiries = 0 => Delivery
<1>1. Init => Delivered
  BY DEF Init, Delivery
<1>2. Base /\ Settlement /\ Delivered /\ [Next]_vars => Delivered'
  BY StepDelivery, ExpiriesGrow
<1>3. Base /\ Delivered => NoOrderLost
  BY TrackedInFlight DEF NoOrderLost
<1> QED
  BY <1>1, <1>2, <1>3, BaseInvariant, SettlementInvariant, PTL DEF Spec
=============================================================================
