--------------------------- MODULE BacktestProofs ---------------------------
(***************************************************************************)
(* Proofs about the backtest, for any symbols, prices, gaps between bars,  *)
(* combinations and lengths of windows.  A fold chooses by its past, and   *)
(* priming loses nothing of its window; the books of an account balance,   *)
(* whatever its strategy; the strategies keep the discipline they state.   *)
(***************************************************************************)
EXTENDS Backtest, WellFoundedInduction, FiniteSetTheorems, SequenceTheorems, TLAPS

(* Induction over the places of a list.                                    *)

LEMMA UpTo ==
  ASSUME NEW n \in Nat, NEW m \in Nat, NEW P, m \in P,
         \A i \in m..n : i \in P /\ i < n => i + 1 \in P
  PROVE  \A i \in m..n : i \in P
<1> DEFINE Bad == {i \in m..n : i \notin P}
<1> SUFFICES ASSUME Bad # {} PROVE FALSE
  OBVIOUS
<1>1. Bad \subseteq Nat
  OBVIOUS
<1>2. \E i \in Bad : \A j \in Bad : ~ (<<j, i>> \in OpToRel(<, Nat))
  BY <1>1, WFMin, NatLessThanWellFounded
<1>3. PICK i \in Bad : \A j \in Bad : ~ (j < i)
  <2>1. PICK i \in Bad : \A j \in Bad : ~ (<<j, i>> \in OpToRel(<, Nat))
    BY <1>2
  <2>2. \A j \in Bad : j < i => <<j, i>> \in OpToRel(<, Nat)
    BY <1>1 DEF OpToRel
  <2> QED
    BY <2>1, <2>2
<1>4. i \in m..n /\ i \notin P /\ i # m
  OBVIOUS
<1>5. i - 1 \in m..n /\ i - 1 < n /\ (i - 1) + 1 = i
  BY <1>4
<1>6. i - 1 \in P
  BY <1>3, <1>5
<1> QED
  BY <1>4, <1>5, <1>6

LEMMA Smallest ==
  ASSUME NEW F, F # {}, \A s \in F : IsFiniteSet(s)
  PROVE  \E s \in F : \A t \in F : Cardinality(s) <= Cardinality(t)
<1> DEFINE N == {Cardinality(s) : s \in F}
<1>1. N \subseteq Nat /\ N # {}
  BY FS_CardinalityType
<1>2. \E n \in N : \A m \in N : ~ (<<m, n>> \in OpToRel(<, Nat))
  BY <1>1, WFMin, NatLessThanWellFounded
<1> HIDE DEF N
<1>3. PICK n \in N : \A m \in N : n <= m
  <2>1. PICK n \in N : \A m \in N : ~ (<<m, n>> \in OpToRel(<, Nat))
    BY <1>2
  <2>2. \A m \in N : n <= m
    <3> SUFFICES ASSUME NEW m \in N, m < n PROVE FALSE
      BY <1>1
    <3>1. <<m, n>> \in OpToRel(<, Nat)
      BY <1>1 DEF OpToRel
    <3> QED
      BY <2>1, <3>1
  <2> QED
    BY <2>2
<1>4. \A s \in F : Cardinality(s) \in N
  BY DEF N
<1>5. PICK s \in F : Cardinality(s) = n
  BY DEF N
<1> QED
  BY <1>3, <1>4, <1>5

LEMMA OneLess ==
  ASSUME NEW S, IsFiniteSet(S), NEW x \in S
  PROVE  /\ IsFiniteSet(S \ {x})
         /\ Cardinality(S \ {x}) \in Nat
         /\ Cardinality(S) = Cardinality(S \ {x}) + 1
<1>1. /\ IsFiniteSet(S \ {x})
      /\ Cardinality(S \ {x}) = Cardinality(S) - 1
  BY FS_RemoveElement
<1>2. Cardinality(S) \in Nat /\ Cardinality(S \ {x}) \in Nat
  BY <1>1, FS_CardinalityType
<1> QED
  BY <1>1, <1>2

LEMMA Extremes ==
  ASSUME NEW S \in SUBSET Int, IsFiniteSet(S), S # {}
  PROVE  /\ Max(S) \in S /\ Min(S) \in S
         /\ \A y \in S : Min(S) <= y /\ y <= Max(S)
<1> DEFINE Has(t) == /\ \E x \in t : \A y \in t : x >= y
                     /\ \E x \in t : \A y \in t : x <= y
           Bad == {t \in SUBSET S : t # {} /\ ~ Has(t)}
<1>1. Bad = {}
  <2> SUFFICES ASSUME Bad # {} PROVE FALSE
    OBVIOUS
  <2>1. \A t \in Bad : IsFiniteSet(t)
    BY FS_Subset
  <2> HIDE DEF Bad
  <2>2. PICK t \in Bad : \A u \in Bad : Cardinality(t) <= Cardinality(u)
    BY <2>1, Smallest
  <2>3. t \in SUBSET S /\ t # {} /\ ~ Has(t)
    BY DEF Bad
  <2>4. PICK x \in t : x \in Int
    BY <2>3
  <2>5. t \ {x} \notin Bad
    BY <2>1, <2>2, <2>4, OneLess
  <2>6. t \ {x} = {} \/ Has(t \ {x})
    BY <2>3, <2>5 DEF Bad
  <2>7. Has(t)
    <3>1. \A y \in t : y \in Int
      BY <2>3
    <3>2. CASE t \ {x} = {}
      BY <2>4, <3>1, <3>2
    <3>3. CASE Has(t \ {x})
      <4>1. PICK a \in t \ {x} : \A y \in t \ {x} : a >= y
        BY <3>3
      <4>2. PICK b \in t \ {x} : \A y \in t \ {x} : b <= y
        BY <3>3
      <4>3. (\A y \in t : a >= y) \/ (\A y \in t : x >= y)
        BY <2>4, <3>1, <4>1
      <4>4. (\A y \in t : b <= y) \/ (\A y \in t : x <= y)
        BY <2>4, <3>1, <4>2
      <4> QED
        BY <2>4, <4>1, <4>2, <4>3, <4>4
    <3> QED
      BY <2>6, <3>2, <3>3
  <2> QED
    BY <2>3, <2>7
<1>2. Has(S)
  BY <1>1
<1>3. Max(S) \in S /\ \A y \in S : Max(S) >= y
  BY <1>2 DEF Max
<1>4. Min(S) \in S /\ \A y \in S : Min(S) <= y
  BY <1>2 DEF Min
<1>5. \A y \in S : Max(S) \in Int /\ y \in Int
  BY <1>3
<1> QED
  BY <1>3, <1>4, <1>5

LEMMA LastPlace ==
  ASSUME NEW n \in Nat, NEW s \in SUBSET (1..n), s # {}
  PROVE  Max(s) \in s /\ \A y \in s : y <= Max(s)
<1>1. s \in SUBSET Int
  OBVIOUS
<1>2. IsFiniteSet(s)
  <2>1. IsFiniteSet(1..n)
    BY FS_Interval
  <2> QED
    BY <2>1, FS_Subset
<1> QED
  BY <1>1, <1>2, Extremes

LEMMA PlaceInduction ==
  ASSUME NEW n \in Nat, NEW P, {} \in P,
         \A s \in SUBSET (1..n) : s # {} /\ s \ {Max(s)} \in P => s \in P
  PROVE  \A s \in SUBSET (1..n) : s \in P
<1> DEFINE Bad == {s \in SUBSET (1..n) : s \notin P}
<1> SUFFICES ASSUME Bad # {} PROVE FALSE
  OBVIOUS
<1>1. \A s \in Bad : IsFiniteSet(s)
  <2>1. IsFiniteSet(1..n)
    BY FS_Interval
  <2> QED
    BY <2>1, FS_Subset
<1>2. PICK s \in Bad : \A t \in Bad : Cardinality(s) <= Cardinality(t)
  <2> HIDE DEF Bad
  <2> QED
    BY <1>1, Smallest
<1>3. s # {} /\ s \in SUBSET (1..n) /\ s \notin P
  OBVIOUS
<1>4. Max(s) \in s
  BY <1>3, LastPlace
<1>5. s \ {Max(s)} \in SUBSET (1..n)
  BY <1>3
<1>6. Cardinality(s \ {Max(s)}) \in Nat /\ Cardinality(s) \in Nat
  <2>1. IsFiniteSet(s)
    BY <1>1
  <2> HIDE DEF Bad
  <2>2. Cardinality(s) \in Nat
    BY <2>1, FS_CardinalityType
  <2>3. Cardinality(s \ {Max(s)}) \in Nat
    BY <1>4, <2>1, OneLess
  <2> QED
    BY <2>2, <2>3
<1>7. Cardinality(s \ {Max(s)}) < Cardinality(s)
  <2> HIDE DEF Bad
  <2>1. IsFiniteSet(s)
    BY <1>1
  <2>2. Cardinality(s) = Cardinality(s \ {Max(s)}) + 1
    BY <1>4, <2>1, OneLess
  <2> QED
    BY <1>6, <2>2
<1>8. s \ {Max(s)} \notin Bad
  <2> HIDE DEF Bad
  <2> QED
    BY <1>2, <1>6, <1>7
<1> QED
  BY <1>3, <1>5, <1>8

LEMMA SameLast ==
  ASSUME NEW n \in Nat, NEW s \in SUBSET (1..n), NEW t \in SUBSET s, s # {}, Max(s) \in t
  PROVE  Max(t) = Max(s)
<1>1. /\ Max(s) \in s /\ \A y \in s : y <= Max(s)
      /\ Max(t) \in t /\ \A y \in t : y <= Max(t)
  BY LastPlace
<1>2. s \subseteq 1..n /\ 1..n \subseteq Nat
  OBVIOUS
<1>3. Max(s) \in Nat /\ Max(t) \in Nat
  BY <1>1, <1>2, Zenon
<1>4. Max(t) <= Max(s) /\ Max(s) <= Max(t)
  BY <1>1
<1> QED
  BY <1>3, <1>4

-----------------------------------------------------------------------------
(* A fold over a list is a CHOOSE of a function on sets of places that     *)
(* satisfies an equation; where there is one, the values on the first i    *)
(* places follow each other.                                               *)

LEMMA FirstPlaces ==
  ASSUME NEW i \in Nat \ {0}
  PROVE  Max(1..i) = i /\ (1..i) \ {i} = 1..(i - 1) /\ 1..i # {}
<1>1. i \in 1..i /\ \A y \in 1..i : i >= y
  OBVIOUS
<1>2. \A x \in 1..i : (\A y \in 1..i : x >= y) => x = i
  BY <1>1
<1>3. Max(1..i) = i
  BY <1>1, <1>2 DEF Max
<1> QED
  BY <1>1, <1>3

\* One step of the two folds of an evaluation, and their equations.
After(st, t, load) == TrendStep(st, Opened(0), t, load).st
Traded(r, t, load) == EngineStep(r, TrendStep(r.st, Priced(r.b, t), t, load), t)

Primes(g, q, load, D) ==
  g = [s \in D |-> IF s = {} THEN State0("trend")
                   ELSE After(g[s \ {Max(s)}], q[Max(s)], load)]
Accounts(g, q, load, st, D) ==
  g = [s \in D |-> IF s = {} THEN Idle(st, Initial)
                   ELSE Traded(g[s \ {Max(s)}], q[Max(s)], load)]

LEMMA PrimesExist ==
  ASSUME NEW q, NEW load, NEW n \in Nat
  PROVE  \E g : Primes(g, q, load, SUBSET (1..n))
<1> DEFINE P == {s \in SUBSET (1..n) : \E g : Primes(g, q, load, SUBSET s)}
<1>1. {} \in P
  <2>1. SUBSET {} = {{}}
    OBVIOUS
  <2>2. Primes([s \in {{}} |-> State0("trend")], q, load, {{}})
    BY DEF Primes
  <2> QED
    BY <2>1, <2>2
<1>2. ASSUME NEW s \in SUBSET (1..n), s # {}, s \ {Max(s)} \in P
      PROVE  s \in P
  <2> DEFINE m == Max(s)
  <2>1. PICK g : Primes(g, q, load, SUBSET (s \ {m}))
    BY <1>2
  <2> HIDE DEF m
  <2> DEFINE h == [t \in SUBSET s |-> IF m \in t THEN After(g[t \ {m}], q[m], load) ELSE g[t]]
  <2>2. ASSUME NEW t \in SUBSET s
        PROVE  h[t] = IF t = {} THEN State0("trend") ELSE After(h[t \ {Max(t)}], q[Max(t)], load)
    <3>1. CASE m \in t
      <4>1. Max(t) = m
        BY <1>2, <3>1, SameLast DEF m
      <4>2. h[t \ {m}] = g[t \ {m}]
        OBVIOUS
      <4> QED
        BY <3>1, <4>1, <4>2
    <3>2. CASE m \notin t
      <4>1. t \in SUBSET (s \ {m}) /\ h[t] = g[t]
        BY <3>2
      <4>2. g[t] = IF t = {} THEN State0("trend") ELSE After(g[t \ {Max(t)}], q[Max(t)], load)
        BY <2>1, <4>1 DEF Primes
      <4>3. h[t \ {Max(t)}] = g[t \ {Max(t)}]
        BY <3>2
      <4> QED
        BY <4>1, <4>2, <4>3
    <3> QED
      BY <3>1, <3>2
  <2>3. Primes(h, q, load, SUBSET s)
    <3> HIDE DEF m
    <3>1. DOMAIN h = SUBSET s /\ h = [t \in SUBSET s |-> h[t]]
      OBVIOUS
    <3> HIDE DEF h
    <3> QED
      BY <2>2, <3>1 DEF Primes
  <2> QED
    BY <2>3
<1> HIDE DEF P
<1>3. \A s \in SUBSET (1..n) : s \in P
  BY <1>1, <1>2, PlaceInduction
<1> QED
  BY <1>3 DEF P

LEMMA AccountsExist ==
  ASSUME NEW q, NEW load, NEW st, NEW n \in Nat
  PROVE  \E g : Accounts(g, q, load, st, SUBSET (1..n))
<1> DEFINE P == {s \in SUBSET (1..n) : \E g : Accounts(g, q, load, st, SUBSET s)}
<1>1. {} \in P
  <2>1. SUBSET {} = {{}}
    OBVIOUS
  <2>2. Accounts([s \in {{}} |-> Idle(st, Initial)], q, load, st, {{}})
    BY DEF Accounts
  <2> QED
    BY <2>1, <2>2
<1>2. ASSUME NEW s \in SUBSET (1..n), s # {}, s \ {Max(s)} \in P
      PROVE  s \in P
  <2> DEFINE m == Max(s)
  <2>1. PICK g : Accounts(g, q, load, st, SUBSET (s \ {m}))
    BY <1>2
  <2> HIDE DEF m
  <2> DEFINE h == [t \in SUBSET s |-> IF m \in t THEN Traded(g[t \ {m}], q[m], load) ELSE g[t]]
  <2>2. ASSUME NEW t \in SUBSET s
        PROVE  h[t] = IF t = {} THEN Idle(st, Initial) ELSE Traded(h[t \ {Max(t)}], q[Max(t)], load)
    <3>1. CASE m \in t
      <4>1. Max(t) = m
        BY <1>2, <3>1, SameLast DEF m
      <4>2. h[t \ {m}] = g[t \ {m}]
        OBVIOUS
      <4> QED
        BY <3>1, <4>1, <4>2
    <3>2. CASE m \notin t
      <4>1. t \in SUBSET (s \ {m}) /\ h[t] = g[t]
        BY <3>2
      <4>2. g[t] = IF t = {} THEN Idle(st, Initial) ELSE Traded(g[t \ {Max(t)}], q[Max(t)], load)
        BY <2>1, <4>1 DEF Accounts
      <4>3. h[t \ {Max(t)}] = g[t \ {Max(t)}]
        BY <3>2
      <4> QED
        BY <4>1, <4>2, <4>3
    <3> QED
      BY <3>1, <3>2
  <2>3. Accounts(h, q, load, st, SUBSET s)
    <3> HIDE DEF m
    <3>1. DOMAIN h = SUBSET s /\ h = [t \in SUBSET s |-> h[t]]
      OBVIOUS
    <3> HIDE DEF h
    <3> QED
      BY <2>2, <3>1 DEF Accounts
  <2> QED
    BY <2>3
<1> HIDE DEF P
<1>3. \A s \in SUBSET (1..n) : s \in P
  BY <1>1, <1>2, PlaceInduction
<1> QED
  BY <1>3 DEF P

LEMMA PrimedIsFold ==
  ASSUME NEW q, NEW load
  PROVE  Primed(q, load) = (CHOOSE g : Primes(g, q, load, SUBSET DOMAIN q))[DOMAIN q]
BY DEF Primed, FoldLeft, MapThenFoldSet, Primes, After

LEMMA PrimedChain ==
  ASSUME NEW S, NEW q \in Seq(S), NEW load
  PROVE  \E a : /\ a[0] = State0("trend")
                /\ \A i \in 1..Len(q) : a[i] = After(a[i - 1], q[i], load)
                /\ Primed(q, load) = a[Len(q)]
<1> DEFINE n == Len(q)
           g == CHOOSE g : Primes(g, q, load, SUBSET (1..n))
           a == [i \in 0..n |-> g[1..i]]
<1>1. n \in Nat /\ DOMAIN q = 1..n
  OBVIOUS
<1>2. Primed(q, load) = g[1..n]
  BY <1>1, PrimedIsFold
<1> HIDE DEF n
<1>3. Primes(g, q, load, SUBSET (1..n))
  BY <1>1, PrimesExist
<1> HIDE DEF g
<1>4. a[0] = State0("trend")
  <2>1. 1..0 = {}
    OBVIOUS
  <2> QED
    BY <1>1, <1>3, <2>1 DEF Primes
<1>5. ASSUME NEW i \in 1..n
      PROVE  a[i] = After(a[i - 1], q[i], load)
  <2>1. i \in Nat \ {0} /\ i \in 0..n /\ i - 1 \in 0..n
    BY <1>1
  <2>2. Max(1..i) = i /\ (1..i) \ {i} = 1..(i - 1) /\ 1..i # {}
    BY <2>1, FirstPlaces
  <2>3. 1..i \in SUBSET (1..n)
    BY <1>1
  <2>4. g[1..i] = After(g[(1..i) \ {Max(1..i)}], q[Max(1..i)], load)
    BY <1>3, <2>2, <2>3, Zenon DEF Primes
  <2> QED
    BY <2>1, <2>2, <2>4
<1>6. a[n] = g[1..n]
  BY <1>1
<1> QED
  BY <1>2, <1>4, <1>5, <1>6 DEF n

LEMMA AccountIsFold ==
  ASSUME NEW q, NEW load, NEW st
  PROVE  Account(q, load, st) = (CHOOSE g : Accounts(g, q, load, st, SUBSET DOMAIN q))[DOMAIN q]
BY DEF Account, FoldLeft, MapThenFoldSet, Accounts, Traded

LEMMA AccountChain ==
  ASSUME NEW S, NEW q \in Seq(S), NEW load, NEW st
  PROVE  \E a : /\ a[0] = Idle(st, Initial)
                /\ \A i \in 1..Len(q) : a[i] = Traded(a[i - 1], q[i], load)
                /\ Account(q, load, st) = a[Len(q)]
<1> DEFINE n == Len(q)
           g == CHOOSE g : Accounts(g, q, load, st, SUBSET (1..n))
           a == [i \in 0..n |-> g[1..i]]
<1>1. n \in Nat /\ DOMAIN q = 1..n
  OBVIOUS
<1>2. Account(q, load, st) = g[1..n]
  BY <1>1, AccountIsFold
<1> HIDE DEF n
<1>3. Accounts(g, q, load, st, SUBSET (1..n))
  BY <1>1, AccountsExist
<1> HIDE DEF g
<1>4. a[0] = Idle(st, Initial)
  <2>1. 1..0 = {}
    OBVIOUS
  <2> QED
    BY <1>1, <1>3, <2>1 DEF Accounts
<1>5. ASSUME NEW i \in 1..n
      PROVE  a[i] = Traded(a[i - 1], q[i], load)
  <2>1. i \in Nat \ {0} /\ i \in 0..n /\ i - 1 \in 0..n
    BY <1>1
  <2>2. Max(1..i) = i /\ (1..i) \ {i} = 1..(i - 1) /\ 1..i # {}
    BY <2>1, FirstPlaces
  <2>3. 1..i \in SUBSET (1..n)
    BY <1>1
  <2>4. g[1..i] = Traded(g[(1..i) \ {Max(1..i)}], q[Max(1..i)], load)
    BY <1>3, <2>2, <2>3, Zenon DEF Accounts
  <2> QED
    BY <2>1, <2>2, <2>4
<1>6. a[n] = g[1..n]
  BY <1>1
<1> QED
  BY <1>2, <1>4, <1>5, <1>6 DEF n

-----------------------------------------------------------------------------
(* The bars of a series: what is earlier than a time is a beginning of it. *)

InTime(q) == \A i, j \in DOMAIN q : i < j => q[i].ts < q[j].ts

Bars == [sym : {SymbolOrder[1]}, price : Prices, ts : Nat]

BarsInv ==
  /\ bars \in Seq(Bars) /\ InTime(bars)
  /\ bars # << >> => bars[1].ts = 0

LEMMA BarTimes ==
  ASSUME NEW q \in Seq(Bars)
  PROVE  Len(q) \in Nat /\ DOMAIN q = 1..Len(q) /\ \A i \in DOMAIN q : q[i].ts \in Nat
<1>1. \A i \in DOMAIN q : q[i] \in Bars
  OBVIOUS
<1>2. \A t \in Bars : t.ts \in Nat
  BY DEF Bars
<1> QED
  BY <1>1, <1>2

LEMMA EarlierIs ==
  ASSUME NEW q \in Seq(Bars), InTime(q), NEW o \in Int
  PROVE  /\ Earlier(q, o) \in 0..Len(q)
         /\ \A i \in DOMAIN q : q[i].ts < o <=> i <= Earlier(q, o)
<1> DEFINE n == Len(q)
           E == {i \in DOMAIN q : q[i].ts < o}
<1>1. n \in Nat /\ DOMAIN q = 1..n /\ \A i \in 1..n : q[i].ts \in Nat
  BY BarTimes
<1>2. E \in SUBSET (1..n)
  BY <1>1
<1>3. CASE E = {}
  <2>1. Cardinality(E) = 0
    BY <1>3, FS_EmptySet
  <2>2. Earlier(q, o) = 0
    BY <2>1 DEF Earlier
  <2>3. \A i \in DOMAIN q : ~ (q[i].ts < o)
    BY <1>3
  <2> QED
    BY <1>1, <2>2, <2>3
<1>4. CASE E # {}
  <2> DEFINE m == Max(E)
  <2>1. m \in E /\ \A y \in E : y <= m
    <3> HIDE DEF E
    <3> QED
      BY <1>1, <1>2, <1>4, LastPlace
  <2>2. m \in 1..n /\ q[m].ts < o
    BY <1>1, <2>1
  <2> HIDE DEF m
  <2>3. ASSUME NEW i \in 1..n
        PROVE  i \in E <=> i <= m
    <3>1. i \in E => i <= m
      BY <2>1
    <3>2. CASE i = m
      BY <2>1, <3>2
    <3>3. CASE i < m
      <4>1. q[i].ts < q[m].ts
        BY <1>1, <2>2, <3>3 DEF InTime
      <4>2. q[i].ts \in Int /\ q[m].ts \in Int
        BY <1>1, <2>2
      <4>3. q[i].ts < o
        BY <2>2, <4>1, <4>2
      <4>4. i \in E
        BY <1>1, <4>3
      <4>5. i \in Int /\ m \in Int
        BY <1>1, <2>2
      <4> HIDE DEF E
      <4> QED
        BY <3>3, <4>4, <4>5
    <3>4. i \in Int /\ m \in Int
      BY <1>1, <2>2
    <3> QED
      BY <3>1, <3>2, <3>3, <3>4
  <2>4. E = 1..m
    <3> HIDE DEF E
    <3>1. \A i \in 1..n : i \in 1..m <=> i <= m
      BY <1>1, <2>2
    <3>2. 1..m \subseteq 1..n
      BY <1>1, <2>2
    <3> QED
      BY <1>2, <2>3, <3>1, <3>2
  <2>5. Cardinality(1..m) = m
    BY <2>2, <1>1, FS_Interval
  <2>6. Earlier(q, o) = m
    BY <2>4, <2>5 DEF Earlier
  <2>7. \A i \in DOMAIN q : q[i].ts < o <=> i <= m
    BY <1>1, <2>3
  <2> QED
    BY <1>1, <2>2, <2>6, <2>7
<1> QED
  BY <1>3, <1>4

\* The bars before o tell how many are earlier than a time up to o.
LEMMA EarlierOfPrefix ==
  ASSUME NEW q \in Seq(Bars), InTime(q), NEW o \in Int, NEW t \in Int, t <= o
  PROVE  /\ Earlier(SubSeq(q, 1, Earlier(q, o)), t) = Earlier(q, t)
         /\ Earlier(q, t) <= Earlier(q, o)
<1> DEFINE k == Earlier(q, o)
           p == SubSeq(q, 1, k)
<1>1. /\ k \in 0..Len(q) /\ Len(q) \in Nat /\ DOMAIN q = 1..Len(q)
      /\ \A i \in DOMAIN q : q[i].ts < o <=> i <= k
  BY EarlierIs
<1>2. \A i \in DOMAIN q : q[i].ts \in Nat
  BY BarTimes
<1>3. /\ Earlier(q, t) \in 0..Len(q)
      /\ \A i \in DOMAIN q : q[i].ts < t <=> i <= Earlier(q, t)
  BY EarlierIs
<1> HIDE DEF k
<1>4. DOMAIN p = 1..k /\ \A i \in 1..k : p[i] = q[i]
  BY <1>1
<1>5. {i \in DOMAIN p : p[i].ts < t} = {i \in DOMAIN q : q[i].ts < t}
  <2> HIDE DEF p
  <2>1. \A i \in DOMAIN q : q[i].ts < t => i \in 1..k
    BY <1>1, <1>2
  <2>2. 1..k \subseteq DOMAIN q
    BY <1>1
  <2> QED
    BY <1>4, <2>1, <2>2
<1>6. Earlier(p, t) = Earlier(q, t)
  BY <1>5 DEF Earlier
<1>7. Earlier(q, t) <= k
  <2> SUFFICES ASSUME ~ (Earlier(q, t) <= k) PROVE FALSE
    OBVIOUS
  <2> DEFINE e == Earlier(q, t)
  <2>1. e \in DOMAIN q /\ q[e].ts < t
    BY <1>1, <1>3
  <2> HIDE DEF e
  <2>2. q[e].ts < o
    BY <1>2, <2>1
  <2>3. e <= k
    BY <1>1, <2>1, <2>2
  <2> QED
    BY <2>3 DEF e
<1> QED
  BY <1>6, <1>7 DEF k

LEMMA SubOfPrefix ==
  ASSUME NEW S, NEW q \in Seq(S), NEW k \in 0..Len(q), NEW a \in Nat, NEW b \in 0..k
  PROVE  SubSeq(SubSeq(q, 1, k), a + 1, b) = SubSeq(q, a + 1, b)
OBVIOUS

LEMMA WithinPrefix ==
  ASSUME NEW q \in Seq(Bars), InTime(q), NEW o \in Int, NEW t \in Int, NEW u \in Int,
         t <= u, u <= o
  PROVE  Within(SubSeq(q, 1, Earlier(q, o)), t, u) = Within(q, t, u)
<1> DEFINE k == Earlier(q, o)
           a == Earlier(q, t)
           b == Earlier(q, u)
<1>1. k \in 0..Len(q) /\ a \in 0..Len(q) /\ b \in 0..Len(q) /\ Len(q) \in Nat
  BY EarlierIs
<1>2. /\ Earlier(SubSeq(q, 1, k), t) = a
      /\ Earlier(SubSeq(q, 1, k), u) = b /\ b <= k
  <2>1. t <= o
    OBVIOUS
  <2> QED
    BY <2>1, EarlierOfPrefix
<1> HIDE DEF k, a, b
<1>3. SubSeq(SubSeq(q, 1, k), a + 1, b) = SubSeq(q, a + 1, b)
  <2>1. a \in Nat /\ b \in 0..k
    BY <1>1, <1>2
  <2> QED
    BY <1>1, <2>1, SubOfPrefix
<1>4. Within(q, t, u) = SubSeq(q, a + 1, b)
  BY DEF Within, a, b
<1>5. Within(SubSeq(q, 1, k), t, u) = SubSeq(SubSeq(q, 1, k), a + 1, b)
  BY <1>2 DEF Within
<1> QED
  BY <1>3, <1>4, <1>5 DEF k

-----------------------------------------------------------------------------
(* Priming is long enough for every combination.                           *)

LEMMA TrendBarsIs ==
  ASSUME NEW load \in [short : Nat \ {0}, long : Nat \ {0}]
  PROVE  TrendBars(load) \in Nat \ {0} /\ TrendBars(load) >= Lookback + 1
<1> DEFINE S == {load.short, load.long, Lookback + 1}
<1>1. S \in SUBSET (Nat \ {0}) /\ S # {}
  BY TrendAssumption
<1>2. IsFiniteSet(S)
  <2>1. IsFiniteSet({load.short}) /\ IsFiniteSet({load.long}) /\ IsFiniteSet({Lookback + 1})
    BY FS_Singleton
  <2>2. IsFiniteSet({load.short} \union {load.long} \union {Lookback + 1})
    BY <2>1, FS_Union
  <2>3. S = {load.short} \union {load.long} \union {Lookback + 1}
    OBVIOUS
  <2> QED
    BY <2>2, <2>3
<1> HIDE DEF S
<1>3. Max(S) \in S /\ \A y \in S : y <= Max(S)
  <2>1. S \in SUBSET Int
    BY <1>1
  <2> QED
    BY <1>1, <1>2, <2>1, Extremes
<1>4. Lookback + 1 \in S /\ TrendBars(load) = Max(S)
  BY DEF S, TrendBars
<1>5. Max(S) \in Nat \ {0} /\ Lookback + 1 <= Max(S)
  BY <1>1, <1>3, <1>4
<1> QED
  BY <1>4, <1>5, TrendAssumption

LEMMA PrimeIsEnough ==
  /\ PrimeBars \in Nat \ {0} /\ PrimeBars * Sample \in Nat
  /\ \A i \in DOMAIN Combos :
       TrendBars(Combos[i]) \in Nat \ {0} /\ TrendBars(Combos[i]) <= PrimeBars
<1> DEFINE S == {TrendBars(Combos[i]) : i \in DOMAIN Combos}
           n == Len(Combos)
           T == [short : Nat \ {0}, long : Nat \ {0}]
<1>0. Combos \in Seq(T) /\ Combos # << >>
  BY FoldAssumption
<1> HIDE DEF T
<1>1. n \in Nat \ {0} /\ DOMAIN Combos = 1..n
  BY <1>0
<1>2. \A i \in DOMAIN Combos : TrendBars(Combos[i]) \in Nat \ {0}
  <2>1. \A i \in DOMAIN Combos : Combos[i] \in T
    BY <1>0
  <2>2. \A load \in T : TrendBars(load) \in Nat \ {0}
    BY TrendBarsIs DEF T
  <2> QED
    BY <2>1, <2>2
<1> HIDE DEF n
<1>3. S \in SUBSET (Nat \ {0}) /\ S # {}
  BY <1>1, <1>2
<1>4. IsFiniteSet(S)
  <2> DEFINE f == [i \in 1..n |-> TrendBars(Combos[i])]
  <2>1. IsFiniteSet(1..n)
    BY <1>1, FS_Interval
  <2>2. f \in Surjection(1..n, S)
    BY <1>1 DEF Surjection
  <2> HIDE DEF f, S
  <2> QED
    BY <2>1, <2>2, FS_Surjection
<1>5. \A i \in DOMAIN Combos : TrendBars(Combos[i]) \in S
  OBVIOUS
<1>6. PrimeBars = Max(S)
  BY DEF PrimeBars
<1> HIDE DEF S
<1>7. Max(S) \in S /\ \A y \in S : y <= Max(S)
  <2>1. S \in SUBSET Int
    BY <1>3
  <2> QED
    BY <1>3, <1>4, <2>1, Extremes
<1>8. PrimeBars \in Nat \ {0}
  BY <1>3, <1>6, <1>7
<1>9. PrimeBars * Sample \in Nat
  BY <1>8, FoldAssumption
<1> QED
  BY <1>2, <1>5, <1>6, <1>7, <1>8, <1>9

-----------------------------------------------------------------------------
(* The choice of a fold.                                                   *)

LEMMA SameScore ==
  ASSUME NEW q \in Seq(Bars), InTime(q), NEW o \in Int, NEW load
  PROVE  InSample(SubSeq(q, 1, Earlier(q, o)), load, o) = InSample(q, load, o)
<1> DEFINE p == SubSeq(q, 1, Earlier(q, o))
           u == o - IsLen
           t == o - IsLen - PrimeBars * Sample
<1>1. IsLen \in Nat
  BY FoldAssumption
<1>2. PrimeBars * Sample \in Nat
  BY PrimeIsEnough
<1>3. t \in Int /\ u \in Int /\ t <= u /\ u <= o
  BY <1>1, <1>2
<1> HIDE DEF t, u
<1>4. Within(p, t, u) = Within(q, t, u)
  BY <1>3, WithinPrefix
<1>5. Within(p, u, o) = Within(q, u, o)
  BY <1>3, WithinPrefix
<1> HIDE DEF p
<1>6. Evaluate(p, load, t, u, o) = Evaluate(q, load, t, u, o)
  BY <1>4, <1>5 DEF Evaluate
<1>7. /\ InSample(p, load, o) = Score(Evaluate(p, load, t, u, o))
      /\ InSample(q, load, o) = Score(Evaluate(q, load, t, u, o))
  BY DEF InSample, t, u
<1> QED
  BY <1>6, <1>7 DEF p

LEMMA BlindIsSound ==
  ASSUME BarsInv
  PROVE  ChoiceIsBlind
<1> SUFFICES ASSUME bars # << >>, NEW o \in Folds(Head(bars).ts, Last(bars).ts)
             PROVE  Choice(bars, o) = Choice(SubSeq(bars, 1, Earlier(bars, o)), o)
  BY DEF ChoiceIsBlind
<1> DEFINE p == SubSeq(bars, 1, Earlier(bars, o))
<1>1. o \in Int
  BY DEF Folds
<1>2. \A i \in DOMAIN Combos : InSample(p, Combos[i], o) = InSample(bars, Combos[i], o)
  BY <1>1, SameScore DEF BarsInv
<1> HIDE DEF p
<1>3. {InSample(p, Combos[i], o) : i \in DOMAIN Combos}
        = {InSample(bars, Combos[i], o) : i \in DOMAIN Combos}
  BY <1>2
<1>4. Best(p, o) = Best(bars, o)
  <2> DEFINE best == Max({InSample(bars, Combos[i], o) : i \in DOMAIN Combos})
  <2>1. best = Max({InSample(p, Combos[i], o) : i \in DOMAIN Combos})
    BY <1>3
  <2>2. Best(bars, o) = {i \in DOMAIN Combos : InSample(bars, Combos[i], o) = best}
    BY DEF Best
  <2>3. Best(p, o) = {i \in DOMAIN Combos : InSample(p, Combos[i], o) = best}
    BY <2>1 DEF Best
  <2> HIDE DEF best
  <2> QED
    BY <1>2, <2>2, <2>3
<1> QED
  BY <1>4 DEF Choice, p

-----------------------------------------------------------------------------
(* What priming leaves: the last prices of the one symbol.                 *)

Recall(q, i, k) ==
  [j \in 1..Lesser(i, k + 1) |-> q[i - Lesser(i, k + 1) + j].price]

Recalls(q, i, k) == [s \in Symbols |-> IF s = SymbolOrder[1] THEN Recall(q, i, k) ELSE << >>]

LEMMA PushGrows ==
  ASSUME NEW T, NEW c \in Seq(T), NEW x \in T, NEW n \in Nat, Len(c) = n, NEW k \in Nat, n < k
  PROVE  Push(c, x, k) = [j \in 1..(n + 1) |-> IF j <= n THEN c[j] ELSE x]
<1> DEFINE all == Append(c, x)
<1>1. c \in Seq(T) /\ Len(c) = n /\ all \in Seq(T)
  OBVIOUS
<1>2. Len(all) = n + 1 /\ all[n + 1] = x /\ \A j \in 1..n : all[j] = c[j]
  BY <1>1
<1>3. Push(c, x, k) = all
  BY <1>2 DEF Push
<1> HIDE DEF all
<1>4. all = [j \in 1..(n + 1) |-> all[j]]
  BY <1>1, <1>2
<1>5. \A j \in 1..(n + 1) : all[j] = IF j <= n THEN c[j] ELSE x
  BY <1>2
<1> QED
  BY <1>3, <1>4, <1>5

LEMMA PushShifts ==
  ASSUME NEW T, NEW c \in Seq(T), NEW x \in T, NEW k \in Nat \ {0}, Len(c) = k
  PROVE  Push(c, x, k) = [j \in 1..k |-> IF j < k THEN c[j + 1] ELSE x]
<1> DEFINE all == Append(c, x)
<1>1. c \in Seq(T) /\ Len(c) = k
  OBVIOUS
<1>2. all \in Seq(T) /\ all[k + 1] = x /\ \A j \in 1..k : all[j] = c[j]
  BY <1>1
<1>3. Len(all) = k + 1
  BY <1>1
<1>4. Push(c, x, k) = Tail(all)
  BY <1>3 DEF Push
<1> HIDE DEF all
<1>5. Tail(all) = [j \in 1..k |-> all[j + 1]]
  <2> DEFINE rest == Tail(all)
  <2>1. rest \in Seq(T) /\ Len(rest) = k /\ \A j \in 1..k : rest[j] = all[j + 1]
    BY <1>2, <1>3
  <2> HIDE DEF rest
  <2>2. rest = [j \in 1..k |-> rest[j]]
    BY <2>1
  <2> QED
    BY <2>1, <2>2 DEF rest
<1>6. \A j \in 1..k : all[j + 1] = IF j < k THEN c[j + 1] ELSE x
  BY <1>2
<1> QED
  BY <1>4, <1>5, <1>6

LEMMA RecallType ==
  ASSUME NEW q \in Seq(Bars), NEW i \in 0..Len(q), NEW k \in Nat
  PROVE  /\ Lesser(i, k + 1) \in Nat /\ Lesser(i, k + 1) <= i
         /\ Recall(q, i, k) \in Seq(Prices) /\ Len(Recall(q, i, k)) = Lesser(i, k + 1)
<1> DEFINE m == Lesser(i, k + 1)
<1>1. i \in Nat /\ Len(q) \in Nat /\ m \in Nat /\ m <= i
  BY DEF Lesser
<1> HIDE DEF m
<1>2. \A j \in 1..m : i - m + j \in 1..Len(q)
  BY <1>1
<1>3. \A j \in 1..Len(q) : q[j].price \in Prices
  <2>1. \A j \in 1..Len(q) : q[j] \in Bars
    OBVIOUS
  <2>2. \A t \in Bars : t.price \in Prices
    BY DEF Bars
  <2> QED
    BY <2>1, <2>2
<1>4. \A j \in 1..m : q[i - m + j].price \in Prices
  BY <1>2, <1>3
<1>5. Recall(q, i, k) = [j \in 1..m |-> q[i - m + j].price]
  BY DEF Recall, m
<1>6. [j \in 1..m |-> q[i - m + j].price] \in [1..m -> Prices]
  BY <1>4
<1>7. Recall(q, i, k) \in Seq(Prices) /\ Len(Recall(q, i, k)) = m
  <2> DEFINE c == Recall(q, i, k)
  <2>1. c \in [1..m -> Prices]
    BY <1>5, <1>6
  <2> HIDE DEF c
  <2> QED
    BY <1>1, <2>1 DEF c
<1> QED
  BY <1>1, <1>7 DEF m

LEMMA PushRecall ==
  ASSUME NEW q \in Seq(Bars), NEW i \in 1..Len(q), NEW k \in Nat
  PROVE  Push(Recall(q, i - 1, k), q[i].price, k + 1) = Recall(q, i, k)
<1> DEFINE c == Recall(q, i - 1, k)
           x == q[i].price
           price(j) == q[j].price
<1>1. i \in Nat \ {0} /\ Len(q) \in Nat /\ i - 1 \in 0..Len(q)
  OBVIOUS
<1>2. x \in Prices
  <2>1. q[i] \in Bars
    OBVIOUS
  <2> QED
    BY <2>1 DEF Bars
<1>3. CASE i - 1 < k + 1
  <2>1. Lesser(i - 1, k + 1) = i - 1 /\ Lesser(i, k + 1) = i
    BY <1>1, <1>3 DEF Lesser
  <2>2. c \in Seq(Prices) /\ Len(c) = i - 1
    BY <1>1, <2>1, RecallType
  <2>3. c = [j \in 1..(i - 1) |-> q[(i - 1) - (i - 1) + j].price]
    BY <2>1 DEF Recall
  <2>4. \A j \in 1..(i - 1) : c[j] = q[j].price
    <3> SUFFICES ASSUME NEW j \in 1..(i - 1) PROVE c[j] = q[j].price
      OBVIOUS
    <3>1. (i - 1) - (i - 1) + j = j
      BY <1>1
    <3> HIDE DEF c
    <3> QED
      BY <2>3, <3>1
  <2>5. Recall(q, i, k) = [j \in 1..i |-> q[(i - i) + j].price]
    BY <2>1 DEF Recall
  <2> HIDE DEF c, x
  <2>6. Push(c, x, k + 1) = [j \in 1..((i - 1) + 1) |-> IF j <= i - 1 THEN c[j] ELSE x]
    <3> DEFINE m == i - 1
               r == k + 1
    <3>1. m \in Nat /\ m < r /\ r \in Nat /\ Len(c) = m
      BY <1>1, <1>3, <2>2
    <3> HIDE DEF m, r
    <3>2. Push(c, x, r) = [j \in 1..(m + 1) |-> IF j <= m THEN c[j] ELSE x]
      BY <1>2, <2>2, <3>1, PushGrows
    <3> QED
      BY <3>2 DEF m, r
  <2>7. (i - 1) + 1 = i
    BY <1>1
  <2>8. \A j \in 1..i : (IF j <= i - 1 THEN c[j] ELSE x) = q[(i - i) + j].price
    <3> SUFFICES ASSUME NEW j \in 1..i
                 PROVE  (IF j <= i - 1 THEN c[j] ELSE x) = q[(i - i) + j].price
      OBVIOUS
    <3>1. (i - i) + j = j
      BY <1>1
    <3>2. CASE j <= i - 1
      BY <1>1, <2>4, <3>1, <3>2
    <3>3. CASE j = i
      <4>1. ~ (j <= i - 1)
        BY <1>1, <3>3
      <4> QED
        BY <3>1, <3>3, <4>1 DEF x
    <3> QED
      BY <1>1, <3>2, <3>3
  <2> QED
    BY <2>5, <2>6, <2>7, <2>8 DEF c, x
<1>4. CASE i - 1 >= k + 1
  <2>1. Lesser(i - 1, k + 1) = k + 1 /\ Lesser(i, k + 1) = k + 1
    BY <1>1, <1>4 DEF Lesser
  <2>2. c \in Seq(Prices) /\ Len(c) = k + 1
    BY <1>1, <2>1, RecallType
  <2>3. c = [j \in 1..(k + 1) |-> q[(i - 1) - (k + 1) + j].price]
    BY <2>1 DEF Recall
  <2>4. Recall(q, i, k) = [j \in 1..(k + 1) |-> q[i - (k + 1) + j].price]
    BY <2>1 DEF Recall
  <2>5. \A j \in 1..(k + 1) : c[j] = q[(i - 1) - (k + 1) + j].price
    BY <2>3
  <2> HIDE DEF c, x
  <2>6. Push(c, x, k + 1) = [j \in 1..(k + 1) |-> IF j < k + 1 THEN c[j + 1] ELSE x]
    <3>1. k + 1 \in Nat \ {0}
      OBVIOUS
    <3> QED
      BY <1>2, <2>2, <3>1, PushShifts
  <2>7. \A j \in 1..(k + 1) :
          (IF j < k + 1 THEN c[j + 1] ELSE x) = q[i - (k + 1) + j].price
    <3> SUFFICES ASSUME NEW j \in 1..(k + 1)
                 PROVE  (IF j < k + 1 THEN c[j + 1] ELSE x) = q[i - (k + 1) + j].price
      OBVIOUS
    <3>1. CASE j < k + 1
      <4>1. j + 1 \in 1..(k + 1) /\ (i - 1) - (k + 1) + (j + 1) = i - (k + 1) + j
        BY <1>1, <3>1
      <4>2. c[j + 1] = q[i - (k + 1) + j].price
        BY <2>5, <4>1
      <4> QED
        BY <3>1, <4>2
    <3>2. CASE j = k + 1
      <4>1. i - (k + 1) + j = i /\ ~ (j < k + 1)
        BY <1>1, <3>2
      <4> QED
        BY <4>1 DEF x
    <3> QED
      BY <3>1, <3>2
  <2> QED
    BY <2>4, <2>6, <2>7 DEF c, x
<1> QED
  BY <1>1, <1>3, <1>4

LEMMA OneSymbol == SymbolOrder[1] \in Symbols
<1>1. SymbolOrder \in Seq(Symbols) /\ SymbolOrder # << >>
  BY BacktestAssumption
<1> QED
  BY <1>1

LEMMA AfterRecalls ==
  ASSUME NEW q \in Seq(Bars), NEW load, TrendBars(load) \in Nat, NEW i \in 1..Len(q)
  PROVE  After(Recalls(q, i - 1, TrendBars(load)), q[i], load) = Recalls(q, i, TrendBars(load))
<1> DEFINE k == TrendBars(load)
           s0 == SymbolOrder[1]
           st == Recalls(q, i - 1, k)
           t == q[i]
<1>1. t.sym = s0 /\ s0 \in Symbols
  <2>1. q[i] \in Bars
    OBVIOUS
  <2> QED
    BY <2>1, OneSymbol DEF Bars
<1>2. st[s0] = Recall(q, i - 1, k) /\ DOMAIN st = Symbols
  BY <1>1 DEF Recalls
<1>3. After(st, t, load) = [st EXCEPT ![s0] = Push(st[s0], t.price, k + 1)]
  <2> HIDE DEF st, t, k, s0
  <2> QED
    BY <1>1 DEF After, TrendStep, k
<1>4. Push(Recall(q, i - 1, k), t.price, k + 1) = Recall(q, i, k)
  BY PushRecall
<1>5. [st EXCEPT ![s0] = Recall(q, i, k)] = Recalls(q, i, k)
  BY <1>1 DEF Recalls
<1> QED
  BY <1>2, <1>3, <1>4, <1>5

\* After any bars, a primed load has the last of their prices.
LEMMA PrimedIs ==
  ASSUME NEW q \in Seq(Bars), NEW load, TrendBars(load) \in Nat
  PROVE  Primed(q, load) = Recalls(q, Len(q), TrendBars(load))
<1> DEFINE k == TrendBars(load)
           n == Len(q)
<1>1. PICK a : /\ a[0] = State0("trend")
               /\ \A i \in 1..n : a[i] = After(a[i - 1], q[i], load)
               /\ Primed(q, load) = a[n]
  BY PrimedChain
<1>2. State0("trend") = Recalls(q, 0, k)
  <2>1. Lesser(0, k + 1) = 0
    BY DEF Lesser
  <2>2. Recall(q, 0, k) = << >>
    BY <2>1 DEF Recall
  <2>3. State0("trend") = [s \in Symbols |-> << >>]
    BY DEF State0
  <2> HIDE DEF k
  <2> QED
    BY <2>2, <2>3 DEF Recalls
<1> DEFINE P == {i \in 0..n : a[i] = Recalls(q, i, k)}
<1>3. 0 \in P /\ n \in Nat
  BY <1>1, <1>2
<1>4. ASSUME NEW i \in 0..n, i \in P /\ i < n
      PROVE  i + 1 \in P
  <2>1. i + 1 \in 1..n /\ (i + 1) - 1 = i
    BY <1>3, <1>4
  <2>2. a[i + 1] = After(a[i], q[i + 1], load)
    BY <1>1, <2>1
  <2>3. After(Recalls(q, i, k), q[i + 1], load) = Recalls(q, i + 1, k)
    <3> DEFINE j == i + 1
    <3>1. j \in 1..Len(q) /\ j - 1 = i
      BY <2>1
    <3> HIDE DEF j
    <3>2. After(Recalls(q, j - 1, k), q[j], load) = Recalls(q, j, k)
      BY <3>1, AfterRecalls
    <3> QED
      BY <3>1, <3>2 DEF j
  <2> QED
    BY <1>4, <2>1, <2>2, <2>3
<1> HIDE DEF P, n
<1>5. \A i \in 0..n : i \in P
  BY <1>3, <1>4, UpTo
<1> QED
  BY <1>1, <1>3, <1>5 DEF P, n

LEMMA PushFull ==
  ASSUME NEW q \in Seq(Bars), NEW k \in Nat, k <= Len(q), NEW x \in Prices
  PROVE  Push(Recall(q, Len(q), k), x, k + 1)
           = [j \in 1..(k + 1) |-> IF j < k + 1 THEN q[Len(q) - k + j].price ELSE x]
<1> DEFINE n == Len(q)
           c == Recall(q, n, k)
<1>1. n \in Nat /\ n \in 0..n /\ k + 1 \in Nat \ {0}
  OBVIOUS
<1>2. c \in Seq(Prices) /\ Len(c) = Lesser(n, k + 1)
  BY <1>1, RecallType
<1>3. CASE n = k
  <2>1. Lesser(n, k + 1) = k
    BY <1>3 DEF Lesser
  <2>2. c = [j \in 1..k |-> q[n - k + j].price]
    BY <2>1 DEF Recall
  <2>3. \A j \in 1..k : c[j] = q[n - k + j].price
    BY <2>2
  <2> HIDE DEF c, n
  <2>4. Push(c, x, k + 1) = [j \in 1..(k + 1) |-> IF j <= k THEN c[j] ELSE x]
    BY <1>1, <1>2, <2>1, PushGrows
  <2>5. \A j \in 1..(k + 1) : (IF j <= k THEN c[j] ELSE x)
                                = IF j < k + 1 THEN q[n - k + j].price ELSE x
    BY <2>3
  <2> QED
    BY <2>4, <2>5 DEF c, n
<1>4. CASE n > k
  <2>1. Lesser(n, k + 1) = k + 1
    BY <1>1, <1>4 DEF Lesser
  <2>2. c = [j \in 1..(k + 1) |-> q[n - (k + 1) + j].price]
    BY <2>1 DEF Recall
  <2>3. \A j \in 1..(k + 1) : c[j] = q[n - (k + 1) + j].price
    BY <2>2
  <2> HIDE DEF c, n
  <2>4. Push(c, x, k + 1) = [j \in 1..(k + 1) |-> IF j < k + 1 THEN c[j + 1] ELSE x]
    BY <1>1, <1>2, <2>1, PushShifts
  <2>5. \A j \in 1..(k + 1) : (IF j < k + 1 THEN c[j + 1] ELSE x)
                                = IF j < k + 1 THEN q[n - k + j].price ELSE x
    <3> SUFFICES ASSUME NEW j \in 1..(k + 1), j < k + 1
                 PROVE  c[j + 1] = q[n - k + j].price
      OBVIOUS
    <3>1. j + 1 \in 1..(k + 1) /\ n - (k + 1) + (j + 1) = n - k + j
      BY <1>1
    <3> QED
      BY <2>3, <3>1
  <2> QED
    BY <2>4, <2>5 DEF c, n
<1> QED
  BY <1>1, <1>3, <1>4

-----------------------------------------------------------------------------
(* Two loads that remember the same last prices trade alike.               *)

LEMMA AccountsAlike ==
  ASSUME NEW S, NEW q \in Seq(S), q # << >>, NEW load, NEW st1, NEW st2,
         Traded(Idle(st1, Initial), q[1], load) = Traded(Idle(st2, Initial), q[1], load)
  PROVE  Account(q, load, st1) = Account(q, load, st2)
<1> DEFINE n == Len(q)
<1>1. n \in Nat /\ 1 \in 1..n
  OBVIOUS
<1>2. PICK a : /\ a[0] = Idle(st1, Initial)
               /\ \A i \in 1..n : a[i] = Traded(a[i - 1], q[i], load)
               /\ Account(q, load, st1) = a[n]
  BY AccountChain
<1>3. PICK b : /\ b[0] = Idle(st2, Initial)
               /\ \A i \in 1..n : b[i] = Traded(b[i - 1], q[i], load)
               /\ Account(q, load, st2) = b[n]
  BY AccountChain
<1> DEFINE P == {i \in 1..n : a[i] = b[i]}
<1>4. 1 \in P
  <2>1. a[1] = Traded(a[1 - 1], q[1], load) /\ b[1] = Traded(b[1 - 1], q[1], load)
    BY <1>1, <1>2, <1>3
  <2>2. 1 - 1 = 0
    OBVIOUS
  <2> QED
    BY <1>1, <1>2, <1>3, <2>1, <2>2
<1>5. ASSUME NEW i \in 1..n, i \in P /\ i < n
      PROVE  i + 1 \in P
  <2>1. i + 1 \in 1..n /\ (i + 1) - 1 = i
    BY <1>1, <1>5
  <2>2. a[i + 1] = Traded(a[i], q[i + 1], load)
    BY <1>2, <2>1
  <2>3. b[i + 1] = Traded(b[i], q[i + 1], load)
    BY <1>3, <2>1
  <2> QED
    BY <1>5, <2>1, <2>2, <2>3
<1> HIDE DEF P
<1>6. \A i \in 1..n : i \in P
  <2> HIDE DEF n
  <2>1. 1 \in Nat
    OBVIOUS
  <2> QED
    BY <1>1, <1>4, <1>5, <2>1, UpTo
<1>7. n \in 1..n
  BY <1>1
<1> QED
  BY <1>2, <1>3, <1>6, <1>7 DEF P

\* The first bar after priming, if each has seen at least what a load needs
\* and the last of these are the same.
LEMMA FirstAlike ==
  ASSUME NEW q1 \in Seq(Bars), NEW q2 \in Seq(Bars), NEW load, NEW k, k = TrendBars(load),
         k \in Nat, k <= Len(q1), k <= Len(q2),
         \A j \in 1..k : q1[Len(q1) - k + j] = q2[Len(q2) - k + j],
         NEW t \in Bars
  PROVE  Traded(Idle(Primed(q1, load), Initial), t, load)
           = Traded(Idle(Primed(q2, load), Initial), t, load)
<1> DEFINE s0 == SymbolOrder[1]
           st1 == Recalls(q1, Len(q1), k)
           st2 == Recalls(q2, Len(q2), k)
<1>1. Primed(q1, load) = st1 /\ Primed(q2, load) = st2
  BY PrimedIs
<1>2. t.sym = s0 /\ s0 \in Symbols /\ t.price \in Prices
  BY OneSymbol DEF Bars
<1>3. st1[s0] = Recall(q1, Len(q1), k) /\ st2[s0] = Recall(q2, Len(q2), k)
  BY <1>2 DEF Recalls
<1>4. Push(st1[s0], t.price, k + 1) = Push(st2[s0], t.price, k + 1)
  <2> DEFINE x == t.price
             price1(j) == q1[Len(q1) - k + j].price
             price2(j) == q2[Len(q2) - k + j].price
  <2>1. x \in Prices
    BY <1>2
  <2> HIDE DEF x
  <2>2. Push(Recall(q1, Len(q1), k), x, k + 1)
          = [j \in 1..(k + 1) |-> IF j < k + 1 THEN price1(j) ELSE x]
    BY <2>1, PushFull
  <2>3. Push(Recall(q2, Len(q2), k), x, k + 1)
          = [j \in 1..(k + 1) |-> IF j < k + 1 THEN price2(j) ELSE x]
    BY <2>1, PushFull
  <2>4. \A j \in 1..(k + 1) : j < k + 1 => price1(j) = price2(j)
    <3>1. \A j \in 1..(k + 1) : j < k + 1 => j \in 1..k
      OBVIOUS
    <3> QED
      BY <3>1
  <2> HIDE DEF price1, price2
  <2>5. Push(Recall(q1, Len(q1), k), x, k + 1) = Push(Recall(q2, Len(q2), k), x, k + 1)
    BY <2>2, <2>3, <2>4
  <2> QED
    BY <1>3, <2>5 DEF x
<1>5. \A x : [st1 EXCEPT ![s0] = x] = [st2 EXCEPT ![s0] = x]
  BY <1>2 DEF Recalls
<1> HIDE DEF st1, st2
<1>6. \A b : TrendStep(st1, b, t, load) = TrendStep(st2, b, t, load)
  <2> TAKE b
  <2> DEFINE c1 == Push(st1[t.sym], t.price, TrendBars(load) + 1)
             c2 == Push(st2[t.sym], t.price, TrendBars(load) + 1)
  <2>1. c1 = c2
    BY <1>2, <1>4
  <2>2. [st1 EXCEPT ![t.sym] = c1] = [st2 EXCEPT ![t.sym] = c2]
    BY <1>2, <1>5, <2>1
  <2> HIDE DEF s0
  <2> QED
    BY <2>1, <2>2, Zenon DEF TrendStep
<1>7. \A st : /\ Idle(st, Initial).st = st
              /\ Idle(st, Initial).b = Opened(Initial)
  BY DEF Idle
<1> DEFINE did == TrendStep(st1, Priced(Opened(Initial), t), t, load)
<1>8. /\ Traded(Idle(st1, Initial), t, load) = EngineStep(Idle(st1, Initial), did, t)
      /\ Traded(Idle(st2, Initial), t, load) = EngineStep(Idle(st2, Initial), did, t)
  BY <1>6, <1>7 DEF Traded
<1> HIDE DEF did
<1>9. EngineStep(Idle(st1, Initial), did, t) = EngineStep(Idle(st2, Initial), did, t)
  BY DEF EngineStep, Idle
<1> QED
  BY <1>1, <1>8, <1>9

\* A fold of no bars has bought nothing.
LEMMA NoBars ==
  ASSUME NEW load, NEW st
  PROVE  Account(<< >>, load, st).b = Opened(Initial)
<1> DEFINE q == << >>
<1>1. q \in Seq(Bars)
  OBVIOUS
<1>0. Len(q) = 0
  OBVIOUS
<1> HIDE DEF q
<1>2. PICK a : /\ a[0] = Idle(st, Initial)
               /\ \A i \in 1..Len(q) : a[i] = Traded(a[i - 1], q[i], load)
               /\ Account(q, load, st) = a[Len(q)]
  BY <1>1, AccountChain
<1> QED
  BY <1>0, <1>2 DEF Idle, q

-----------------------------------------------------------------------------
(* Regular bars: the window of priming has as many as the longest warm-up. *)

LEMMA MoreTimes ==
  ASSUME NEW m \in Nat \ {0}, NEW a \in Int, NEW b \in Int
  PROVE  /\ a * m \in Int
         /\ a < b => a * m < b * m
         /\ a <= b => a * m <= b * m
         /\ a * m <= b * m => a <= b
<1>1. ASSUME a < b PROVE a * m < b * m
  <2>1. PICK c \in Nat \ {0} : b = a + c
    BY <1>1, b - a \in Nat \ {0}, b = a + (b - a)
  <2>2. b * m = a * m + c * m /\ c * m \in Nat \ {0}
    BY <2>1
  <2> QED
    BY <2>2
<1>2. ASSUME b < a PROVE b * m < a * m
  <2>1. PICK c \in Nat \ {0} : a = b + c
    BY <1>2, a - b \in Nat \ {0}, a = b + (a - b)
  <2>2. a * m = b * m + c * m /\ c * m \in Nat \ {0}
    BY <2>1
  <2> QED
    BY <2>2
<1>3. a * m \in Int /\ b * m \in Int
  OBVIOUS
<1>4. a < b \/ a = b \/ b < a
  OBVIOUS
<1> QED
  BY <1>1, <1>2, <1>3, <1>4

LEMMA TimesAdd ==
  ASSUME NEW m \in Int, NEW a \in Int, NEW b \in Int
  PROVE  (a + b) * m = a * m + b * m /\ (a - b) * m = a * m - b * m
OBVIOUS

LEMMA RegularTimes ==
  ASSUME BarsInv, Regular
  PROVE  \A i \in DOMAIN bars : bars[i].ts = (i - 1) * Sample
<1> DEFINE n == Len(bars)
           P == {i \in 1..n : bars[i].ts = (i - 1) * Sample}
<1>1. n \in Nat /\ DOMAIN bars = 1..n /\ \A i \in 1..n : bars[i].ts \in Nat
  BY BarTimes DEF BarsInv
<1>2. Sample \in Nat
  BY FoldAssumption
<1> SUFFICES ASSUME n >= 1 PROVE \A i \in 1..n : i \in P
  BY <1>1
<1>3. 1 \in P
  <2>1. bars # << >>
    BY <1>1 DEF BarsInv
  <2>2. bars[1].ts = 0
    BY <2>1 DEF BarsInv
  <2>3. (1 - 1) * Sample = 0
    BY <1>2
  <2> QED
    BY <1>1, <2>2, <2>3
<1>4. ASSUME NEW i \in 1..n, i \in P /\ i < n
      PROVE  i + 1 \in P
  <2> DEFINE j == i + 1
  <2>1. j \in 2..n /\ j \in 1..n /\ j - 1 = i /\ i \in Nat /\ j \in Nat
    BY <1>1, <1>4
  <2>2. bars[j].ts - bars[i].ts = Sample
    BY <2>1 DEF Regular
  <2>3. bars[i].ts = (i - 1) * Sample
    BY <1>4
  <2>4. (j - 1) * Sample = (i - 1) * Sample + Sample
    <3>1. ((i - 1) + 1) * Sample = (i - 1) * Sample + 1 * Sample
      BY <1>2, <2>1, TimesAdd
    <3>2. (i - 1) + 1 = j - 1 /\ 1 * Sample = Sample
      BY <1>2, <2>1
    <3> QED
      BY <3>1, <3>2
  <2>5. bars[j].ts \in Int /\ bars[i].ts \in Int
    BY <1>1, <2>1
  <2> HIDE DEF j
  <2>6. bars[j].ts = (j - 1) * Sample
    BY <2>2, <2>3, <2>4, <2>5, <1>2
  <2>7. j \in P
    BY <2>1, <2>6
  <2> QED
    BY <2>7 DEF j
<1> HIDE DEF P, n
<1>5. \A i \in 1..n : i \in P
  <2>1. 1 \in Nat
    OBVIOUS
  <2> QED
    BY <1>1, <1>3, <1>4, <2>1, UpTo
<1> QED
  BY <1>5

\* Of the bars before a window, all but a prime's length lie before priming.
LEMMA PrimeWindow ==
  ASSUME BarsInv, Regular, bars # << >>,
         NEW o \in Folds(Head(bars).ts, Last(bars).ts)
  PROVE  /\ o \in Nat
         /\ Earlier(bars, 0) = 0
         /\ Earlier(bars, o) \in 0..Len(bars) /\ PrimeBars <= Earlier(bars, o)
         /\ Earlier(bars, o - PrimeBars * Sample) = Earlier(bars, o) - PrimeBars
<1> DEFINE n == Len(bars)
           k == PrimeBars
           e == Earlier(bars, o)
           f == Earlier(bars, o - PrimeBars * Sample)
<1>1. /\ n \in Nat \ {0} /\ DOMAIN bars = 1..n
      /\ \A i \in 1..n : bars[i].ts \in Nat
  <2>1. n \in Nat /\ DOMAIN bars = 1..n /\ \A i \in DOMAIN bars : bars[i].ts \in Nat
    BY BarTimes DEF BarsInv
  <2>2. n # 0
    BY DEF BarsInv
  <2> QED
    BY <2>1, <2>2
<1>2. Sample \in Nat \ {0} /\ IsLen \in Nat /\ OosLen \in Nat \ {0}
  BY FoldAssumption
<1>3. k \in Nat \ {0} /\ k * Sample \in Nat
  BY PrimeIsEnough
<1>4. \A i \in 1..n : bars[i].ts = (i - 1) * Sample
  BY <1>1, RegularTimes
<1>5. Head(bars).ts = 0 /\ Last(bars).ts = (n - 1) * Sample
  <2>1. Head(bars) = bars[1] /\ Last(bars) = bars[n]
    BY DEF Last, BarsInv
  <2>2. n \in 1..n
    BY <1>1
  <2> QED
    BY <1>4, <2>1, <2>2 DEF BarsInv
<1>6. o \in Int /\ o >= 0 + k * Sample + IsLen /\ o + OosLen <= (n - 1) * Sample
  BY <1>5 DEF Folds
<1> DEFINE w == k * Sample
<1>7. k <= n - 1
  <2>1. k * Sample <= (n - 1) * Sample
    <3>1. (n - 1) * Sample \in Int
      BY <1>1, <1>2
    <3> QED
      BY <1>2, <1>3, <1>6, <3>1
  <2> DEFINE r == n - 1
  <2>2. r \in Int /\ k \in Int /\ k * Sample <= r * Sample
    BY <1>1, <1>3, <2>1
  <2> HIDE DEF r, k
  <2>3. k <= r
    BY <1>2, <2>2, MoreTimes
  <2> QED
    BY <2>3 DEF r
<1> HIDE DEF w
<1>8. /\ e \in 0..n /\ \A i \in 1..n : bars[i].ts < o <=> i <= e
  BY <1>1, <1>6, EarlierIs DEF BarsInv
<1>9. /\ f \in 0..n /\ \A i \in 1..n : bars[i].ts < o - w <=> i <= f
  <2>1. o - w \in Int
    BY <1>3, <1>6 DEF w
  <2> QED
    BY <1>1, <2>1, EarlierIs DEF BarsInv, w
<1>10. Earlier(bars, 0) = 0
  <2> DEFINE z == Earlier(bars, 0)
  <2>1. z \in 0..n /\ \A i \in 1..n : bars[i].ts < 0 <=> i <= z
    BY <1>1, EarlierIs DEF BarsInv
  <2> HIDE DEF z
  <2>2. ~ (1 <= z)
    BY <1>1, <2>1
  <2> QED
    BY <2>1, <2>2 DEF z
<1> HIDE DEF e, f, k, n
<1>11. k <= e
  <2>1. k \in 1..n /\ bars[k].ts = (k - 1) * Sample
    BY <1>1, <1>3, <1>4, <1>7
  <2>2. (k - 1) * Sample < k * Sample
    BY <1>2, <1>3, MoreTimes
  <2>3. bars[k].ts < o
    BY <1>2, <1>3, <1>6, <2>1, <2>2
  <2> QED
    BY <1>8, <2>1, <2>3
\* Bars a prime's length apart.
<1>12. ASSUME NEW i \in 1..n, i + k <= n
       PROVE  i <= f <=> i + k <= e
  <2>1. i + k \in 1..n
    BY <1>1, <1>3, <1>12
  <2>2. bars[i].ts = (i - 1) * Sample /\ bars[i + k].ts = ((i + k) - 1) * Sample
    BY <1>4, <2>1
  <2>3. ((i + k) - 1) * Sample = (i - 1) * Sample + w
    <3>1. ((i - 1) + k) * Sample = (i - 1) * Sample + k * Sample
      BY <1>2, <1>3, TimesAdd
    <3>2. (i + k) - 1 = (i - 1) + k
      BY <1>3
    <3> QED
      BY <3>1, <3>2 DEF w
  <2>4. bars[i].ts \in Int /\ bars[i + k].ts \in Int /\ w \in Int
    BY <1>1, <1>3, <2>1 DEF w
  <2>5. bars[i + k].ts = bars[i].ts + w
    BY <2>2, <2>3
  <2>6. bars[i].ts < o - w <=> bars[i + k].ts < o
    BY <1>6, <2>4, <2>5
  <2>7. (bars[i].ts < o - w <=> i <= f) /\ (bars[i + k].ts < o <=> i + k <= e)
    BY <1>8, <1>9, <2>1
  <2> QED
    BY <2>6, <2>7
<1>13. f + k <= n
  <2> SUFFICES ASSUME f + k > n PROVE FALSE
    BY <1>1, <1>3, <1>9
  <2>1. f \in 1..n
    BY <1>1, <1>3, <1>7, <1>9
  <2>2. bars[f].ts < o - w /\ bars[f].ts = (f - 1) * Sample
    BY <1>4, <1>9, <2>1
  <2>3. (f - 1) * Sample + w = ((f - 1) + k) * Sample
    BY <1>2, <1>3, <2>1, TimesAdd DEF w
  <2>4. (n - 1) * Sample <= ((f - 1) + k) * Sample
    <3>1. n - 1 <= (f - 1) + k /\ n - 1 \in Int /\ (f - 1) + k \in Int
      BY <1>1, <1>3, <2>1
    <3> QED
      BY <1>2, <3>1, MoreTimes
  <2>5. (n - 1) * Sample \in Int /\ (f - 1) * Sample \in Int /\ w \in Int
    BY <1>1, <1>2, <1>3, <2>1 DEF w
  <2> QED
    BY <1>2, <1>6, <2>2, <2>3, <2>4, <2>5
<1>14. f + k <= e
  <2>1. CASE f = 0
    BY <1>3, <1>11, <2>1
  <2>2. CASE f # 0
    <3>1. f \in 1..n /\ f <= f
      BY <1>1, <1>9, <2>2
    <3> QED
      BY <1>12, <1>13, <3>1
  <2> QED
    BY <2>1, <2>2
<1>15. e - k <= f
  <2>1. CASE e = k
    BY <1>3, <1>9, <2>1
  <2>2. CASE e # k
    <3>1. e - k \in 1..n /\ (e - k) + k = e /\ e <= n /\ e <= e
      BY <1>1, <1>3, <1>8, <1>11, <2>2
    <3> QED
      BY <1>12, <3>1
  <2> QED
    BY <2>1, <2>2
<1>16. f = e - k
  BY <1>1, <1>3, <1>8, <1>9, <1>14, <1>15
<1>17. o \in Nat
  BY <1>2, <1>3, <1>6
<1> QED
  BY <1>8, <1>10, <1>11, <1>16, <1>17 DEF e, f, k, n

LEMMA WithinType ==
  ASSUME NEW q \in Seq(Bars), InTime(q), NEW t \in Int, NEW u \in Int, t <= u
  PROVE  /\ Within(q, t, u) \in Seq(Bars)
         /\ Len(Within(q, t, u)) = Earlier(q, u) - Earlier(q, t)
         /\ \A i \in 1..(Earlier(q, u) - Earlier(q, t)) :
              Within(q, t, u)[i] = q[Earlier(q, t) + i]
<1> DEFINE a == Earlier(q, t)
           b == Earlier(q, u)
<1>1. a \in 0..Len(q) /\ b \in 0..Len(q) /\ Len(q) \in Nat
  BY EarlierIs
<1>2. a <= b
  BY EarlierOfPrefix
<1>3. Within(q, t, u) = SubSeq(q, a + 1, b)
  BY DEF Within
<1> HIDE DEF a, b
<1>4. /\ SubSeq(q, a + 1, b) \in Seq(Bars)
      /\ Len(SubSeq(q, a + 1, b)) = b - a
      /\ \A i \in 1..(b - a) : SubSeq(q, a + 1, b)[i] = q[a + i]
  BY <1>1, <1>2
<1> QED
  BY <1>3, <1>4 DEF a, b

LEMMA PrimedAlike ==
  ASSUME BarsInv, Regular, bars # << >>,
         NEW o \in Folds(Head(bars).ts, Last(bars).ts), NEW load,
         NEW k, k = TrendBars(load), k \in Nat, k <= PrimeBars, NEW t \in Bars
  PROVE  Traded(Idle(Primed(Within(bars, o - PrimeBars * Sample, o), load), Initial), t, load)
           = Traded(Idle(Primed(Within(bars, 0, o), load), Initial), t, load)
<1> DEFINE p == PrimeBars
           from == o - p * Sample
           q1 == Within(bars, from, o)
           q2 == Within(bars, 0, o)
           e == Earlier(bars, o)
<1>1. /\ o \in Nat /\ Earlier(bars, 0) = 0 /\ e \in 0..Len(bars) /\ p <= e
      /\ Earlier(bars, from) = e - p
  BY PrimeWindow
<1>2. p \in Nat \ {0} /\ p * Sample \in Nat
  BY PrimeIsEnough
<1>3. e \in Nat /\ from \in Int /\ from <= o /\ 0 <= o
  <2>1. Len(bars) \in Nat
    BY DEF BarsInv
  <2> QED
    BY <1>1, <1>2, <2>1
<1> HIDE DEF from, e
<1>4. /\ q1 \in Seq(Bars) /\ Len(q1) = p
      /\ \A i \in 1..p : q1[i] = bars[(e - p) + i]
  <2>1. /\ q1 \in Seq(Bars) /\ Len(q1) = e - (e - p)
        /\ \A i \in 1..(e - (e - p)) : q1[i] = bars[(e - p) + i]
    BY <1>1, <1>3, WithinType DEF BarsInv, e
  <2>2. e - (e - p) = p
    BY <1>2, <1>3
  <2> HIDE DEF q1
  <2> QED
    BY <2>1, <2>2
<1>5. q2 \in Seq(Bars) /\ Len(q2) = e /\ \A i \in 1..e : q2[i] = bars[i]
  <2>1. /\ q2 \in Seq(Bars) /\ Len(q2) = e - 0
        /\ \A i \in 1..(e - 0) : q2[i] = bars[0 + i]
    BY <1>1, <1>3, WithinType DEF BarsInv, e
  <2>2. e - 0 = e /\ \A i \in 1..e : 0 + i = i
    BY <1>3
  <2> HIDE DEF q2
  <2> QED
    BY <2>1, <2>2
<1> HIDE DEF p, q1, q2
<1>6. \A j \in 1..k : q1[Len(q1) - k + j] = q2[Len(q2) - k + j]
  <2> SUFFICES ASSUME NEW j \in 1..k PROVE q1[p - k + j] = q2[e - k + j]
    BY <1>4, <1>5
  <2>1. k <= p
    BY DEF p
  <2>2. p - k + j \in 1..p /\ e - k + j \in 1..e /\ (e - p) + (p - k + j) = e - k + j
    BY <1>1, <1>2, <1>3, <2>1
  <2>3. q1[p - k + j] = bars[e - k + j]
    BY <1>4, <2>2
  <2>4. q2[e - k + j] = bars[e - k + j]
    BY <1>5, <2>2
  <2> QED
    BY <2>3, <2>4
<1>7. k <= Len(q1) /\ k <= Len(q2)
  BY <1>1, <1>2, <1>3, <1>4, <1>5 DEF p
<1>8. Traded(Idle(Primed(q1, load), Initial), t, load)
        = Traded(Idle(Primed(q2, load), Initial), t, load)
  BY <1>4, <1>5, <1>6, <1>7, FirstAlike
<1> QED
  BY <1>8 DEF q1, q2, from, p

LEMMA PrimingIsSound ==
  ASSUME BarsInv
  PROVE  PrimingSuffices
<1> SUFFICES ASSUME bars # << >>, Regular,
                    NEW o \in Folds(Head(bars).ts, Last(bars).ts), NEW i \in DOMAIN Combos
             PROVE  Lossless(Combos[i], o)
  BY DEF PrimingSuffices
<1> DEFINE load == Combos[i]
           q == Within(bars, o, o + OosLen)
           st1 == Primed(Within(bars, o - PrimeBars * Sample, o), load)
           st2 == Primed(Within(bars, 0, o), load)
<1>1. TrendBars(load) \in Nat /\ TrendBars(load) <= PrimeBars
  BY PrimeIsEnough
<1>2. q \in Seq(Bars)
  <2>1. o \in Int /\ o + OosLen \in Int /\ o <= o + OosLen
    BY FoldAssumption DEF Folds
  <2> QED
    BY <2>1, WithinType DEF BarsInv
<1>3. /\ OutOfSample(bars, load, o) = Account(q, load, st1)
      /\ Evaluate(bars, load, 0, o, o + OosLen) = Account(q, load, st2)
  BY DEF OutOfSample, Evaluate
<1> HIDE DEF load
<1>4. Account(q, load, st1).b = Account(q, load, st2).b
  <2>1. CASE q = << >>
    <3>1. /\ Account(<< >>, load, st1).b = Opened(Initial)
          /\ Account(<< >>, load, st2).b = Opened(Initial)
      BY NoBars
    <3> HIDE DEF q, st1, st2
    <3> QED
      BY <2>1, <3>1
  <2>2. CASE q # << >>
    <3> DEFINE t == q[1]
    <3>1. t \in Bars
      <4> HIDE DEF q
      <4> QED
        BY <1>2, <2>2
    <3> HIDE DEF t
    <3>2. Traded(Idle(st1, Initial), t, load) = Traded(Idle(st2, Initial), t, load)
      BY <1>1, <3>1, PrimedAlike
    <3> HIDE DEF q, st1, st2
    <3>3. Account(q, load, st1) = Account(q, load, st2)
      BY <1>2, <2>2, <3>2, AccountsAlike DEF t
    <3> QED
      BY <3>3
  <2> QED
    BY <2>1, <2>2
<1> QED
  BY <1>3, <1>4 DEF Lossless, load

-----------------------------------------------------------------------------
LEMMA CollectKeepsBars ==
  ASSUME BarsInv, NEW p \in Prices, NEW gap \in Gaps, Collect(p, gap)
  PROVE  BarsInv'
<1> DEFINE n == Len(bars)
           x == [sym |-> SymbolOrder[1], price |-> p,
                 ts |-> IF bars = << >> THEN 0 ELSE Last(bars).ts + gap]
<1>1. bars' = Append(bars, x)
  BY DEF Collect
<1>2. /\ n \in Nat /\ DOMAIN bars = 1..n /\ bars \in Seq(Bars)
      /\ \A i \in 1..n : bars[i].ts \in Nat
  BY BarTimes DEF BarsInv
<1>3. gap \in Nat \ {0}
  BY BacktestAssumption
<1>4. x.ts \in Nat /\ \A i \in 1..n : bars[i].ts < x.ts
  <2>1. CASE n = 0
    <3>1. bars = << >>
      BY <1>2, <2>1
    <3> QED
      BY <2>1, <3>1
  <2>2. CASE n # 0
    <3>1. n \in 1..n /\ bars # << >>
      BY <1>2, <2>2
    <3>2. x.ts = bars[n].ts + gap
      BY <3>1 DEF Last
    <3>3. \A i \in 1..n : i = n \/ i < n
      <4>1. n \in Nat
        BY <1>2
      <4> HIDE DEF n
      <4> QED
        BY <4>1
    <3>4. \A i \in 1..n : i < n => bars[i].ts < bars[n].ts
      BY <1>2, <3>1 DEF BarsInv, InTime
    <3> HIDE DEF x, n
    <3>5. bars[n].ts \in Nat
      BY <1>2, <3>1
    <3>6. ASSUME NEW i \in 1..n
          PROVE  bars[i].ts < x.ts
      <4>1. bars[i].ts \in Nat /\ (i = n \/ bars[i].ts < bars[n].ts)
        BY <1>2, <3>3, <3>4
      <4> QED
        BY <1>3, <3>2, <3>5, <4>1
    <3> QED
      BY <1>3, <3>2, <3>5, <3>6
  <2> QED
    BY <2>1, <2>2
<1>5. x \in Bars
  <2>1. x.ts \in Nat
    BY <1>4
  <2> QED
    BY <2>1 DEF Bars
<1>6. x.ts = 0 \/ bars # << >>
  OBVIOUS
<1> HIDE DEF x
<1>7. /\ bars' \in Seq(Bars) /\ DOMAIN bars' = 1..(n + 1)
      /\ bars'[n + 1] = x /\ \A i \in 1..n : bars'[i] = bars[i]
  BY <1>1, <1>2, <1>5
<1>8. InTime(bars')
  <2> SUFFICES ASSUME NEW i \in 1..(n + 1), NEW j \in 1..(n + 1), i < j
               PROVE  bars'[i].ts < bars'[j].ts
    BY <1>7 DEF InTime
  <2> HIDE DEF n
  <2>1. i \in 1..n
    BY <1>2
  <2>2. CASE j = n + 1
    BY <1>4, <1>7, <2>1, <2>2
  <2>3. CASE j \in 1..n
    <3>1. bars[i].ts < bars[j].ts
      BY <1>2, <2>1, <2>3 DEF BarsInv, InTime
    <3> QED
      BY <1>7, <2>1, <2>3, <3>1
  <2> QED
    BY <1>2, <2>2, <2>3
<1>9. bars'[1].ts = 0
  <2>1. CASE bars = << >>
    <3>1. n = 0 /\ x.ts = 0
      BY <1>6, <2>1 DEF x
    <3> QED
      BY <1>7, <3>1
  <2>2. CASE bars # << >>
    <3>1. bars[1].ts = 0 /\ 1 \in 1..n
      BY <1>2, <2>2 DEF BarsInv
    <3> QED
      BY <1>7, <3>1
  <2> QED
    BY <2>1, <2>2
<1> QED
  BY <1>7, <1>8, <1>9 DEF BarsInv, InTime

LEMMA BarsAlways == Spec => []BarsInv
<1>1. Init => BarsInv
  BY DEF Init, BarsInv, InTime
<1>2. ASSUME BarsInv, [Next]_vars
      PROVE  BarsInv'
  <2>1. CASE \E p \in Prices, gap \in Gaps : Collect(p, gap)
    BY <1>2, <2>1, CollectKeepsBars
  <2>2. CASE UNCHANGED bars
    BY <1>2, <2>2 DEF BarsInv, InTime
  <2> QED
    BY <1>2, <2>1, <2>2 DEF Next, Replay, vars
<1> QED
  BY <1>1, <1>2, PTL DEF Spec

(***************************************************************************)
(* A walk-forward fold: parameters are the same without the bars they are  *)
(* judged on, and over regular bars a window trades as after all bars      *)
(* there are, whatever warm-up its combination needs                       *)
(* (walkforward.run_walkforward, _evaluate).                               *)
(***************************************************************************)
THEOREM WalkForwardIsSound == Spec => []FoldsAreSound
<1>1. BarsInv => FoldsAreSound
  BY BlindIsSound, PrimingIsSound DEF FoldsAreSound
<1> QED
  BY <1>1, BarsAlways, PTL

-----------------------------------------------------------------------------
(* Roundings, and what the arithmetic of a fill is.                        *)

LEMMA Quotient ==
  ASSUME NEW n \in Int, NEW d \in Nat \ {0}
  PROVE  /\ n \div d \in Int /\ n % d \in Nat /\ n % d < d
         /\ n = (n \div d) * d + (n % d)
OBVIOUS

LEMMA HalfUpIs ==
  ASSUME NEW m \in Int
  PROVE  /\ HalfUp(m) \in Int
         /\ -Quantum <= 2 * (HalfUp(m) - m) /\ 2 * (HalfUp(m) - m) <= Quantum
<1>1. Quantum \in Nat \ {0}
  BY QuantumAssumption
<1> DEFINE d == 2 * Quantum
           n == 2 * m + Quantum
           y == n \div d
<1>2. d \in Nat \ {0} /\ n \in Int
  BY <1>1
<1>3. HalfUp(m) = y * Quantum
  BY DEF HalfUp
<1> HIDE DEF d, n
<1>4. y \in Int /\ n % d \in Nat /\ n % d < d /\ n = y * d + (n % d)
  BY <1>2, Quotient
<1> HIDE DEF y
<1>5. y * d = 2 * (y * Quantum) /\ y * Quantum \in Int
  BY <1>1, <1>4 DEF d
<1> DEFINE x == y * Quantum
           r == n % d
<1>6. x \in Int /\ r \in Nat /\ r < d /\ n = 2 * x + r
  BY <1>4, <1>5
<1> HIDE DEF x, r
<1>7. r < 2 * Quantum /\ 2 * m + Quantum = 2 * x + r
  BY <1>6 DEF n, d
<1>8. -Quantum <= 2 * (x - m) /\ 2 * (x - m) <= Quantum
  BY <1>1, <1>6, <1>7
<1> QED
  BY <1>3, <1>6, <1>8 DEF x

LEMMA ToQuantaIs ==
  ASSUME NEW n \in Int, NEW d \in Nat \ {0}
  PROVE  /\ ToQuanta(n, d) \in Int /\ d * ToQuanta(n, d) \in Int /\ d * Quantum \in Nat
         /\ -(d * Quantum) <= 2 * (d * ToQuanta(n, d) - n)
         /\ 2 * (d * ToQuanta(n, d) - n) <= d * Quantum
<1>1. Quantum \in Nat \ {0}
  BY QuantumAssumption
<1> DEFINE q == d * Quantum
           m == 2 * d * Quantum
           k == 2 * n + d * Quantum
           y == k \div m
           x == y * Quantum
<1>2. q \in Nat \ {0}
  BY <1>1
<1>3. m = 2 * q /\ k = 2 * n + q
  BY <1>1
<1>4. ToQuanta(n, d) = x
  BY DEF ToQuanta
<1>5. m \in Nat \ {0} /\ k \in Int
  <2> HIDE DEF q, m, k
  <2> QED
    BY <1>2, <1>3
<1> HIDE DEF m, k
<1>6. y \in Int /\ k % m \in Nat /\ k % m < m /\ k = y * m + (k % m)
  BY <1>5, Quotient
<1> DEFINE r == k % m
<1> HIDE DEF y, r
<1>7. r \in Nat /\ r < m /\ k = y * m + r /\ y \in Int
  BY <1>6 DEF r
<1>8. y * (2 * (d * Quantum)) = 2 * (d * (y * Quantum))
  BY <1>1, <1>7
<1>9. x \in Int
  BY <1>1, <1>7
<1>10. d * x \in Int
  <2> HIDE DEF x
  <2> QED
    BY <1>9
<1> DEFINE z == d * x
<1>11. y * m = 2 * z
  BY <1>3, <1>8
<1> HIDE DEF x, z, q
<1>12. z \in Int /\ k = 2 * z + r
  BY <1>7, <1>10, <1>11 DEF z
<1>13. -q <= 2 * (z - n) /\ 2 * (z - n) <= q
  BY <1>2, <1>3, <1>7, <1>12
<1> QED
  BY <1>2, <1>4, <1>9, <1>10, <1>13 DEF z, q

LEMMA HalfEvenIs ==
  ASSUME NEW n \in Int, NEW d \in Nat \ {0}
  PROVE  HalfEven(n, d) \in Int
<1>1. Quantum \in Nat \ {0} /\ d * Quantum \in Nat \ {0}
  BY QuantumAssumption
<1> DEFINE down == n \div (d * Quantum)
           up == \/ 2 * (n % (d * Quantum)) > d * Quantum
                 \/ 2 * (n % (d * Quantum)) = d * Quantum /\ down % 2 = 1
           x == IF up THEN down + 1 ELSE down
<1>2. down \in Int
  <2> DEFINE m == d * Quantum
  <2> HIDE DEF m
  <2> QED
    BY <1>1, Quotient DEF m
<1>3. HalfEven(n, d) = x * Quantum
  BY DEF HalfEven
<1> HIDE DEF down, up
<1>4. x \in Int
  BY <1>2
<1> HIDE DEF x
<1> QED
  BY <1>1, <1>3, <1>4

LEMMA RoundEvenIs ==
  ASSUME NEW n \in Int, NEW d \in Nat \ {0}
  PROVE  RoundEven(n, d) \in Int
<1>1. n \div d \in Int
  BY Quotient
<1> DEFINE down == n \div d
           up == \/ 2 * (n % d) > d
                 \/ 2 * (n % d) = d /\ down % 2 = 1
<1>2. RoundEven(n, d) = IF up THEN down + 1 ELSE down
  BY DEF RoundEven
<1> HIDE DEF down, up
<1> QED
  BY <1>1, <1>2 DEF down

LEMMA FillIs ==
  ASSUME NEW p \in Nat \ {0}, NEW qty \in Int, NEW s \in Symbols
  PROVE  /\ BuyPrice(p) \in Nat \ {0} /\ SellPrice(p) \in Nat
         /\ \A x \in Nat : /\ Fee(x, qty) \in Int /\ Cost(x, qty) \in Int
                           /\ Proceeds(x, qty) \in Int /\ Tax(s, x, qty) \in Int
<1>1. SlipNum \in Nat /\ SlipDen \in Nat \ {0} /\ SlipNum <= SlipDen /\ TaxNum \in Nat
      /\ TaxDen \in Nat \ {0}
  BY BrokerAssumption
<1> DEFINE slip == (p * SlipNum) \div SlipDen
<1>2. p * SlipNum \in Nat /\ p * SlipNum <= p * SlipDen
  <2>1. PICK c \in Nat : SlipDen = SlipNum + c
    BY <1>1, SlipDen - SlipNum \in Nat, SlipDen = SlipNum + (SlipDen - SlipNum)
  <2>2. p * SlipDen = p * SlipNum + p * c /\ p * c \in Nat /\ p * SlipNum \in Nat
    BY <1>1, <2>1
  <2> QED
    BY <2>2
<1>3. slip \in Nat /\ slip <= p
  <2> DEFINE n == p * SlipNum
  <2>1. n \in Nat /\ n <= p * SlipDen
    BY <1>2
  <2> HIDE DEF n
  <2>2. n \div SlipDen \in Nat /\ n % SlipDen \in Nat
        /\ n = (n \div SlipDen) * SlipDen + (n % SlipDen)
    <3>1. n \div SlipDen \in Int /\ n % SlipDen \in Nat
          /\ n = (n \div SlipDen) * SlipDen + (n % SlipDen)
      BY <1>1, <2>1, Quotient
    <3>2. n \div SlipDen >= 0
      BY <1>1, <2>1
    <3> QED
      BY <3>1, <3>2
  <2> DEFINE y == n \div SlipDen
             r == n % SlipDen
  <2> HIDE DEF y, r
  <2>3. y \in Nat /\ r \in Nat /\ y * SlipDen + r <= p * SlipDen
    BY <2>1, <2>2 DEF y, r
  <2>4. y * SlipDen <= p * SlipDen
    BY <1>1, <2>3
  <2>5. y <= p
    BY <1>1, <2>3, <2>4, MoreTimes
  <2> QED
    BY <2>3, <2>5 DEF y, n
<1>4. BuyPrice(p) = p + slip /\ SellPrice(p) = p - slip
  BY DEF BuyPrice, SellPrice
<1>5. BuyPrice(p) \in Nat \ {0} /\ SellPrice(p) \in Nat
  <2> HIDE DEF slip
  <2> QED
    BY <1>3, <1>4
<1>6. ASSUME NEW x \in Nat
      PROVE  /\ Fee(x, qty) \in Int /\ Cost(x, qty) \in Int
             /\ Proceeds(x, qty) \in Int /\ Tax(s, x, qty) \in Int
  <2>1. x * qty \in Int
    OBVIOUS
  <2>2. x * qty * FeeNum \in Int /\ x * qty * TaxNum \in Int
    BY <1>1, <2>1, FeeAssumption
  <2>3. HalfEven(x * qty * FeeNum, FeeDen) \in Int
    BY <2>2, HalfEvenIs, FeeAssumption
  <2>4. HalfEven(x * qty * TaxNum, TaxDen) \in Int
    BY <1>1, <2>2, HalfEvenIs
  <2>5. Tax(s, x, qty) \in Int
    BY <2>4 DEF Tax
  <2>6. Fee(x, qty) \in Int
    BY <2>3 DEF Fee
  <2> QED
    BY <2>1, <2>5, <2>6 DEF Cost, Proceeds
<1> QED
  BY <1>5, <1>6

-----------------------------------------------------------------------------
(* Sums over the symbols.  A sum takes an element out of a set at a time.  *)

Pick(s) == CHOOSE x \in s : TRUE

Adds(g, f, D) ==
  g = [s \in D |-> IF s = {} THEN 0 ELSE f[Pick(s)] + g[s \ {Pick(s)}]]

LEMMA PickIn ==
  ASSUME NEW s, s # {}
  PROVE  Pick(s) \in s
BY DEF Pick

LEMMA AddsExists ==
  ASSUME NEW f, NEW S, IsFiniteSet(S)
  PROVE  \E g : Adds(g, f, SUBSET S)
<1> DEFINE D(n) == {s \in SUBSET S : Cardinality(s) <= n}
           Bad == {n \in Nat : ~ \E g : Adds(g, f, D(n))}
<1>1. \A s \in SUBSET S : IsFiniteSet(s) /\ Cardinality(s) \in Nat
  BY FS_Subset, FS_CardinalityType
<1>2. Bad = {}
  <2> SUFFICES ASSUME Bad # {} PROVE FALSE
    OBVIOUS
  <2>1. \E n \in Bad : \A m \in Bad : ~ (<<m, n>> \in OpToRel(<, Nat))
    BY WFMin, NatLessThanWellFounded
  <2>2. PICK n \in Bad : \A m \in Bad : ~ (m < n)
    <3>1. PICK n \in Bad : \A m \in Bad : ~ (<<m, n>> \in OpToRel(<, Nat))
      BY <2>1
    <3>2. \A m \in Bad : m < n => <<m, n>> \in OpToRel(<, Nat)
      BY DEF OpToRel
    <3> QED
      BY <3>1, <3>2
  <2>3. CASE n = 0
    <3>1. \A s \in D(0) : s = {}
      BY <1>1, FS_EmptySet
    <3>2. Adds([s \in D(0) |-> 0], f, D(0))
      BY <3>1 DEF Adds
    <3> QED
      BY <2>3, <3>2
  <2>4. CASE n # 0
    <3>1. n - 1 \in Nat /\ n - 1 \notin Bad
      <4>1. n \in Nat /\ n # 0
        BY <2>4
      <4>2. n - 1 \in Nat /\ n - 1 < n
        BY <4>1
      <4> HIDE DEF Bad
      <4> QED
        BY <2>2, <4>2
    <3>2. PICK g : Adds(g, f, D(n - 1))
      BY <3>1
    <3> DEFINE h == [s \in D(n) |->
                       IF s = {} THEN 0 ELSE f[Pick(s)] + g[s \ {Pick(s)}]]
    <3>3. ASSUME NEW s \in D(n), s # {}
          PROVE  h[s \ {Pick(s)}] = g[s \ {Pick(s)}]
      <4> DEFINE t == s \ {Pick(s)}
      <4>1. t \in D(n - 1) /\ t \in D(n)
        <5>1. Pick(s) \in s /\ s \in SUBSET S
          BY <3>3, PickIn
        <5>2. Cardinality(s) = Cardinality(t) + 1 /\ Cardinality(t) \in Nat
          BY <1>1, <5>1, OneLess
        <5> QED
          BY <5>1, <5>2
      <4> HIDE DEF D
      <4> QED
        BY <3>2, <4>1 DEF Adds
    <3>4. Adds(h, f, D(n))
      <4> HIDE DEF D
      <4>1. h = [s \in D(n) |->
                   IF s = {} THEN 0 ELSE f[Pick(s)] + h[s \ {Pick(s)}]]
        BY <3>3
      <4> HIDE DEF h
      <4> QED
        BY <4>1 DEF Adds
    <3> QED
      BY <3>4
  <2> QED
    BY <2>3, <2>4
<1>3. Cardinality(S) \in Nat
  BY <1>1
<1>4. D(Cardinality(S)) = SUBSET S
  BY <1>1, FS_Subset
<1> HIDE DEF D
<1> QED
  BY <1>2, <1>3, <1>4

LEMMA SumsAreInt ==
  ASSUME NEW S, IsFiniteSet(S), NEW f, \A x \in S : f[x] \in Int,
         NEW g, Adds(g, f, SUBSET S)
  PROVE  \A s \in SUBSET S : g[s] \in Int
<1> DEFINE Bad == {s \in SUBSET S : g[s] \notin Int}
<1> SUFFICES ASSUME Bad # {} PROVE FALSE
  OBVIOUS
<1>2. \A s \in Bad : IsFiniteSet(s)
  BY FS_Subset
<1>3. PICK s \in Bad : \A t \in Bad : Cardinality(s) <= Cardinality(t)
  BY <1>2, Smallest
<1>4. g[s] = IF s = {} THEN 0 ELSE f[Pick(s)] + g[s \ {Pick(s)}]
  BY DEF Adds
<1>5. s # {} /\ Pick(s) \in s /\ f[Pick(s)] \in Int
  BY <1>4, PickIn
<1>6. s \ {Pick(s)} \notin Bad
  BY <1>2, <1>3, <1>5, OneLess
<1> QED
  BY <1>4, <1>5, <1>6

\* A sum of which one number changes.
LEMMA SumChanges ==
  ASSUME NEW S, IsFiniteSet(S), NEW f, \A x \in S : f[x] \in Int,
         NEW h, \A x \in S : h[x] \in Int, NEW y \in S, \A x \in S : x = y \/ h[x] = f[x],
         NEW g, Adds(g, f, SUBSET S), NEW k, Adds(k, h, SUBSET S)
  PROVE  g[S] \in Int /\ k[S] \in Int /\ k[S] = g[S] + (h[y] - f[y])
<1> DEFINE d == h[y] - f[y]
           Good(s) == k[s] = g[s] + (IF y \in s THEN d ELSE 0)
           Bad == {s \in SUBSET S : ~ Good(s)}
<1>1. (\A s \in SUBSET S : g[s] \in Int) /\ (\A s \in SUBSET S : k[s] \in Int)
  BY SumsAreInt
<1>2. d \in Int
  OBVIOUS
<1>3. Bad = {}
  <2> SUFFICES ASSUME Bad # {} PROVE FALSE
    OBVIOUS
  <2>1. \A s \in Bad : IsFiniteSet(s)
    BY FS_Subset
  <2> HIDE DEF Bad
  <2>2. PICK s \in Bad : \A t \in Bad : Cardinality(s) <= Cardinality(t)
    BY <2>1, Smallest
  <2>3. s \in SUBSET S /\ ~ Good(s)
    BY DEF Bad
  <2> DEFINE c == Pick(s)
             r == s \ {c}
  <2>4. /\ g[s] = IF s = {} THEN 0 ELSE f[c] + g[r]
        /\ k[s] = IF s = {} THEN 0 ELSE h[c] + k[r]
    BY <2>3 DEF Adds
  <2>5. s # {}
    BY <2>3, <2>4
  <2>6. c \in s /\ c \in S
    BY <2>3, <2>5, PickIn
  <2>7. Good(r)
    <3>1. r \notin Bad
      BY <2>1, <2>2, <2>6, OneLess
    <3> QED
      BY <2>3, <3>1 DEF Bad
  <2> HIDE DEF c, d
  <2>8. g[r] \in Int /\ k[r] \in Int /\ f[c] \in Int /\ h[c] \in Int
    BY <1>1, <2>3, <2>6
  <2>9. CASE c = y
    <3>1. k[r] = g[r] + 0
      BY <2>7, <2>9
    <3>2. k[s] = g[s] + d
      BY <2>4, <2>5, <2>8, <2>9, <3>1 DEF d
    <3> QED
      BY <2>3, <2>6, <2>9, <3>2
  <2>10. CASE c # y
    <3>1. h[c] = f[c] /\ (y \in r <=> y \in s)
      BY <2>6, <2>10
    <3> QED
      BY <1>2, <2>3, <2>4, <2>5, <2>7, <2>8, <3>1
  <2> QED
    BY <2>9, <2>10
<1>4. Good(S)
  BY <1>3
<1> QED
  BY <1>1, <1>4

-----------------------------------------------------------------------------
(* The account: its type, its books, and what a fill does to both.         *)

Positions == [qty : Nat, avg : Int, fee : Int]
Trades == [n : Int, pnl : Int, buyFee : Int, sellFee : Int, tax : Int]
Brokers == [cash : Int, pos : [Symbols -> Positions], last : [Symbols -> Int],
            closed : Trades, slack : Int]

AtCost(b) == MapThenSumSet(LAMBDA s : b.pos[s].qty * b.pos[s].avg, Symbols)
Books(b) == b.cash * Lot + AtCost(b)
Paid(b) == Initial * Lot + b.closed.pnl
Balanced(b) == 2 * Distance(Books(b), Paid(b)) <= b.slack

\* What one symbol, the cash and the trades have to do with the books.
Share(b, s) == b.cash * Lot + b.pos[s].qty * b.pos[s].avg - b.closed.pnl

\* From b to c only s has moved, by what rounding allows.
Moves(b, c, s) ==
  /\ \A x \in Symbols : x = s \/ c.pos[x] = b.pos[x]
  /\ b.slack - c.slack <= 2 * (Share(c, s) - Share(b, s))
  /\ 2 * (Share(c, s) - Share(b, s)) <= c.slack - b.slack

Costs(g, b, D) ==
  g = [s \in D |-> IF s = {} THEN 0
                   ELSE b.pos[Pick(s)].qty * b.pos[Pick(s)].avg + g[s \ {Pick(s)}]]

LEMMA AtCostIsFold ==
  ASSUME NEW b
  PROVE  AtCost(b) = (CHOOSE g : Costs(g, b, SUBSET Symbols))[Symbols]
BY DEF AtCost, MapThenSumSet, MapThenFoldSet, Costs, Pick

LEMMA AtCostSum ==
  ASSUME NEW b
  PROVE  \E g : /\ Adds(g, [s \in Symbols |-> b.pos[s].qty * b.pos[s].avg], SUBSET Symbols)
                /\ AtCost(b) = g[Symbols]
<1> DEFINE f == [s \in Symbols |-> b.pos[s].qty * b.pos[s].avg]
           cost(s) == b.pos[s].qty * b.pos[s].avg
<1>1. IsFiniteSet(Symbols)
  BY BacktestAssumption
<1>2. ASSUME NEW s \in SUBSET Symbols, s # {}
      PROVE  f[Pick(s)] = cost(Pick(s))
  <2>1. Pick(s) \in Symbols
    BY <1>2, PickIn
  <2> QED
    BY <2>1
<1>3. \A g : Adds(g, f, SUBSET Symbols) <=> Costs(g, b, SUBSET Symbols)
  <2> TAKE g
  <2> HIDE DEF f
  <2>1. [s \in SUBSET Symbols |-> IF s = {} THEN 0 ELSE f[Pick(s)] + g[s \ {Pick(s)}]]
          = [s \in SUBSET Symbols |-> IF s = {} THEN 0 ELSE cost(Pick(s)) + g[s \ {Pick(s)}]]
    <3> HIDE DEF cost
    <3> QED
      BY <1>2
  <2> QED
    BY <2>1 DEF Adds, Costs
<1> HIDE DEF f
<1>4. \E g : Costs(g, b, SUBSET Symbols)
  BY <1>1, <1>3, AddsExists
<1> DEFINE g0 == CHOOSE g : Costs(g, b, SUBSET Symbols)
<1>5. Costs(g0, b, SUBSET Symbols)
  BY <1>4
<1>6. AtCost(b) = g0[Symbols]
  BY AtCostIsFold
<1> HIDE DEF g0
<1>7. Adds(g0, f, SUBSET Symbols)
  BY <1>3, <1>5
<1> QED
  BY <1>6, <1>7 DEF f

LEMMA BrokerFields ==
  ASSUME NEW b \in Brokers
  PROVE  /\ b.cash \in Int /\ b.slack \in Int /\ b.closed \in Trades /\ b.closed.pnl \in Int
         /\ b.pos \in [Symbols -> Positions] /\ b.last \in [Symbols -> Int]
         /\ \A s \in Symbols : /\ b.pos[s] \in Positions /\ b.last[s] \in Int
                               /\ b.pos[s].qty \in Nat /\ b.pos[s].avg \in Int
                               /\ b.pos[s].fee \in Int
                               /\ b.pos[s].qty * b.pos[s].avg \in Int
<1>1. /\ b.cash \in Int /\ b.slack \in Int /\ b.closed \in Trades
      /\ b.pos \in [Symbols -> Positions] /\ b.last \in [Symbols -> Int]
  BY DEF Brokers
<1>2. b.closed.pnl \in Int
  BY <1>1 DEF Trades
<1>3. \A s \in Symbols : b.pos[s] \in Positions /\ b.last[s] \in Int
  BY <1>1
<1>4. \A x \in Positions : /\ x.qty \in Nat /\ x.avg \in Int /\ x.fee \in Int
                           /\ x.qty * x.avg \in Int
  BY DEF Positions
<1> QED
  BY <1>1, <1>2, <1>3, <1>4

LEMMA BooksMove ==
  ASSUME NEW b \in Brokers, NEW c \in Brokers, NEW s \in Symbols, Moves(b, c, s), Balanced(b)
  PROVE  Balanced(c)
<1> DEFINE f == [x \in Symbols |-> b.pos[x].qty * b.pos[x].avg]
           h == [x \in Symbols |-> c.pos[x].qty * c.pos[x].avg]
<1>1. \A x \in Symbols : f[x] \in Int /\ h[x] \in Int
  BY BrokerFields
<1>2. \A x \in Symbols : x = s \/ h[x] = f[x]
  BY DEF Moves
<1>3. IsFiniteSet(Symbols)
  BY BacktestAssumption
<1>4. f[s] = b.pos[s].qty * b.pos[s].avg /\ h[s] = c.pos[s].qty * c.pos[s].avg
  OBVIOUS
<1>5. PICK g : Adds(g, f, SUBSET Symbols) /\ AtCost(b) = g[Symbols]
  BY AtCostSum
<1>6. PICK k : Adds(k, h, SUBSET Symbols) /\ AtCost(c) = k[Symbols]
  BY AtCostSum
<1> HIDE DEF f, h
<1>7. AtCost(b) \in Int /\ AtCost(c) \in Int /\ AtCost(c) = AtCost(b) + (h[s] - f[s])
  BY <1>1, <1>2, <1>3, <1>5, <1>6, SumChanges
<1> DEFINE B == b.cash * Lot
           C == c.cash * Lot
           F == f[s]
           H == h[s]
           I == Initial * Lot
<1>8. B \in Int /\ C \in Int /\ I \in Int
  BY BrokerFields, BrokerAssumption, FoldAssumption
<1>9. F \in Int /\ H \in Int /\ b.closed.pnl \in Int /\ c.closed.pnl \in Int
      /\ b.slack \in Int /\ c.slack \in Int
  BY <1>1, BrokerFields
<1>10. Share(b, s) = B + F - b.closed.pnl /\ Share(c, s) = C + H - c.closed.pnl
  BY <1>4 DEF Share
<1>11. /\ Books(b) = B + AtCost(b) /\ Books(c) = C + AtCost(c)
       /\ Paid(b) = I + b.closed.pnl /\ Paid(c) = I + c.closed.pnl
  BY DEF Books, Paid
<1>12. AtCost(c) = AtCost(b) + (H - F)
  BY <1>7
<1>13. /\ b.slack - c.slack <= 2 * ((C + H - c.closed.pnl) - (B + F - b.closed.pnl))
       /\ 2 * ((C + H - c.closed.pnl) - (B + F - b.closed.pnl)) <= c.slack - b.slack
  BY <1>10 DEF Moves
<1> HIDE DEF B, C, F, H, I
<1>14. /\ -(b.slack) <= 2 * (Books(b) - Paid(b)) /\ 2 * (Books(b) - Paid(b)) <= b.slack
       /\ Books(b) \in Int /\ Paid(b) \in Int
  BY <1>7, <1>8, <1>9, <1>11 DEF Balanced, Distance
<1>15. /\ -(c.slack) <= 2 * (Books(c) - Paid(c)) /\ 2 * (Books(c) - Paid(c)) <= c.slack
       /\ Books(c) \in Int /\ Paid(c) \in Int
  BY <1>7, <1>8, <1>9, <1>11, <1>12, <1>13, <1>14
<1> QED
  BY <1>9, <1>15 DEF Balanced, Distance

\* A quantity in whole lots has no part of one left.
LEMMA WholeLotsIs ==
  ASSUME NEW s \in Symbols, NEW w \in Int
  PROVE  WholeLots(s, w) \in Int /\ WholeLots(s, WholeLots(s, w)) = WholeLots(s, w)
<1>1. Lot \in Nat \ {0}
  BY BrokerAssumption
<1>2. CASE s \notin Stocks
  BY <1>2 DEF WholeLots
<1>3. CASE s \in Stocks
  <2> DEFINE y == w \div Lot
             x == w - (w % Lot)
             z == x \div Lot
             r == x % Lot
  <2>1. y \in Int /\ w % Lot \in Nat /\ w = y * Lot + (w % Lot)
    BY <1>1, Quotient
  <2>2. x \in Int /\ x = y * Lot
    <3> DEFINE u == w % Lot
               v == y * Lot
    <3>1. v \in Int /\ u \in Nat /\ w = v + u
      BY <1>1, <2>1
    <3> HIDE DEF u, v
    <3>2. w - u \in Int /\ w - u = v
      BY <3>1
    <3> QED
      BY <3>2 DEF u, v
  <2>3. WholeLots(s, w) = x
    BY <1>3 DEF WholeLots
  <2> HIDE DEF x, y
  <2>4. z \in Int /\ r \in Nat /\ r < Lot /\ x = z * Lot + r
    BY <1>1, <2>2, Quotient
  <2> HIDE DEF z, r
  <2>5. y * Lot = z * Lot + r
    BY <2>2, <2>4
  <2>6. r = 0
    <3>1. (y - z) * Lot = y * Lot - z * Lot
      BY <1>1, <2>1, <2>4, TimesAdd
    <3> DEFINE k == y - z
    <3>2. k \in Int /\ k * Lot = r
      <4>1. y * Lot \in Int /\ z * Lot \in Int
        BY <1>1, <2>1, <2>4
      <4> QED
        BY <2>1, <2>4, <2>5, <3>1, <4>1
    <3> HIDE DEF k
    <3>3. k < 1
      <4> SUFFICES ASSUME 1 <= k PROVE FALSE
        BY <3>2
      <4>1. 1 * Lot <= k * Lot
        BY <1>1, <3>2, MoreTimes
      <4> QED
        BY <1>1, <2>4, <3>2, <4>1
    <3>4. k > -1
      <4> SUFFICES ASSUME k <= -1 PROVE FALSE
        BY <3>2
      <4>1. k * Lot <= (-1) * Lot
        BY <1>1, <3>2, MoreTimes
      <4> QED
        BY <1>1, <2>4, <3>2, <4>1
    <3>5. k = 0
      BY <3>2, <3>3, <3>4
    <3> QED
      BY <1>1, <3>2, <3>5
  <2>7. WholeLots(s, x) = x - r
    BY <1>3 DEF WholeLots, r
  <2> QED
    BY <2>2, <2>3, <2>6, <2>7
<1> QED
  BY <1>2, <1>3

\* What a rise from b to c by a purchase of q is, and a sale of q.
Bought(b, c, s, q) ==
  /\ q > 0 /\ c.pos[s].qty = b.pos[s].qty + q
  /\ \A x \in Symbols : x = s \/ c.pos[x] = b.pos[x]

Gave(b, c, s, q) ==
  /\ q > 0 /\ q <= b.pos[s].qty /\ c.pos[s].qty = b.pos[s].qty - q
  /\ \A x \in Symbols : x = s \/ c.pos[x] = b.pos[x]

LEMMA BuyIs ==
  ASSUME NEW b \in Brokers, NEW s \in Symbols, NEW w \in Int, NEW price \in Nat \ {0}
  PROVE  /\ Buy(b, s, w, price) \in Brokers
         /\ \/ Buy(b, s, w, price) = b
            \/ /\ Bought(b, Buy(b, s, w, price), s, WholeLots(s, w))
               /\ Moves(b, Buy(b, s, w, price), s)
<1> DEFINE qty == WholeLots(s, w)
           p == BuyPrice(price)
           cost == Cost(p, qty)
           unit == ToQuanta(cost * Lot, qty)
           old == b.pos[s]
           sum == old.qty + qty
           avg == ToQuanta(old.qty * old.avg + qty * unit, sum)
           fee == Fee(p, qty)
           cash == HalfUp(b.cash - cost)
           new == IF old.qty = 0 THEN [qty |-> qty, avg |-> unit, fee |-> fee]
                  ELSE [old EXCEPT !.qty = sum, !.avg = avg]
           more == Quantum * (Lot + qty + IF old.qty = 0 THEN 0 ELSE sum)
           c == [b EXCEPT !.cash = cash, !.pos[s] = new, !.slack = @ + more]
<1>1. CASE qty <= 0 \/ price <= 0 \/ b.cash < cost
  BY <1>1 DEF Buy
<1>2. CASE ~ (qty <= 0 \/ price <= 0 \/ b.cash < cost)
  <2>1. Buy(b, s, w, price) = c
    BY <1>2 DEF Buy
  <2>2. qty \in Int
    BY WholeLotsIs
  <2>3. p \in Nat /\ cost \in Int /\ fee \in Int
    BY <2>2, FillIs
  <2> HIDE DEF qty, p, cost, fee
  <2>4. qty \in Nat \ {0}
    BY <1>2, <2>2
  <2>5. Lot \in Nat \ {0} /\ Quantum \in Nat \ {0} /\ cost * Lot \in Int
    BY <2>3, BrokerAssumption, QuantumAssumption
  <2>6. /\ b.cash \in Int /\ b.slack \in Int /\ b.closed.pnl \in Int
        /\ b.pos \in [Symbols -> Positions]
        /\ old \in Positions /\ old.qty \in Nat /\ old.avg \in Int /\ old.fee \in Int
        /\ old.qty * old.avg \in Int
    BY BrokerFields
  <2>7. /\ unit \in Int /\ qty * unit \in Int /\ qty * Quantum \in Nat
        /\ -(qty * Quantum) <= 2 * (qty * unit - cost * Lot)
        /\ 2 * (qty * unit - cost * Lot) <= qty * Quantum
    BY <2>4, <2>5, ToQuantaIs
  <2>8. cash \in Int /\ -Quantum <= 2 * (cash - (b.cash - cost))
        /\ 2 * (cash - (b.cash - cost)) <= Quantum
    <3>1. b.cash - cost \in Int
      BY <2>3, <2>6
    <3> QED
      BY <3>1, HalfUpIs
  <2> HIDE DEF unit, cash
  <2>9. sum \in Nat \ {0}
    BY <2>4, <2>6
  <2> HIDE DEF sum
  <2>10. /\ avg \in Int /\ sum * avg \in Int /\ sum * Quantum \in Nat
         /\ -(sum * Quantum) <= 2 * (sum * avg - (old.qty * old.avg + qty * unit))
         /\ 2 * (sum * avg - (old.qty * old.avg + qty * unit)) <= sum * Quantum
    <3>1. old.qty * old.avg + qty * unit \in Int
      BY <2>6, <2>7
    <3> QED
      BY <2>9, <3>1, ToQuantaIs
  <2> HIDE DEF avg, old
  <2>11. new \in Positions
    BY <2>3, <2>4, <2>6, <2>7, <2>9, <2>10 DEF Positions
  <2>12. /\ new.qty = old.qty + qty
         /\ new.qty * new.avg = IF old.qty = 0 THEN qty * unit ELSE sum * avg
    <3>1. CASE old.qty = 0
      BY <2>4, <2>7, <3>1
    <3>2. CASE old.qty # 0
      BY <2>6, <3>2 DEF Positions, sum
    <3> QED
      BY <3>1, <3>2
  <2> HIDE DEF new
  <2>13. more = Quantum * Lot + qty * Quantum + (IF old.qty = 0 THEN 0 ELSE sum * Quantum)
         /\ more \in Int
    BY <2>4, <2>5, <2>9
  <2> HIDE DEF more
  <2>14. c \in Brokers
    <3> DEFINE pos == [b.pos EXCEPT ![s] = new]
    <3>1. pos \in [Symbols -> Positions]
      BY <2>6, <2>11
    <3>2. c = [b EXCEPT !.cash = cash, !.pos = pos, !.slack = b.slack + more]
      BY DEF Brokers
    <3>3. b.slack + more \in Int
      BY <2>6, <2>13
    <3>4. \A z \in Int : [b EXCEPT !.cash = cash, !.pos = pos, !.slack = z] \in Brokers
      <4> HIDE DEF pos
      <4> QED
        BY <2>8, <3>1 DEF Brokers
    <3> HIDE DEF pos, c
    <3> QED
      BY <3>2, <3>3, <3>4
  <2>15. /\ c.cash = cash /\ c.slack = b.slack + more /\ c.closed = b.closed
         /\ c.pos = [b.pos EXCEPT ![s] = new]
    BY DEF Brokers
  <2> HIDE DEF c
  <2>16. c.pos[s] = new /\ \A x \in Symbols : x = s \/ c.pos[x] = b.pos[x]
    BY <2>6, <2>15
  <2>17. Bought(b, c, s, qty)
    BY <2>4, <2>12, <2>16 DEF Bought, old
  <2>18. Moves(b, c, s)
    <3> DEFINE A == new.qty * new.avg
               O == old.qty * old.avg
               U == qty * unit
               X == cost * Lot
               S == sum * avg
               QL == Quantum * Lot
               QQ == qty * Quantum
               QS == sum * Quantum
    <3>1. O \in Int /\ U \in Int /\ X \in Int /\ S \in Int /\ QQ \in Nat /\ QS \in Nat
          /\ QL \in Nat
      BY <2>5, <2>6, <2>7, <2>10
    <3>2. /\ -QL <= 2 * (cash * Lot - (b.cash * Lot - X))
          /\ 2 * (cash * Lot - (b.cash * Lot - X)) <= QL
      <4> DEFINE e == 2 * (cash - (b.cash - cost))
      <4>1. e \in Int /\ -Quantum <= e /\ e <= Quantum
        BY <2>3, <2>6, <2>8
      <4>2. e * Lot = 2 * (cash * Lot - (b.cash * Lot - cost * Lot))
        BY <2>3, <2>5, <2>6, <2>8
      <4> HIDE DEF e
      <4>3. (-Quantum) * Lot <= e * Lot /\ e * Lot <= Quantum * Lot
        BY <2>5, <4>1, MoreTimes
      <4>4. (-Quantum) * Lot = -(Quantum * Lot)
        BY <2>5
      <4> QED
        BY <4>2, <4>3, <4>4
    <3>3. cash * Lot \in Int /\ b.cash * Lot \in Int
      BY <2>5, <2>6, <2>8
    <3>4. -QQ <= 2 * (U - X) /\ 2 * (U - X) <= QQ
      BY <2>7
    <3>5. -QS <= 2 * (S - (O + U)) /\ 2 * (S - (O + U)) <= QS
      BY <2>10
    <3>6. A = IF old.qty = 0 THEN U ELSE S
      BY <2>12
    <3>7. old.qty = 0 => O = 0
      BY <2>6
    <3>8. more = QL + QQ + (IF old.qty = 0 THEN 0 ELSE QS)
      BY <2>13
    <3> DEFINE C == cash * Lot
               B == b.cash * Lot
    <3>9. Share(c, s) = C + A - b.closed.pnl /\ Share(b, s) = B + O - b.closed.pnl
      BY <2>15, <2>16 DEF Share, old
    <3>10. C \in Int /\ B \in Int /\ -QL <= 2 * (C - (B - X)) /\ 2 * (C - (B - X)) <= QL
      BY <3>2, <3>3
    <3> HIDE DEF A, O, U, X, S, QL, QQ, QS, C, B
    <3>11. A \in Int
      BY <3>1, <3>6
    <3>12. Share(c, s) - Share(b, s) = (C - B) + (A - O)
      BY <2>6, <3>1, <3>9, <3>10, <3>11
    <3>13. -more <= 2 * ((C - B) + (A - O)) /\ 2 * ((C - B) + (A - O)) <= more
      BY <3>1, <3>4, <3>5, <3>6, <3>7, <3>8, <3>10
    <3> QED
      BY <2>6, <2>13, <2>15, <2>16, <3>12, <3>13 DEF Moves
  <2> QED
    BY <2>1, <2>14, <2>17, <2>18 DEF qty
<1> QED
  BY <1>1, <1>2

LEMMA SellIs ==
  ASSUME NEW b \in Brokers, NEW s \in Symbols, NEW w \in Int, NEW price \in Nat \ {0}
  PROVE  /\ Sell(b, s, w, price) \in Brokers
         /\ \/ /\ Sell(b, s, w, price) = b
               /\ ~ (0 < WholeLots(s, w) /\ WholeLots(s, w) <= b.pos[s].qty)
            \/ /\ Gave(b, Sell(b, s, w, price), s, WholeLots(s, w))
               /\ Moves(b, Sell(b, s, w, price), s)
<1> DEFINE qty == WholeLots(s, w)
           p == SellPrice(price)
           old == b.pos[s]
           tax == Tax(s, p, qty)
           gain == Proceeds(p, qty) - tax
           part == ToQuanta(old.fee * qty, old.qty)
           cash == HalfUp(b.cash + gain)
           new == IF old.qty = qty THEN Flat
                  ELSE [old EXCEPT !.qty = @ - qty, !.fee = @ - part]
           done == [n |-> b.closed.n + 1,
                    pnl |-> b.closed.pnl + gain * Lot - qty * old.avg,
                    buyFee |-> b.closed.buyFee + part,
                    sellFee |-> b.closed.sellFee + Fee(p, qty),
                    tax |-> b.closed.tax + tax]
           c == [b EXCEPT !.cash = cash, !.pos[s] = new, !.closed = done,
                          !.slack = @ + Quantum * Lot]
<1>0. qty \in Int /\ old.qty \in Nat
  BY WholeLotsIs, BrokerFields
<1>1. CASE qty <= 0 \/ price <= 0 \/ old.qty < qty
  <2>1. Sell(b, s, w, price) = b
    BY <1>1 DEF Sell
  <2>2. ~ (0 < qty /\ qty <= old.qty)
    <3> HIDE DEF qty, old
    <3> QED
      BY <1>0, <1>1
  <2> QED
    BY <2>1, <2>2
<1>2. CASE ~ (qty <= 0 \/ price <= 0 \/ old.qty < qty)
  <2>1. Sell(b, s, w, price) = c
    BY <1>2 DEF Sell
  <2>2. p \in Nat /\ Proceeds(p, qty) \in Int /\ tax \in Int /\ Fee(p, qty) \in Int
    BY <1>0, FillIs
  <2> DEFINE fee == Fee(p, qty)
             brought == Proceeds(p, qty)
  <2> HIDE DEF qty, p, tax, fee, brought
  <2>3. qty \in Nat \ {0} /\ qty <= old.qty
    BY <1>0, <1>2
  <2>4. gain \in Int
    BY <2>2 DEF brought
  <2> HIDE DEF gain
  <2>5. Lot \in Nat \ {0} /\ Quantum \in Nat \ {0} /\ Quantum * Lot \in Nat
    BY BrokerAssumption, QuantumAssumption
  <2>6. /\ b.cash \in Int /\ b.slack \in Int /\ b.closed.pnl \in Int
        /\ b.closed \in Trades /\ b.pos \in [Symbols -> Positions]
        /\ old \in Positions /\ old.qty \in Nat /\ old.avg \in Int /\ old.fee \in Int
        /\ old.qty * old.avg \in Int
    BY BrokerFields
  <2>7. part \in Int
    <3>1. old.fee * qty \in Int /\ old.qty \in Nat \ {0}
      BY <2>3, <2>6
    <3> HIDE DEF old
    <3> QED
      BY <3>1, ToQuantaIs
  <2>8. cash \in Int /\ -Quantum <= 2 * (cash - (b.cash + gain))
        /\ 2 * (cash - (b.cash + gain)) <= Quantum
    <3>1. b.cash + gain \in Int
      BY <2>4, <2>6
    <3> QED
      BY <3>1, HalfUpIs
  <2> HIDE DEF part, cash, old
  <2>9. new \in Positions /\ new.qty = old.qty - qty
    <3>1. CASE old.qty = qty
      BY <2>3, <3>1 DEF Positions, Flat
    <3>2. CASE old.qty # qty
      <4>1. old.qty - qty \in Nat /\ old.fee - part \in Int
        BY <2>3, <2>6, <2>7
      <4> QED
        BY <2>6, <3>2, <4>1 DEF Positions
    <3> QED
      BY <3>1, <3>2
  <2>10. new.qty * new.avg = old.qty * old.avg - qty * old.avg /\ new.qty * new.avg \in Int
    <3>1. CASE old.qty = qty
      BY <2>3, <2>6, <3>1 DEF Flat
    <3>2. CASE old.qty # qty
      <4>1. new.avg = old.avg
        BY <2>6, <3>2 DEF Positions
      <4>2. (old.qty - qty) * old.avg = old.qty * old.avg - qty * old.avg
        BY <2>3, <2>6, TimesAdd
      <4>3. (old.qty - qty) * old.avg \in Int
        BY <2>3, <2>6
      <4> QED
        BY <2>9, <4>1, <4>2, <4>3
    <3> QED
      BY <3>1, <3>2
  <2> HIDE DEF new
  <2>11. gain * Lot \in Int /\ qty * old.avg \in Int
    BY <2>3, <2>4, <2>5, <2>6
  <2>12. done \in Trades
    <3>1. /\ b.closed.n \in Int /\ b.closed.buyFee \in Int /\ b.closed.sellFee \in Int
          /\ b.closed.tax \in Int
      BY <2>6 DEF Trades
    <3> DEFINE G == gain * Lot
               A == qty * old.avg
    <3> HIDE DEF G, A
    <3>2. b.closed.pnl + G - A \in Int
      BY <2>6, <2>11 DEF G, A
    <3>3. b.closed.pnl + gain * Lot - qty * old.avg \in Int
      BY <3>2 DEF G, A
    <3> QED
      BY <2>2, <2>7, <3>1, <3>3 DEF Trades
  <2>13. done.pnl = b.closed.pnl + gain * Lot - qty * old.avg
    OBVIOUS
  <2> HIDE DEF done
  <2>14. c \in Brokers
    <3> DEFINE pos == [b.pos EXCEPT ![s] = new]
    <3>1. pos \in [Symbols -> Positions]
      BY <2>6, <2>9
    <3>2. c = [b EXCEPT !.cash = cash, !.pos = pos, !.closed = done,
                        !.slack = b.slack + Quantum * Lot]
      BY DEF Brokers
    <3>3. b.slack + Quantum * Lot \in Int
      BY <2>5, <2>6
    <3>4. \A z \in Int :
            [b EXCEPT !.cash = cash, !.pos = pos, !.closed = done, !.slack = z] \in Brokers
      <4> HIDE DEF pos
      <4> QED
        BY <2>8, <2>12, <3>1 DEF Brokers
    <3> HIDE DEF pos, c
    <3> QED
      BY <3>2, <3>3, <3>4
  <2>15. /\ c.cash = cash /\ c.slack = b.slack + Quantum * Lot /\ c.closed = done
         /\ c.pos = [b.pos EXCEPT ![s] = new]
    BY DEF Brokers
  <2> HIDE DEF c
  <2>16. c.pos[s] = new /\ \A x \in Symbols : x = s \/ c.pos[x] = b.pos[x]
    BY <2>6, <2>15
  <2>17. Gave(b, c, s, qty)
    <3>1. c.pos[s].qty = old.qty - qty
      BY <2>9, <2>16
    <3> QED
      BY <2>3, <2>16, <3>1 DEF Gave, old
  <2>18. Moves(b, c, s)
    <3> DEFINE A == new.qty * new.avg
               O == old.qty * old.avg
               Q == qty * old.avg
               G == gain * Lot
               QL == Quantum * Lot
               C == cash * Lot
               B == b.cash * Lot
    <3>1. /\ -QL <= 2 * (C - (B + G)) /\ 2 * (C - (B + G)) <= QL
      <4> DEFINE e == 2 * (cash - (b.cash + gain))
      <4>1. e \in Int /\ -Quantum <= e /\ e <= Quantum
        BY <2>4, <2>6, <2>8
      <4>2. e * Lot = 2 * (cash * Lot - (b.cash * Lot + gain * Lot))
        BY <2>4, <2>5, <2>6, <2>8
      <4> HIDE DEF e
      <4>3. (-Quantum) * Lot <= e * Lot /\ e * Lot <= Quantum * Lot
        BY <2>5, <4>1, MoreTimes
      <4>4. (-Quantum) * Lot = -(Quantum * Lot)
        BY <2>5
      <4> QED
        BY <4>2, <4>3, <4>4
    <3>2. C \in Int /\ B \in Int /\ O \in Int /\ Q \in Int /\ G \in Int /\ A = O - Q
      BY <2>5, <2>6, <2>8, <2>10, <2>11
    <3>3. Share(c, s) = C + A - (b.closed.pnl + G - Q) /\ Share(b, s) = B + O - b.closed.pnl
      BY <2>13, <2>15, <2>16 DEF Share, old
    <3>4. c.slack = b.slack + QL /\ QL \in Nat
      BY <2>5, <2>15
    <3> HIDE DEF A, O, Q, G, QL, C, B
    <3>5. Share(c, s) - Share(b, s) = C - (B + G)
      BY <2>6, <3>2, <3>3
    <3>6. /\ b.slack - c.slack <= 2 * (Share(c, s) - Share(b, s))
          /\ 2 * (Share(c, s) - Share(b, s)) <= c.slack - b.slack
      BY <2>6, <3>1, <3>2, <3>4, <3>5
    <3> QED
      BY <2>16, <3>6 DEF Moves
  <2> QED
    BY <2>1, <2>14, <2>17, <2>18 DEF qty
<1> QED
  BY <1>1, <1>2

-----------------------------------------------------------------------------
(* The accounts whose books balance, and what keeps an account one.        *)

Sound == {b \in Brokers : Balanced(b)}
Ticks == [sym : Symbols, price : Prices, ts : Nat]

LEMMA BuySound ==
  ASSUME NEW b \in Sound, NEW s \in Symbols, NEW w \in Int, NEW price \in Nat \ {0}
  PROVE  Buy(b, s, w, price) \in Sound
<1> DEFINE c == Buy(b, s, w, price)
<1>1. b \in Brokers /\ Balanced(b)
  BY DEF Sound
<1>2. c \in Brokers /\ (c = b \/ Moves(b, c, s))
  BY <1>1, BuyIs
<1> HIDE DEF c
<1>3. Balanced(c)
  BY <1>1, <1>2, BooksMove
<1> QED
  BY <1>2, <1>3 DEF Sound, c

LEMMA SellSound ==
  ASSUME NEW b \in Sound, NEW s \in Symbols, NEW w \in Int, NEW price \in Nat \ {0}
  PROVE  Sell(b, s, w, price) \in Sound
<1> DEFINE c == Sell(b, s, w, price)
<1>1. b \in Brokers /\ Balanced(b)
  BY DEF Sound
<1>2. c \in Brokers /\ (c = b \/ Moves(b, c, s))
  BY <1>1, SellIs
<1> HIDE DEF c
<1>3. Balanced(c)
  BY <1>1, <1>2, BooksMove
<1> QED
  BY <1>2, <1>3 DEF Sound, c

LEMMA SellAllSound ==
  ASSUME NEW b \in Sound, NEW s \in Symbols, NEW price \in Nat \ {0}
  PROVE  SellAll(b, s, price) \in Sound
<1>1. b.pos[s].qty \in Int
  BY BrokerFields DEF Sound
<1> QED
  BY <1>1, SellSound DEF SellAll

LEMMA TickIs ==
  ASSUME NEW t \in Ticks
  PROVE  t.sym \in Symbols /\ t.price \in Nat \ {0} /\ t.ts \in Nat
<1>1. t.sym \in Symbols /\ t.price \in Prices /\ t.ts \in Nat
  BY DEF Ticks
<1> QED
  BY <1>1, BacktestAssumption

LEMMA PricedIs ==
  ASSUME NEW b \in Brokers, NEW t \in Ticks
  PROVE  Priced(b, t) \in Brokers /\ Priced(b, t).pos = b.pos /\ Priced(b, t).cash = b.cash
<1> DEFINE last == [b.last EXCEPT ![t.sym] = t.price]
<1>1. last \in [Symbols -> Int]
  BY TickIs, BrokerFields
<1>2. Priced(b, t) = [b EXCEPT !.last = last]
  BY DEF Priced, Brokers
<1> HIDE DEF last
<1>3. [b EXCEPT !.last = last] \in Brokers
  BY <1>1 DEF Brokers
<1>4. [b EXCEPT !.last = last].pos = b.pos /\ [b EXCEPT !.last = last].cash = b.cash
  BY DEF Brokers
<1> QED
  BY <1>2, <1>3, <1>4

LEMMA PricedSound ==
  ASSUME NEW b \in Sound, NEW t \in Ticks
  PROVE  Priced(b, t) \in Sound
<1> DEFINE c == Priced(b, t)
<1>1. b \in Brokers /\ Balanced(b)
  BY DEF Sound
<1>2. c \in Brokers /\ c.pos = b.pos /\ c.cash = b.cash
  BY <1>1, PricedIs
<1>3. c.slack = b.slack /\ c.closed = b.closed
  BY <1>1 DEF Priced, Brokers
<1> HIDE DEF c
<1> DEFINE s == t.sym
<1>4. s \in Symbols
  BY TickIs
<1> HIDE DEF s
<1>5. Moves(b, c, s)
  <2>1. Share(c, s) = Share(b, s)
    BY <1>2, <1>3 DEF Share
  <2>2. Share(b, s) \in Int /\ b.slack \in Int
    <3>1. b.cash * Lot \in Int
      BY <1>1, BrokerFields, BrokerAssumption
    <3> DEFINE B == b.cash * Lot
               O == b.pos[s].qty * b.pos[s].avg
    <3>2. B \in Int /\ O \in Int /\ b.closed.pnl \in Int /\ b.slack \in Int
      BY <1>1, <1>4, <3>1, BrokerFields
    <3>3. Share(b, s) = B + O - b.closed.pnl
      BY DEF Share
    <3> HIDE DEF B, O
    <3> QED
      BY <3>2, <3>3
  <2>3. 2 * (Share(c, s) - Share(b, s)) = 0 /\ c.slack - b.slack = 0 /\ b.slack - c.slack = 0
    BY <1>3, <2>1, <2>2
  <2> QED
    BY <1>2, <2>3 DEF Moves
<1>6. Balanced(c)
  BY <1>1, <1>2, <1>4, <1>5, BooksMove
<1> QED
  BY <1>2, <1>6 DEF Sound, c

LEMMA SumOfZeros ==
  ASSUME NEW S, IsFiniteSet(S), NEW f, \A x \in S : f[x] = 0, NEW g, Adds(g, f, SUBSET S)
  PROVE  g[S] = 0
<1> DEFINE Bad == {s \in SUBSET S : g[s] # 0}
<1> SUFFICES ASSUME Bad # {} PROVE FALSE
  OBVIOUS
<1>2. \A s \in Bad : IsFiniteSet(s)
  BY FS_Subset
<1>3. PICK s \in Bad : \A t \in Bad : Cardinality(s) <= Cardinality(t)
  BY <1>2, Smallest
<1>4. g[s] = IF s = {} THEN 0 ELSE f[Pick(s)] + g[s \ {Pick(s)}]
  BY DEF Adds
<1>5. s # {} /\ Pick(s) \in s /\ f[Pick(s)] = 0
  BY <1>4, PickIn
<1>6. s \ {Pick(s)} \notin Bad
  BY <1>2, <1>3, <1>5, OneLess
<1> QED
  BY <1>4, <1>5, <1>6

LEMMA OpenedSound == Opened(Initial) \in Sound
<1> DEFINE b == Opened(Initial)
           f == [s \in Symbols |-> b.pos[s].qty * b.pos[s].avg]
<1>1. Initial \in Int
  BY FoldAssumption
<1>2. b \in Brokers
  BY <1>1 DEF Opened, Brokers, Positions, Trades, Flat, NoTrades
<1>3. \A s \in Symbols : f[s] = 0
  BY DEF Opened, Flat
<1>4. b.cash = Initial /\ b.closed.pnl = 0 /\ b.slack = 0
  BY DEF Opened, NoTrades
<1>5. IsFiniteSet(Symbols)
  BY BacktestAssumption
<1>6. PICK g : Adds(g, f, SUBSET Symbols) /\ AtCost(b) = g[Symbols]
  BY AtCostSum
<1> HIDE DEF f
<1>7. AtCost(b) = 0
  BY <1>3, <1>5, <1>6, SumOfZeros
<1> HIDE DEF b
<1>8. Balanced(b)
  <2> DEFINE I == Initial * Lot
  <2>1. I \in Int
    BY <1>1, BrokerAssumption
  <2>2. Books(b) = I + 0 /\ Paid(b) = I + 0
    BY <1>4, <1>7 DEF Books, Paid
  <2> HIDE DEF I
  <2> QED
    BY <1>4, <2>1, <2>2 DEF Balanced, Distance
<1> QED
  BY <1>2, <1>8 DEF Sound, b

\* The equity of an account is a number.
Values(g, b, D) ==
  g = [s \in D |-> IF s = {} THEN 0
                   ELSE b.pos[Pick(s)].qty * b.last[Pick(s)] + g[s \ {Pick(s)}]]

LEMMA WorthIsFold ==
  ASSUME NEW b
  PROVE  Worth(b) = b.cash + (CHOOSE g : Values(g, b, SUBSET Held(b)))[Held(b)]
BY DEF Worth, MapThenSumSet, MapThenFoldSet, Values, Pick

LEMMA WorthIsInt ==
  ASSUME NEW b \in Brokers
  PROVE  Worth(b) \in Int
<1> DEFINE S == Held(b)
           f == [s \in S |-> b.pos[s].qty * b.last[s]]
           value(s) == b.pos[s].qty * b.last[s]
<1>1. IsFiniteSet(S) /\ S \subseteq Symbols
  <2>1. S \subseteq Symbols
    BY DEF Held
  <2> HIDE DEF S
  <2> QED
    BY <2>1, BacktestAssumption, FS_Subset
<1>2. \A x \in S : value(x) \in Int
  <2>1. \A x \in S : b.pos[x].qty \in Nat /\ b.last[x] \in Int
    BY <1>1, BrokerFields
  <2> HIDE DEF S
  <2> QED
    BY <2>1
<1>3. ASSUME NEW s \in SUBSET S, s # {}
      PROVE  f[Pick(s)] = value(Pick(s))
  <2>1. Pick(s) \in S
    BY <1>3, PickIn
  <2> QED
    BY <2>1
<1>4. \A x \in S : f[x] \in Int
  BY <1>2
<1>5. \A g : Adds(g, f, SUBSET S) <=> Values(g, b, SUBSET S)
  <2> TAKE g
  <2> HIDE DEF f, S
  <2>1. [s \in SUBSET S |-> IF s = {} THEN 0 ELSE f[Pick(s)] + g[s \ {Pick(s)}]]
          = [s \in SUBSET S |-> IF s = {} THEN 0 ELSE value(Pick(s)) + g[s \ {Pick(s)}]]
    <3> HIDE DEF value
    <3> QED
      BY <1>3
  <2> QED
    BY <2>1 DEF Adds, Values
<1> HIDE DEF f
<1> DEFINE g0 == CHOOSE g : Values(g, b, SUBSET S)
<1>6. Worth(b) = b.cash + g0[S]
  BY WorthIsFold
<1> HIDE DEF S
<1>7. \E g : Values(g, b, SUBSET S)
  BY <1>1, <1>5, AddsExists
<1>8. Values(g0, b, SUBSET S)
  BY <1>7
<1> HIDE DEF g0
<1>9. Adds(g0, f, SUBSET S)
  BY <1>5, <1>8
<1>10. g0[S] \in Int
  BY <1>1, <1>4, <1>9, SumsAreInt
<1> QED
  BY <1>6, <1>10, BrokerFields

-----------------------------------------------------------------------------
(* The numbers that the strategies order.                                  *)

Closes == Seq(Nat \ {0})

LEMMA PushType ==
  ASSUME NEW T, NEW c \in Seq(T), NEW x \in T, NEW k \in Nat
  PROVE  Push(c, x, k) \in Seq(T)
<1>1. Append(c, x) \in Seq(T) /\ Append(c, x) # << >>
  OBVIOUS
<1> DEFINE all == Append(c, x)
<1> HIDE DEF all
<1>2. Tail(all) \in Seq(T)
  BY <1>1 DEF all
<1> QED
  BY <1>1, <1>2 DEF Push, all

LEMMA SumIsFold ==
  ASSUME NEW f, NEW S
  PROVE  SumFunctionOnSet(f, S) = (CHOOSE g : Adds(g, f, SUBSET S))[S]
BY DEF SumFunctionOnSet, FoldFunctionOnSet, MapThenFoldSet, Adds, Pick

LEMMA SumFold ==
  ASSUME NEW f, IsFiniteSet(DOMAIN f)
  PROVE  \E g : Adds(g, f, SUBSET DOMAIN f) /\ SumFunction(f) = g[DOMAIN f]
<1>1. SumFunction(f) = (CHOOSE g : Adds(g, f, SUBSET DOMAIN f))[DOMAIN f]
  BY SumIsFold DEF SumFunction
<1>2. \E g : Adds(g, f, SUBSET DOMAIN f)
  BY AddsExists
<1> QED
  BY <1>1, <1>2

\* A sum of naturals is one, and positive if one of them is.
LEMMA SumNat ==
  ASSUME NEW f, IsFiniteSet(DOMAIN f), \A x \in DOMAIN f : f[x] \in Nat
  PROVE  SumFunction(f) \in Nat /\ ((\E x \in DOMAIN f : f[x] > 0) => SumFunction(f) > 0)
<1>1. PICK g : Adds(g, f, SUBSET DOMAIN f) /\ SumFunction(f) = g[DOMAIN f]
  BY SumFold
<1> DEFINE Good(s) == g[s] \in Nat /\ ((\E x \in s : f[x] > 0) => g[s] > 0)
           Bad == {s \in SUBSET DOMAIN f : ~ Good(s)}
<1> SUFFICES ASSUME Bad # {} PROVE FALSE
  BY <1>1
<1>2. \A s \in Bad : IsFiniteSet(s)
  BY FS_Subset
<1> HIDE DEF Bad
<1>3. PICK s \in Bad : \A t \in Bad : Cardinality(s) <= Cardinality(t)
  BY <1>2, Smallest
<1>4. s \in SUBSET DOMAIN f /\ ~ Good(s)
  BY DEF Bad
<1>5. g[s] = IF s = {} THEN 0 ELSE f[Pick(s)] + g[s \ {Pick(s)}]
  BY <1>1, <1>4 DEF Adds
<1>6. s # {}
  BY <1>4, <1>5
<1>7. Pick(s) \in s /\ f[Pick(s)] \in Nat
  BY <1>4, <1>6, PickIn
<1>8. Good(s \ {Pick(s)})
  <2>1. s \ {Pick(s)} \notin Bad
    BY <1>2, <1>3, <1>7, OneLess
  <2> QED
    BY <1>4, <2>1 DEF Bad
<1>9. Good(s)
  <2> DEFINE c == Pick(s)
             rest == g[s \ {Pick(s)}]
  <2>1. rest \in Nat /\ f[c] \in Nat /\ g[s] = f[c] + rest
    BY <1>5, <1>6, <1>7, <1>8
  <2>2. (\E x \in s : f[x] > 0) => f[c] > 0 \/ rest > 0
    BY <1>8
  <2> HIDE DEF c, rest
  <2> QED
    BY <2>1, <2>2
<1> QED
  BY <1>4, <1>9

LEMMA VolIsNat ==
  ASSUME NEW q \in Closes, Len(q) >= Lookback + 1
  PROVE  Vol(q) \in Nat
<1> DEFINE k == Lookback + 1
           last == Recent(q, k)
           rets == { (10 * last[i + 1]) \div last[i] : i \in 1..Lookback }
<1>0. q \in Seq(Nat \ {0})
  BY DEF Closes
<1>1. Lookback \in Nat \ {0} /\ Len(q) \in Nat /\ k \in Nat
  BY <1>0, TrendAssumption
<1>2. \A i \in 1..k : last[i] \in (Nat \ {0})
  <2> SUFFICES ASSUME NEW i \in 1..k PROVE last[i] \in (Nat \ {0})
    OBVIOUS
  <2>1. (Len(q) - k + 1) + i - 1 \in 1..Len(q)
    BY <1>1
  <2>2. last[i] = q[(Len(q) - k + 1) + i - 1]
    BY <1>0, <1>1, <2>1 DEF Recent
  <2> QED
    BY <1>0, <2>1, <2>2
<1> HIDE DEF last
<1>3. rets \in SUBSET Int /\ rets # {}
  <2>1. ASSUME NEW i \in 1..Lookback
        PROVE  (10 * last[i + 1]) \div last[i] \in Int
    <3>1. i \in 1..k /\ i + 1 \in 1..k
      BY <1>1
    <3>2. last[i] \in (Nat \ {0}) /\ 10 * last[i + 1] \in Int
      BY <1>2, <3>1
    <3> QED
      BY <3>2, Quotient
  <2>2. 1 \in 1..Lookback
    BY <1>1
  <2> QED
    BY <2>1, <2>2
<1>4. IsFiniteSet(rets)
  <2> DEFINE f == [i \in 1..Lookback |-> (10 * last[i + 1]) \div last[i]]
  <2>1. IsFiniteSet(1..Lookback)
    BY <1>1, FS_Interval
  <2>2. f \in Surjection(1..Lookback, rets)
    BY DEF Surjection
  <2> HIDE DEF f, rets
  <2> QED
    BY <2>1, <2>2, FS_Surjection
<1>5. Vol(q) = Max(rets) - Min(rets)
  BY DEF Vol, last
<1> HIDE DEF rets
<1>6. Max(rets) \in rets /\ Min(rets) \in rets /\ Min(rets) <= Max(rets)
  BY <1>3, <1>4, Extremes
<1>7. Max(rets) \in Int /\ Min(rets) \in Int
  BY <1>3, <1>6
<1> QED
  BY <1>5, <1>6, <1>7

LEMMA PairExtremes ==
  ASSUME NEW a \in Nat, NEW b \in Nat
  PROVE  /\ Max({a, b}) \in Nat /\ Min({a, b}) \in Nat
         /\ Max({a, b}) >= b
<1>1. /\ \E x \in {a, b} : \A y \in {a, b} : x >= y
      /\ \E x \in {a, b} : \A y \in {a, b} : x <= y
  BY a >= b \/ b >= a
<1>2. Max({a, b}) \in {a, b} /\ \A y \in {a, b} : Max({a, b}) >= y
  BY <1>1 DEF Max
<1>3. Min({a, b}) \in {a, b}
  BY <1>1 DEF Min
<1> QED
  BY <1>2, <1>3

LEMMA TargetIsNat ==
  ASSUME NEW vol \in Nat
  PROVE  TargetWeight(vol) \in Nat
<1>1. MaxWeight \in Nat /\ VolTarget \in Nat
  BY TrendAssumption
<1>2. CASE vol = 0
  BY <1>1, <1>2 DEF TargetWeight
<1>3. CASE vol # 0
  <2>1. VolTarget \div vol \in Nat
    BY <1>1, <1>3
  <2>2. Min({MaxWeight, VolTarget \div vol}) \in Nat
    BY <1>1, <2>1, PairExtremes
  <2> QED
    BY <1>3, <2>2 DEF TargetWeight
<1> QED
  BY <1>2, <1>3

LEMMA UpdateTarget ==
  ASSUME NEW long, NEW q \in Closes, NEW load \in [short : Nat \ {0}, long : Nat \ {0}]
  PROVE  Update(long, q, load).target \in Nat
<1>1. CASE Len(q) < WarmupBars(load)
  BY <1>1 DEF Update
<1>2. CASE ~ (Len(q) < WarmupBars(load))
  <2> DEFINE stay == IF long THEN Vol(q) <= MaxVol /\ ~ Below(q, load)
                             ELSE Vol(q) <= MaxVol /\ Above(q, load)
             target == IF stay THEN TargetWeight(Vol(q)) ELSE 0
  <2>1. WarmupBars(load) \in Nat /\ WarmupBars(load) >= Lookback + 1
    BY TrendAssumption, PairExtremes DEF WarmupBars
  <2>2. Len(q) \in Nat /\ Lookback \in Nat
    BY TrendAssumption DEF Closes
  <2>3. Len(q) >= Lookback + 1
    BY <1>2, <2>1, <2>2
  <2>4. TargetWeight(Vol(q)) \in Nat
    BY <2>3, VolIsNat, TargetIsNat
  <2>5. Update(long, q, load) = [long |-> stay, target |-> target]
    BY <1>2 DEF Update
  <2>6. target \in Nat
    <3> HIDE DEF stay
    <3> QED
      BY <2>4, Zenon
  <2> HIDE DEF stay, target
  <2> QED
    BY <2>5, <2>6
<1> QED
  BY <1>1, <1>2

Weights == [num : Nat, den : Nat \ {0}]

LEMMA EqualWeights ==
  ASSUME NEW after, \A n \in Loads : after[n].target \in Nat
  PROVE  Weighted(after, Loads, [n \in Loads |-> 1]) \in Weights
<1> DEFINE one == [n \in Loads |-> 1]
           f == [n \in Loads |-> one[n] * after[n].target]
           h == [n \in Loads |-> one[n]]
<1>1. Weighted(after, Loads, one) = [num |-> SumFunction(f), den |-> Tenths * SumFunction(h)]
  BY DEF Weighted
<1>2. IsFiniteSet(Loads) /\ Tenths \in Nat \ {0} /\ Loads # {}
  BY StrategyAssumption, BandAssumption
<1>3. DOMAIN f = Loads /\ \A n \in Loads : f[n] \in Nat
  OBVIOUS
<1>4. DOMAIN h = Loads /\ (\A n \in Loads : h[n] \in Nat) /\ \E n \in Loads : h[n] > 0
  BY <1>2
<1> HIDE DEF f, h
<1>5. SumFunction(f) \in Nat
  BY <1>2, <1>3, SumNat
<1>6. SumFunction(h) \in Nat /\ SumFunction(h) > 0
  BY <1>2, <1>4, SumNat
<1> DEFINE k == SumFunction(h)
<1>7. Tenths * k \in Nat \ {0}
  <2>1. k \in Nat \ {0}
    BY <1>6
  <2> HIDE DEF k
  <2> QED
    BY <1>2, <2>1
<1> HIDE DEF one
<1> QED
  BY <1>1, <1>5, <1>7 DEF Weights, one

LEMMA AffordableIsInt ==
  ASSUME NEW budget \in Int, NEW price \in Nat \ {0}
  PROVE  AffordableQty(budget, price) \in Int
<1>1. FeeNum \in Nat /\ FeeDen \in Nat \ {0} /\ Quantum \in Nat
  BY FeeAssumption, QuantumAssumption
<1> DEFINE n == (budget - Quantum) * FeeDen
           d == price * (FeeDen + FeeNum)
<1>2. n \in Int /\ d \in Nat \ {0}
  <2>1. FeeDen + FeeNum \in Nat \ {0} /\ budget - Quantum \in Int
    BY <1>1
  <2> QED
    BY <1>1, <2>1
<1>3. AffordableQty(budget, price) = IF budget < Quantum \/ price <= 0 THEN 0 ELSE n \div d
  BY DEF AffordableQty
<1> HIDE DEF n, d
<1>4. n \div d \in Int
  BY <1>2, Quotient
<1> QED
  BY <1>3, <1>4

LEMMA LesserIsInt ==
  ASSUME NEW a \in Int, NEW b \in Int
  PROVE  Lesser(a, b) \in Int
BY DEF Lesser

LEMMA DecideIsInt ==
  ASSUME NEW qty \in Nat, NEW price \in Nat \ {0}, NEW cash \in Int, NEW equity \in Int,
         NEW w \in Weights \union {Unknown}
  PROVE  Decide(qty, price, cash, equity, w).qty \in Int
<1> DEFINE value  == qty * price * w.den
           aim    == equity * w.num
           budget == Lesser((aim - value) \div w.den, cash)
           buy    == AffordableQty(budget, price)
           sell   == Lesser((value - aim) \div (price * w.den), qty)
           order  == Decide(qty, price, cash, equity, w)
<1>1. order \in {None, Order("SELL", qty), Order("BUY", buy), Order("SELL", sell)}
  BY Zenon DEF Decide
<1>2. CASE w = Unknown
  <2>1. w.num <= 0
    BY <1>2 DEF Unknown
  <2>2. order \in {None, Order("SELL", qty)}
    BY <2>1, Zenon DEF Decide
  <2> HIDE DEF order
  <2> QED
    BY <2>2 DEF None, Order, order
<1>3. CASE w \in Weights
  <2>1. w.num \in Nat /\ w.den \in Nat \ {0}
    BY <1>3 DEF Weights
  <2>2. value \in Int /\ aim \in Int /\ price * w.den \in Nat \ {0}
    BY <2>1
  <2> HIDE DEF value, aim
  <2>3. buy \in Int
    <3>1. (aim - value) \div w.den \in Int
      BY <2>1, <2>2, Quotient
    <3> QED
      BY <3>1, LesserIsInt, AffordableIsInt
  <2>4. sell \in Int
    <3>1. (value - aim) \div (price * w.den) \in Int
      BY <2>2, Quotient
    <3> QED
      BY <3>1, LesserIsInt
  <2> HIDE DEF buy, sell, order
  <2> QED
    BY <1>1, <2>3, <2>4 DEF None, Order, order
<1> QED
  BY <1>2, <1>3

LEMMA ObeySound ==
  ASSUME NEW b \in Sound, NEW s \in Symbols, NEW order, order.qty \in Int,
         NEW price \in Nat \ {0}
  PROVE  Obey(b, s, order, price) \in Sound
<1>1. Buy(b, s, order.qty, price) \in Sound /\ Sell(b, s, order.qty, price) \in Sound
  BY BuySound, SellSound
<1> QED
  BY <1>1 DEF Obey

-----------------------------------------------------------------------------
(* What every step of a strategy leaves sound.                             *)

LEMMA SoundFields ==
  ASSUME NEW b \in Sound
  PROVE  /\ b \in Brokers /\ b.cash \in Int /\ Worth(b) \in Int
         /\ b.pos \in [Symbols -> Positions]
         /\ \A s \in Symbols : b.pos[s].qty \in Nat /\ b.last[s] \in Int
<1>1. b \in Brokers
  BY DEF Sound
<1> QED
  BY <1>1, BrokerFields, WorthIsInt

LEMMA TrendBuySound ==
  ASSUME NEW b \in Sound, NEW t \in Ticks, NEW budget \in Int
  PROVE  TrendBuy(b, t, budget) \in Sound
<1>1. t.sym \in Symbols /\ t.price \in Nat \ {0}
  BY TickIs
<1>2. AffordableQty(budget, t.price) \in Int
  BY <1>1, AffordableIsInt
<1>3. Buy(b, t.sym, AffordableQty(budget, t.price), t.price) \in Sound
  BY <1>1, <1>2, BuySound
<1> QED
  BY <1>3 DEF TrendBuy

LEMMA TrendEnterSound ==
  ASSUME NEW b \in Sound, NEW t \in Ticks, NEW w \in Int
  PROVE  TrendEnter(b, t, w) \in Sound
<1>1. Worth(b) \in Int /\ b.cash \in Int /\ Tenths \in Nat \ {0}
  BY SoundFields, BandAssumption
<1>2. Worth(b) * w \in Int
  BY <1>1
<1>3. (Worth(b) * w) \div Tenths \in Int
  BY <1>1, <1>2, Quotient
<1>4. Lesser((Worth(b) * w) \div Tenths, b.cash) \in Int
  BY <1>1, <1>3, LesserIsInt
<1> QED
  BY <1>4, TrendBuySound DEF TrendEnter

LEMMA TrendRebalanceSound ==
  ASSUME NEW b \in Sound, NEW t \in Ticks, NEW w \in Int
  PROVE  TrendRebalance(b, t, w) \in Sound
<1> DEFINE value == b.pos[t.sym].qty * t.price * Tenths
           aim   == Worth(b) * w
           more  == Lesser((aim - value) \div Tenths, b.cash)
           less  == Lesser((value - aim) \div (t.price * Tenths), b.pos[t.sym].qty)
           quiet == TrendBandNum = 0 \/ Distance(value, aim) * TrendBandDen < TrendBandNum * aim
<1>1. /\ Worth(b) \in Int /\ b.cash \in Int /\ Tenths \in Nat \ {0}
      /\ t.sym \in Symbols /\ t.price \in Nat \ {0} /\ b.pos[t.sym].qty \in Nat
  BY SoundFields, BandAssumption, TickIs
<1>2. value \in Int /\ aim \in Int /\ t.price * Tenths \in Nat \ {0}
  BY <1>1
<1>3. TrendRebalance(b, t, w) =
        IF quiet THEN b
        ELSE IF aim > value THEN TrendBuy(b, t, more) ELSE Sell(b, t.sym, less, t.price)
  BY DEF TrendRebalance
<1> HIDE DEF value, aim, quiet
<1>4. aim - value \in Int /\ value - aim \in Int
  BY <1>2
<1>5. more \in Int
  <2>1. (aim - value) \div Tenths \in Int
    BY <1>1, <1>4, Quotient
  <2> QED
    BY <1>1, <2>1, LesserIsInt
<1>6. less \in Int
  <2>1. (value - aim) \div (t.price * Tenths) \in Int
    BY <1>2, <1>4, Quotient
  <2> QED
    BY <1>1, <2>1, LesserIsInt
<1> HIDE DEF more, less
<1>7. TrendBuy(b, t, more) \in Sound
  BY <1>5, TrendBuySound
<1>8. Sell(b, t.sym, less, t.price) \in Sound
  BY <1>1, <1>6, SellSound
<1> QED
  BY <1>3, <1>7, <1>8, Zenon

LEMMA TrendSound ==
  ASSUME NEW st \in [Symbols -> Closes], NEW b \in Sound, NEW t \in Ticks
  PROVE  /\ TrendStep(st, b, t, TrendLoad).st \in [Symbols -> Closes]
         /\ TrendStep(st, b, t, TrendLoad).b \in Sound
<1> DEFINE closes == Push(st[t.sym], t.price, TrendBars(TrendLoad) + 1)
           vol    == Vol(closes)
           w      == TargetWeight(vol)
           short  == Len(closes) < TrendBars(TrendLoad)
           out    == vol > MaxVol \/ Below(closes, TrendLoad)
           up     == vol <= MaxVol /\ Above(closes, TrendLoad)
           has    == b.pos[t.sym].qty > 0
           gone   == SellAll(b, t.sym, t.price)
           moved  == TrendRebalance(b, t, w)
           in     == TrendEnter(b, t, w)
           d      == IF short THEN b
                     ELSE IF has THEN IF out THEN gone ELSE moved
                                 ELSE IF up THEN in ELSE b
<1>1. t.sym \in Symbols /\ t.price \in Nat \ {0}
  BY TickIs
<1>2. TrendBars(TrendLoad) \in Nat \ {0} /\ TrendBars(TrendLoad) >= Lookback + 1
  BY TrendBarsIs, StrategyAssumption
<1>3. closes \in Closes
  <2> DEFINE k == TrendBars(TrendLoad) + 1
             T == Nat \ {0}
  <2>1. k \in Nat /\ st[t.sym] \in Seq(T) /\ t.price \in T
    BY <1>1, <1>2 DEF Closes
  <2> HIDE DEF k, T
  <2>2. Push(st[t.sym], t.price, k) \in Seq(T)
    BY <2>1, PushType
  <2> QED
    BY <2>2 DEF Closes, k, T
<1>4. TrendStep(st, b, t, TrendLoad) = [st |-> [st EXCEPT ![t.sym] = closes], b |-> d]
  BY DEF TrendStep
<1> HIDE DEF closes
<1>5. ASSUME ~ short
      PROVE  w \in Int
  <2>1. Len(closes) \in Nat
    BY <1>3 DEF Closes
  <2>2. Len(closes) >= Lookback + 1
    BY <1>2, <1>5, <2>1, TrendAssumption
  <2>3. vol \in Nat
    BY <1>3, <2>2, VolIsNat
  <2> HIDE DEF vol
  <2> QED
    BY <2>3, TargetIsNat
<1> HIDE DEF w, vol, short
<1>6. gone \in Sound
  BY <1>1, SellAllSound
<1>7. ~ short => moved \in Sound /\ in \in Sound
  BY <1>5, TrendRebalanceSound, TrendEnterSound
<1> HIDE DEF out, up, has, gone, moved, in
<1>8. d \in Sound
  BY <1>6, <1>7, Zenon
<1> HIDE DEF d
<1>9. [st EXCEPT ![t.sym] = closes] \in [Symbols -> Closes]
  BY <1>1, <1>3
<1> QED
  BY <1>4, <1>8, <1>9

Ensembles == [closes : Closes, long : [Loads -> BOOLEAN]]

LEMMA UpdateLatch ==
  ASSUME NEW long \in BOOLEAN, NEW q, NEW load
  PROVE  Update(long, q, load).long \in BOOLEAN
<1> DEFINE stay == IF long THEN Vol(q) <= MaxVol /\ ~ Below(q, load)
                           ELSE Vol(q) <= MaxVol /\ Above(q, load)
           target == IF stay THEN TargetWeight(Vol(q)) ELSE 0
<1>1. Update(long, q, load) =
        IF Len(q) < WarmupBars(load) THEN [long |-> FALSE, target |-> 0]
        ELSE [long |-> stay, target |-> target]
  BY DEF Update
<1>2. stay \in BOOLEAN
  OBVIOUS
<1> DEFINE early == Len(q) < WarmupBars(load)
<1>3. early => Update(long, q, load) = [long |-> FALSE, target |-> 0]
  BY <1>1
<1>4. ~ early => Update(long, q, load) = [long |-> stay, target |-> target]
  BY <1>1, Zenon
<1> HIDE DEF stay, target, early
<1>5. CASE early
  <2>1. Update(long, q, load).long = FALSE
    BY <1>3, <1>5
  <2> QED
    BY <2>1, Zenon
<1>6. CASE ~ early
  BY <1>2, <1>4, <1>6
<1> QED
  BY <1>5, <1>6

LEMMA EnsembleSound ==
  ASSUME NEW st \in [Symbols -> Ensembles], NEW b \in Sound, NEW t \in Ticks
  PROVE  /\ EnsembleStep(st, b, t).st \in [Symbols -> Ensembles]
         /\ EnsembleStep(st, b, t).b \in Sound
<1> DEFINE closes == Append(st[t.sym].closes, t.price)
           after  == [n \in Loads |-> Update(st[t.sym].long[n], closes, LoadOf[n])]
           w      == Weighted(after, Loads, [n \in Loads |-> 1])
           order  == Decide(b.pos[t.sym].qty, t.price, b.cash, Worth(b), w)
           long   == [n \in Loads |-> after[n].long]
           new    == [closes |-> closes, long |-> long]
<1>1. t.sym \in Symbols /\ t.price \in Nat \ {0}
  BY TickIs
<1>2. EnsembleStep(st, b, t) = [st |-> [st EXCEPT ![t.sym] = new],
                                b |-> Obey(b, t.sym, order, t.price)]
  BY DEF EnsembleStep
<1>3. st[t.sym].closes \in Closes /\ st[t.sym].long \in [Loads -> BOOLEAN]
  BY <1>1 DEF Ensembles
<1>4. closes \in Closes
  BY <1>1, <1>3 DEF Closes
<1> HIDE DEF closes
<1>5. \A n \in Loads : after[n].target \in Nat /\ after[n].long \in BOOLEAN
  <2> SUFFICES ASSUME NEW n \in Loads
               PROVE  after[n].target \in Nat /\ after[n].long \in BOOLEAN
    OBVIOUS
  <2>1. LoadOf[n] \in [short : Nat \ {0}, long : Nat \ {0}]
    BY StrategyAssumption
  <2>2. Update(st[t.sym].long[n], closes, LoadOf[n]).target \in Nat
    BY <1>4, <2>1, UpdateTarget
  <2>3. Update(st[t.sym].long[n], closes, LoadOf[n]).long \in BOOLEAN
    BY <1>3, UpdateLatch
  <2> QED
    BY <2>2, <2>3
<1> HIDE DEF after
<1>6. new \in Ensembles
  BY <1>4, <1>5 DEF Ensembles
<1>7. w \in Weights
  BY <1>5, EqualWeights
<1> HIDE DEF w, new
<1>8. order.qty \in Int
  BY <1>1, <1>7, SoundFields, DecideIsInt
<1> HIDE DEF order
<1>9. Obey(b, t.sym, order, t.price) \in Sound
  BY <1>1, <1>8, ObeySound
<1>10. [st EXCEPT ![t.sym] = new] \in [Symbols -> Ensembles]
  BY <1>1, <1>6
<1> QED
  BY <1>2, <1>9, <1>10

LEMMA FractionBuySound ==
  ASSUME NEW b \in Sound, NEW t \in Ticks, NEW pct \in Nat
  PROVE  Buy(b, t.sym, RoundEven(b.cash * pct, 100 * t.price), t.price) \in Sound
<1>1. t.sym \in Symbols /\ t.price \in Nat \ {0} /\ b.cash \in Int
  BY TickIs, SoundFields
<1>2. b.cash * pct \in Int /\ 100 * t.price \in Nat \ {0}
  BY <1>1
<1>3. RoundEven(b.cash * pct, 100 * t.price) \in Int
  BY <1>2, RoundEvenIs
<1> QED
  BY <1>1, <1>3, BuySound

LEMMA DisciplineSound ==
  ASSUME NEW d, NEW b \in Sound, NEW t \in Ticks
  PROVE  /\ CheckLiquidations(d, b, t).b \in Sound
         /\ Enter(d, b, t, FractionPct).b \in Sound
         /\ ExitSignal(d, b, t).b \in Sound
<1>1. t.sym \in Symbols /\ t.price \in Nat \ {0}
  BY TickIs
<1> DEFINE gone == SellAll(b, t.sym, t.price)
           try == Buy(b, t.sym, RoundEven(b.cash * FractionPct, 100 * t.price), t.price)
<1>2. gone \in Sound /\ try \in Sound
  BY <1>1, SellAllSound, FractionBuySound, StrategyAssumption
<1>3. CheckLiquidations(d, b, t).b \in {b, gone}
  <2> DEFINE s == t.sym
             out == /\ b.pos[s].qty > 0
                    /\ Liquidates(b.pos[s], t.price, Max({d.peak[s], t.price}))
                    /\ gone # b
             d1 == [d EXCEPT !.peak[s] = 0]
             d2 == Left(d, s, t.ts)
             d3 == [d EXCEPT !.peak[s] = Max({d.peak[s], t.price})]
  <2>1. CheckLiquidations(d, b, t) =
          CASE b.pos[s].qty = 0 -> [d |-> d1, b |-> b]
            [] out -> [d |-> d2, b |-> gone]
            [] OTHER -> [d |-> d3, b |-> b]
    BY DEF CheckLiquidations
  <2>2. b.pos[s].qty = 0 => ~ out
    OBVIOUS
  <2> HIDE DEF out, d1, d2, d3, gone
  <2>3. CASE b.pos[s].qty = 0
    BY <2>1, <2>2, <2>3
  <2>4. CASE b.pos[s].qty # 0
    BY <2>1, <2>4
  <2> QED
    BY <2>3, <2>4
<1>4. Enter(d, b, t, FractionPct).b \in {b, try}
  <2> DEFINE in == /\ t.ts - d.start >= Warmup
                   /\ b.pos[t.sym].qty = 0
                   /\ Cooled(d, t.sym, t.ts)
                   /\ Cardinality(Held(b)) < MaxPositions
                   /\ (b.cash * FractionPct) \div 100 >= MinOrder
                   /\ try # b
             d1 == [d EXCEPT !.entry[t.sym] = t.ts, !.peak[t.sym] = 0]
  <2>1. Enter(d, b, t, FractionPct) = IF in THEN [d |-> d1, b |-> try] ELSE [d |-> d, b |-> b]
    BY DEF Enter
  <2> HIDE DEF in, d1, try
  <2> QED
    BY <2>1
<1>5. ExitSignal(d, b, t).b \in {b, gone}
  <2> DEFINE out == /\ t.ts - d.start >= Warmup
                    /\ b.pos[t.sym].qty > 0
                    /\ t.ts - d.entry[t.sym] >= MinHold
                    /\ Cooled(d, t.sym, t.ts)
                    /\ gone # b
             d1 == Left(d, t.sym, t.ts)
  <2>1. ExitSignal(d, b, t) = IF out THEN [d |-> d1, b |-> gone] ELSE [d |-> d, b |-> b]
    BY DEF ExitSignal
  <2> HIDE DEF out, d1, gone
  <2> QED
    BY <2>1
<1> HIDE DEF gone, try
<1> QED
  BY <1>2, <1>3, <1>4, <1>5

LEMMA SmaSound ==
  ASSUME NEW st, NEW b \in Sound, NEW t \in Ticks
  PROVE  SmaStep(st, b, t).b \in Sound
<1> DEFINE c    == Confirm(st.c[t.sym], t.price)
           raw  == SmaState(c.closes)
           kept == CheckLiquidations(Started(st.d, t.ts), b, t)
           up   == c.trend = "BUY" /\ raw = "BUY" /\ StrongEdge(c.closes)
           down == c.trend = "SELL" /\ raw = "SELL" /\ DeadcrossExit
           in   == Enter(kept.d, kept.b, t, FractionPct)
           out  == ExitSignal(kept.d, kept.b, t)
           done == CASE up -> in [] down -> out [] OTHER -> kept
           new  == [c |-> [st.c EXCEPT ![t.sym] = c], d |-> done.d]
<1>1. SmaStep(st, b, t) = [st |-> new, b |-> done.b]
  BY DEF SmaStep
<1>2. ~ (up /\ down)
  OBVIOUS
<1>3. kept.b \in Sound
  BY DisciplineSound
<1> HIDE DEF up, down, new, kept
<1>4. in.b \in Sound /\ out.b \in Sound
  BY <1>3, DisciplineSound
<1> HIDE DEF in, out
<1>5. done \in {in, out, kept}
  <2>1. CASE up
    BY <1>2, <2>1
  <2>2. CASE ~ up
    BY <2>2
  <2> QED
    BY <2>1, <2>2
<1> HIDE DEF done
<1> QED
  BY <1>1, <1>3, <1>4, <1>5

LEMMA RuleSound ==
  ASSUME NEW st, NEW b \in Sound, NEW t \in Ticks, NEW rule
  PROVE  RuleStep(st, b, t, rule).b \in Sound
<1> DEFINE buf  == Push(st.c[t.sym], t.price, Window)
           sig  == RuleSignal(rule, buf)
           kept == CheckLiquidations(Started(st.d, t.ts), b, t)
           in   == Enter(kept.d, kept.b, t, FractionPct)
           out  == ExitSignal(kept.d, kept.b, t)
           done == CASE sig = "BUY" -> in [] sig = "SELL" -> out [] OTHER -> kept
           new  == [c |-> [st.c EXCEPT ![t.sym] = buf], d |-> done.d]
<1>1. RuleStep(st, b, t, rule) = [st |-> new, b |-> done.b]
  BY DEF RuleStep
<1>3. kept.b \in Sound
  BY DisciplineSound
<1> HIDE DEF sig, new, kept
<1>4. in.b \in Sound /\ out.b \in Sound
  BY <1>3, DisciplineSound
<1> HIDE DEF in, out
<1>5. done \in {in, out, kept}
  OBVIOUS
<1> HIDE DEF done
<1> QED
  BY <1>1, <1>3, <1>4, <1>5

LEMMA SessionSound ==
  ASSUME NEW st, NEW b \in Sound, NEW t \in Ticks, NEW k
  PROVE  SessionStep(st, b, t, k).b \in Sound
<1> DEFINE fresh == st[t.sym].day # DayOf(t.ts)
           ses   == Opening(IF fresh THEN [NoSession EXCEPT !.day = DayOf(t.ts),
                                                            !.first = t.price]
                                     ELSE st[t.sym], t.price)
           kept  == IF fresh THEN SellAll(b, t.sym, t.price) ELSE b
           try   == Buy(kept, t.sym, RoundEven(kept.cash * FractionPct, 100 * t.price), t.price)
           shut  == Closing(t.sym, t.ts)
           buys  == /\ ~ shut /\ ~ ses.entered /\ kept.pos[t.sym].qty = 0
                    /\ ShouldEnter(k, ses, t.price)
                    /\ (kept.cash * FractionPct) \div 100 >= MinOrder
                    /\ try # kept
           new   == [st EXCEPT ![t.sym] = [ses EXCEPT !.entered = @ \/ shut \/ buys]]
           gone  == SellAll(kept, t.sym, t.price)
           c     == IF shut THEN gone ELSE IF buys THEN try ELSE kept
<1>1. SessionStep(st, b, t, k) = [st |-> new, b |-> c]
  BY DEF SessionStep
<1>2. t.sym \in Symbols /\ t.price \in Nat \ {0}
  BY TickIs
<1> HIDE DEF new, buys, shut, ses, fresh
<1>3. kept \in Sound
  BY <1>2, SellAllSound, Zenon
<1> HIDE DEF kept
<1>4. gone \in Sound /\ try \in Sound
  BY <1>2, <1>3, SellAllSound, FractionBuySound, StrategyAssumption
<1> HIDE DEF gone, try
<1>5. c \in Sound
  BY <1>3, <1>4, Zenon
<1> QED
  BY <1>1, <1>5

-----------------------------------------------------------------------------
(* The orders at the close of a bar, folded over sets of symbols.          *)

Snapped(x) ==
  DOMAIN x.snap \in SUBSET Symbols /\ \A s \in DOMAIN x.snap : x.snap[s] \in Nat \ {0}

Sales(g, x, b, longs, D) ==
  g = [s \in D |-> IF s = {} THEN b
                   ELSE XsSell(x, b, longs, Pick(s), g[s \ {Pick(s)}])]

Purchases(g, x, b, longs, acc, D) ==
  g = [s \in D |-> IF s = {} THEN acc
                   ELSE XsBuy(x, b, longs, Pick(s), g[s \ {Pick(s)}])]

LEMMA SalesIsFold ==
  ASSUME NEW x, NEW b, NEW longs
  PROVE  XsSales(x, b, longs) =
           (CHOOSE g : Sales(g, x, b, longs, SUBSET (Held(b) \union longs)))[Held(b) \union longs]
BY DEF XsSales, FoldSet, MapThenFoldSet, Sales, Pick

Placed(x, kd, longs, i) == {s \in longs : Rank(x, kd, s) = i}

OneRank(x, b, kd, longs, acc, i) ==
  (CHOOSE g : Purchases(g, x, b, longs, acc, SUBSET Placed(x, kd, longs, i)))
    [Placed(x, kd, longs, i)]

Rounds(g, q, x, b, kd, longs, D) ==
  g = [s \in D |-> IF s = {} THEN b ELSE OneRank(x, b, kd, longs, g[s \ {Max(s)}], q[Max(s)])]

LEMMA BuysIsFold ==
  ASSUME NEW x, NEW b, NEW kd, NEW longs
  PROVE  XsBuys(x, b, kd, longs) =
           (CHOOSE g : Rounds(g, [i \in 1..XsTop |-> i], x, b, kd, longs,
                              SUBSET DOMAIN [i \in 1..XsTop |-> i]))
             [DOMAIN [i \in 1..XsTop |-> i]]
BY DEF XsBuys, FoldLeft, FoldSet, MapThenFoldSet, Rounds, OneRank, Purchases, Placed, Pick

Deal(sells, x, b, longs, s, acc) ==
  IF sells THEN XsSell(x, b, longs, s, acc) ELSE XsBuy(x, b, longs, s, acc)

Deals(g, sells, x, b, longs, acc, D) ==
  g = [s \in D |-> IF s = {} THEN acc
                   ELSE Deal(sells, x, b, longs, Pick(s), g[s \ {Pick(s)}])]

LEMMA DealsExist ==
  ASSUME NEW sells, NEW x, NEW b, NEW longs, NEW acc, NEW S, IsFiniteSet(S)
  PROVE  \E g : Deals(g, sells, x, b, longs, acc, SUBSET S)
<1> DEFINE D(n) == {s \in SUBSET S : Cardinality(s) <= n}
           Bad == {n \in Nat : ~ \E g : Deals(g, sells, x, b, longs, acc, D(n))}
<1>1. \A s \in SUBSET S : IsFiniteSet(s) /\ Cardinality(s) \in Nat
  BY FS_Subset, FS_CardinalityType
<1>2. Bad = {}
  <2> SUFFICES ASSUME Bad # {} PROVE FALSE
    OBVIOUS
  <2>1. \E n \in Bad : \A m \in Bad : ~ (<<m, n>> \in OpToRel(<, Nat))
    BY WFMin, NatLessThanWellFounded
  <2>2. PICK n \in Bad : \A m \in Bad : ~ (m < n)
    <3>1. PICK n \in Bad : \A m \in Bad : ~ (<<m, n>> \in OpToRel(<, Nat))
      BY <2>1
    <3>2. \A m \in Bad : m < n => <<m, n>> \in OpToRel(<, Nat)
      BY DEF OpToRel
    <3> QED
      BY <3>1, <3>2
  <2>3. CASE n = 0
    <3>1. \A s \in D(0) : s = {}
      BY <1>1, FS_EmptySet
    <3>2. Deals([s \in D(0) |-> acc], sells, x, b, longs, acc, D(0))
      BY <3>1 DEF Deals
    <3> QED
      BY <2>3, <3>2
  <2>4. CASE n # 0
    <3>1. n - 1 \in Nat /\ n - 1 \notin Bad
      <4>1. n \in Nat /\ n # 0
        BY <2>4
      <4>2. n - 1 \in Nat /\ n - 1 < n
        BY <4>1
      <4> HIDE DEF Bad
      <4> QED
        BY <2>2, <4>2
    <3>2. PICK g : Deals(g, sells, x, b, longs, acc, D(n - 1))
      BY <3>1
    <3> DEFINE h == [s \in D(n) |->
                       IF s = {} THEN acc ELSE Deal(sells, x, b, longs, Pick(s), g[s \ {Pick(s)}])]
    <3>3. ASSUME NEW s \in D(n), s # {}
          PROVE  h[s \ {Pick(s)}] = g[s \ {Pick(s)}]
      <4> DEFINE t == s \ {Pick(s)}
      <4>1. t \in D(n - 1) /\ t \in D(n)
        <5>1. Pick(s) \in s /\ s \in SUBSET S
          BY <3>3, PickIn
        <5>2. Cardinality(s) = Cardinality(t) + 1 /\ Cardinality(t) \in Nat
          BY <1>1, <5>1, OneLess
        <5> QED
          BY <5>1, <5>2
      <4> HIDE DEF D
      <4> QED
        BY <3>2, <4>1 DEF Deals
    <3>4. Deals(h, sells, x, b, longs, acc, D(n))
      <4> HIDE DEF D
      <4>1. h = [s \in D(n) |->
                   IF s = {} THEN acc ELSE Deal(sells, x, b, longs, Pick(s), h[s \ {Pick(s)}])]
        BY <3>3
      <4> HIDE DEF h
      <4> QED
        BY <4>1 DEF Deals
    <3> QED
      BY <3>4
  <2> QED
    BY <2>3, <2>4
<1>3. Cardinality(S) \in Nat
  BY <1>1
<1>4. D(Cardinality(S)) = SUBSET S
  BY <1>1, FS_Subset
<1> DEFINE c == Cardinality(S)
<1>5. \E g : Deals(g, sells, x, b, longs, acc, D(c))
  <2> HIDE DEF D, c
  <2> QED
    BY <1>2, <1>3 DEF c
<1> HIDE DEF D
<1> QED
  BY <1>4, <1>5

LEMMA DealsStaySound ==
  ASSUME NEW sells \in BOOLEAN, NEW x, NEW b, NEW longs, NEW acc \in Sound,
         NEW S, IsFiniteSet(S),
         \A s \in S, c \in Sound : Deal(sells, x, b, longs, s, c) \in Sound,
         NEW g, Deals(g, sells, x, b, longs, acc, SUBSET S)
  PROVE  g[S] \in Sound
<1> DEFINE Bad == {s \in SUBSET S : g[s] \notin Sound}
<1> SUFFICES ASSUME Bad # {} PROVE FALSE
  OBVIOUS
<1>2. \A s \in Bad : IsFiniteSet(s)
  BY FS_Subset
<1> HIDE DEF Bad
<1>3. PICK s \in Bad : \A t \in Bad : Cardinality(s) <= Cardinality(t)
  BY <1>2, Smallest
<1>4. s \in SUBSET S /\ g[s] \notin Sound
  BY DEF Bad
<1> DEFINE c == Pick(s)
           r == g[s \ {c}]
<1>5. g[s] = IF s = {} THEN acc ELSE Deal(sells, x, b, longs, c, r)
  BY <1>4 DEF Deals
<1>6. s # {}
  BY <1>4, <1>5
<1>7. c \in s /\ c \in S
  BY <1>4, <1>6, PickIn
<1>8. r \in Sound
  <2>1. s \ {c} \notin Bad
    BY <1>2, <1>3, <1>7, OneLess
  <2> QED
    BY <1>4, <2>1 DEF Bad
<1> HIDE DEF c, r
<1> QED
  BY <1>4, <1>5, <1>6, <1>7, <1>8

LEMMA SalesAreDeals ==
  ASSUME NEW x, NEW b, NEW longs, NEW g, NEW D
  PROVE  Sales(g, x, b, longs, D) <=> Deals(g, TRUE, x, b, longs, b, D)
BY DEF Sales, Deals, Deal

LEMMA PurchasesAreDeals ==
  ASSUME NEW x, NEW b, NEW longs, NEW acc, NEW g, NEW D
  PROVE  Purchases(g, x, b, longs, acc, D) <=> Deals(g, FALSE, x, b, longs, acc, D)
BY DEF Purchases, Deals, Deal

LEMMA ShareIs ==
  ASSUME NEW longs, IsFiniteSet(longs)
  PROVE  ShareOf(longs) \in Weights
<1> DEFINE n == Cardinality(longs)
<1>1. n \in Nat /\ Tenths \in Nat \ {0} /\ XsWeight \in Nat
  BY FS_CardinalityType, BandAssumption, StrategyAssumption
<1>2. ShareOf(longs) = IF Tenths <= XsWeight * n THEN [num |-> 1, den |-> n]
                                                ELSE [num |-> XsWeight, den |-> Tenths]
  BY DEF ShareOf
<1> HIDE DEF n
<1>3. Tenths <= XsWeight * n => n # 0
  BY <1>1
<1> QED
  BY <1>1, <1>2, <1>3 DEF Weights

LEMMA OrderIs ==
  ASSUME NEW qty \in Nat, NEW price \in Int, NEW cash \in Int, NEW equity \in Int,
         NEW w \in Weights \union {Unknown},
         Decide(qty, price, cash, equity, w).side # "NONE"
  PROVE  price \in Nat \ {0} /\ Decide(qty, price, cash, equity, w).qty \in Int
<1>1. CASE price <= 0
  <2>1. Decide(qty, price, cash, equity, w) = None
    BY <1>1 DEF Decide
  <2> QED
    BY <2>1 DEF None
<1>2. CASE price > 0
  <2>1. price \in Nat \ {0}
    BY <1>2
  <2> QED
    BY <2>1, DecideIsInt
<1> QED
  BY <1>1, <1>2

LEMMA XsSellSound ==
  ASSUME NEW x, Snapped(x), NEW b \in Sound, NEW longs, IsFiniteSet(longs),
         NEW s \in Symbols, NEW acc \in Sound
  PROVE  XsSell(x, b, longs, s, acc) \in Sound
<1> DEFINE w == IF s \in longs THEN ShareOf(longs) ELSE Unknown
           price == XsPrice(x, b, s)
           order == Decide(b.pos[s].qty, price, b.cash, Worth(b), w)
<1>1. w \in Weights \union {Unknown}
  BY ShareIs
<1>2. price \in Int
  <2>1. b.last[s] \in Int
    BY SoundFields
  <2> QED
    BY <2>1 DEF XsPrice, Snapped
<1>3. b.pos[s].qty \in Nat /\ b.cash \in Int /\ Worth(b) \in Int
  BY SoundFields
<1>4. XsSell(x, b, longs, s, acc) =
        IF order.side = "SELL" THEN Obey(acc, s, order, price) ELSE acc
  BY DEF XsSell
<1> HIDE DEF w, price
<1>5. order.side # "NONE" => price \in Nat \ {0} /\ order.qty \in Int
  BY <1>1, <1>2, <1>3, OrderIs
<1> HIDE DEF order
<1>6. order.side = "SELL" => Obey(acc, s, order, price) \in Sound
  BY <1>5, ObeySound
<1> QED
  BY <1>4, <1>6

LEMMA XsBuySound ==
  ASSUME NEW x, Snapped(x), NEW b \in Sound, NEW longs, IsFiniteSet(longs),
         longs \subseteq DOMAIN x.snap, NEW s \in longs, NEW acc \in Sound
  PROVE  XsBuy(x, b, longs, s, acc) \in Sound
<1> DEFINE w == ShareOf(longs)
           price == x.snap[s]
           order == Decide(acc.pos[s].qty, price, b.cash, Worth(b), w)
<1>1. w \in Weights \union {Unknown}
  BY ShareIs
<1>2. price \in Nat \ {0} /\ s \in Symbols
  BY DEF Snapped
<1>3. acc.pos[s].qty \in Nat /\ b.cash \in Int /\ Worth(b) \in Int
  BY <1>2, SoundFields
<1>4. XsBuy(x, b, longs, s, acc) =
        IF order.side = "BUY" THEN Obey(acc, s, order, price) ELSE acc
  BY DEF XsBuy
<1> HIDE DEF w, price
<1>5. order.qty \in Int
  BY <1>1, <1>2, <1>3, DecideIsInt
<1> HIDE DEF order
<1>6. Obey(acc, s, order, price) \in Sound
  BY <1>2, <1>5, ObeySound
<1> QED
  BY <1>4, <1>6

LEMMA RoundsExist ==
  ASSUME NEW q, NEW x, NEW b, NEW kd, NEW longs, NEW n \in Nat
  PROVE  \E g : Rounds(g, q, x, b, kd, longs, SUBSET (1..n))
<1> DEFINE P == {s \in SUBSET (1..n) : \E g : Rounds(g, q, x, b, kd, longs, SUBSET s)}
<1>1. {} \in P
  <2>1. SUBSET {} = {{}}
    OBVIOUS
  <2>2. Rounds([s \in {{}} |-> b], q, x, b, kd, longs, {{}})
    BY DEF Rounds
  <2> QED
    BY <2>1, <2>2
<1>2. ASSUME NEW s \in SUBSET (1..n), s # {}, s \ {Max(s)} \in P
      PROVE  s \in P
  <2> DEFINE m == Max(s)
  <2>1. PICK g : Rounds(g, q, x, b, kd, longs, SUBSET (s \ {m}))
    BY <1>2
  <2> HIDE DEF m
  <2> DEFINE h == [t \in SUBSET s |->
                     IF m \in t THEN OneRank(x, b, kd, longs, g[t \ {m}], q[m]) ELSE g[t]]
  <2>2. ASSUME NEW t \in SUBSET s
        PROVE  h[t] = IF t = {} THEN b ELSE OneRank(x, b, kd, longs, h[t \ {Max(t)}], q[Max(t)])
    <3>1. CASE m \in t
      <4>1. Max(t) = m
        BY <1>2, <3>1, SameLast DEF m
      <4>2. h[t \ {m}] = g[t \ {m}]
        OBVIOUS
      <4> QED
        BY <3>1, <4>1, <4>2
    <3>2. CASE m \notin t
      <4>1. t \in SUBSET (s \ {m}) /\ h[t] = g[t]
        BY <3>2
      <4>2. g[t] = IF t = {} THEN b ELSE OneRank(x, b, kd, longs, g[t \ {Max(t)}], q[Max(t)])
        BY <2>1, <4>1 DEF Rounds
      <4>3. h[t \ {Max(t)}] = g[t \ {Max(t)}]
        BY <3>2
      <4> QED
        BY <4>1, <4>2, <4>3
    <3> QED
      BY <3>1, <3>2
  <2>3. Rounds(h, q, x, b, kd, longs, SUBSET s)
    <3> HIDE DEF m
    <3>1. DOMAIN h = SUBSET s /\ h = [t \in SUBSET s |-> h[t]]
      OBVIOUS
    <3> HIDE DEF h
    <3> QED
      BY <2>2, <3>1 DEF Rounds
  <2> QED
    BY <2>3
<1> HIDE DEF P
<1>3. \A s \in SUBSET (1..n) : s \in P
  BY <1>1, <1>2, PlaceInduction
<1> QED
  BY <1>3 DEF P

LEMMA SalesSound ==
  ASSUME NEW x, Snapped(x), NEW b \in Sound, NEW longs \in SUBSET Symbols
  PROVE  XsSales(x, b, longs) \in Sound
<1> DEFINE S == Held(b) \union longs
           g == CHOOSE g : Sales(g, x, b, longs, SUBSET S)
<1>1. XsSales(x, b, longs) = g[S]
  BY SalesIsFold
<1>2. S \subseteq Symbols
  BY DEF Held
<1> HIDE DEF S
<1>3. IsFiniteSet(S) /\ IsFiniteSet(longs)
  BY <1>2, BacktestAssumption, FS_Subset
<1>4. \E h : Deals(h, TRUE, x, b, longs, b, SUBSET S)
  BY <1>3, DealsExist
<1>5. \E h : Sales(h, x, b, longs, SUBSET S)
  BY <1>4, SalesAreDeals
<1>6. Sales(g, x, b, longs, SUBSET S)
  BY <1>5
<1> HIDE DEF g
<1>7. Deals(g, TRUE, x, b, longs, b, SUBSET S)
  BY <1>6, SalesAreDeals
<1>8. \A s \in S, c \in Sound : Deal(TRUE, x, b, longs, s, c) \in Sound
  <2>1. \A s \in S, c \in Sound : XsSell(x, b, longs, s, c) \in Sound
    BY <1>2, <1>3, XsSellSound
  <2> QED
    BY <2>1 DEF Deal
<1> DEFINE yes == TRUE
<1>9. yes \in BOOLEAN /\ Deals(g, yes, x, b, longs, b, SUBSET S)
      /\ \A s \in S, c \in Sound : Deal(yes, x, b, longs, s, c) \in Sound
  BY <1>7, <1>8
<1> HIDE DEF yes
<1>10. g[S] \in Sound
  BY <1>3, <1>9, DealsStaySound
<1> QED
  BY <1>1, <1>10

LEMMA OneRankSound ==
  ASSUME NEW x, Snapped(x), NEW b \in Sound, NEW kd, NEW longs \in SUBSET DOMAIN x.snap,
         NEW acc \in Sound, NEW i
  PROVE  OneRank(x, b, kd, longs, acc, i) \in Sound
<1> DEFINE S == Placed(x, kd, longs, i)
           g == CHOOSE g : Purchases(g, x, b, longs, acc, SUBSET S)
<1>1. OneRank(x, b, kd, longs, acc, i) = g[S]
  BY DEF OneRank
<1>2. S \subseteq longs /\ longs \subseteq Symbols
  BY DEF Placed, Snapped
<1> HIDE DEF S
<1>3. IsFiniteSet(S) /\ IsFiniteSet(longs)
  <2>1. IsFiniteSet(longs)
    BY <1>2, BacktestAssumption, FS_Subset
  <2> QED
    BY <1>2, <2>1, FS_Subset
<1>4. \E h : Deals(h, FALSE, x, b, longs, acc, SUBSET S)
  BY <1>3, DealsExist
<1>5. \E h : Purchases(h, x, b, longs, acc, SUBSET S)
  BY <1>4, PurchasesAreDeals
<1>6. Purchases(g, x, b, longs, acc, SUBSET S)
  BY <1>5
<1> HIDE DEF g
<1>7. Deals(g, FALSE, x, b, longs, acc, SUBSET S)
  BY <1>6, PurchasesAreDeals
<1>8. \A s \in S, c \in Sound : Deal(FALSE, x, b, longs, s, c) \in Sound
  <2>1. \A s \in S, c \in Sound : XsBuy(x, b, longs, s, c) \in Sound
    BY <1>2, <1>3, XsBuySound
  <2> QED
    BY <2>1 DEF Deal
<1> DEFINE no == FALSE
<1>9. no \in BOOLEAN /\ Deals(g, no, x, b, longs, acc, SUBSET S)
      /\ \A s \in S, c \in Sound : Deal(no, x, b, longs, s, c) \in Sound
  BY <1>7, <1>8
<1> HIDE DEF no
<1>10. g[S] \in Sound
  BY <1>3, <1>9, DealsStaySound
<1> QED
  BY <1>1, <1>10

LEMMA BuysSound ==
  ASSUME NEW x, Snapped(x), NEW b \in Sound, NEW kd, NEW longs \in SUBSET DOMAIN x.snap
  PROVE  XsBuys(x, b, kd, longs) \in Sound
<1> DEFINE q == [i \in 1..XsTop |-> i]
           g == CHOOSE g : Rounds(g, q, x, b, kd, longs, SUBSET DOMAIN q)
           n == XsTop
<1>1. XsBuys(x, b, kd, longs) = g[DOMAIN q]
  BY BuysIsFold
<1>2. n \in Nat /\ DOMAIN q = 1..n
  BY StrategyAssumption
<1> HIDE DEF n, q
<1>3. \E h : Rounds(h, q, x, b, kd, longs, SUBSET (1..n))
  BY <1>2, RoundsExist
<1>4. Rounds(g, q, x, b, kd, longs, SUBSET (1..n))
  BY <1>2, <1>3
<1> HIDE DEF g
<1> DEFINE P == {s \in SUBSET (1..n) : g[s] \in Sound}
<1>5. \A s \in SUBSET (1..n) :
        g[s] = IF s = {} THEN b ELSE OneRank(x, b, kd, longs, g[s \ {Max(s)}], q[Max(s)])
  BY <1>4 DEF Rounds
<1>6. {} \in P
  BY <1>5
<1>7. ASSUME NEW s \in SUBSET (1..n), s # {}, s \ {Max(s)} \in P
      PROVE  s \in P
  <2> DEFINE c == g[s \ {Max(s)}]
             m == q[Max(s)]
  <2>1. g[s] = OneRank(x, b, kd, longs, c, m) /\ c \in Sound
    BY <1>5, <1>7
  <2> HIDE DEF c, m
  <2>2. OneRank(x, b, kd, longs, c, m) \in Sound
    BY <2>1, OneRankSound
  <2> QED
    BY <2>1, <2>2
<1> HIDE DEF P
<1>8. 1..n \in P
  BY <1>2, <1>6, <1>7, PlaceInduction
<1> QED
  BY <1>1, <1>2, <1>8 DEF P

LEMMA CrossSound ==
  ASSUME NEW x, Snapped(x), NEW b \in Sound, NEW t \in Ticks, NEW kd
  PROVE  Snapped(CrossStep(x, b, t, kd).st) /\ CrossStep(x, b, t, kd).b \in Sound
<1> DEFINE bar   == t.ts \div BarLen
           ends  == x.bar # -1 /\ bar # x.bar
           snap  == IF ends THEN << >> ELSE x.snap
           price == [s \in DOMAIN snap \union {t.sym} |-> IF s = t.sym THEN t.price ELSE snap[s]]
           hist  == [x.hist EXCEPT ![t.sym] = Push(@, t.price, XsLookback + 1)]
           seen  == IF t.sym \in ToSet(x.seen) THEN x.seen ELSE Append(x.seen, t.sym)
           close == OnBarClose(x, b, kd)
           c     == IF ends THEN close ELSE b
<1>1. CrossStep(x, b, t, kd) =
        [st |-> [bar |-> bar, snap |-> price, hist |-> hist, seen |-> seen], b |-> c]
  BY DEF CrossStep
<1>2. t.sym \in Symbols /\ t.price \in Nat \ {0}
  BY TickIs
<1> HIDE DEF bar, ends, hist, seen
<1>3. DOMAIN snap \in SUBSET Symbols /\ \A s \in DOMAIN snap : snap[s] \in Nat \ {0}
  <2>1. CASE ends
    <3>1. snap = << >> /\ DOMAIN << >> = {}
      BY <2>1
    <3> HIDE DEF snap
    <3> QED
      BY <3>1
  <2>2. CASE ~ ends
    BY <2>2 DEF Snapped
  <2> QED
    BY <2>1, <2>2
<1> HIDE DEF snap
<1>4. DOMAIN price \in SUBSET Symbols /\ \A s \in DOMAIN price : price[s] \in Nat \ {0}
  BY <1>2, <1>3
<1> HIDE DEF price
<1>5. close \in Sound
  <2> DEFINE longs == Longs(x, kd)
             quiet == Cardinality(DOMAIN x.snap) < 2 \/ Ranked(x) = {}
             gone  == XsSales(x, b, longs)
             done  == XsBuys(x, gone, kd, longs)
  <2>1. close = IF quiet THEN b ELSE done
    BY DEF OnBarClose
  <2>2. longs \in SUBSET DOMAIN x.snap
    BY DEF Longs, Ranked
  <2>3. longs \in SUBSET Symbols
    BY <2>2 DEF Snapped
  <2> HIDE DEF longs, quiet, close
  <2>4. gone \in Sound
    BY <2>3, SalesSound
  <2> HIDE DEF gone
  <2>5. done \in Sound
    BY <2>2, <2>4, BuysSound
  <2> HIDE DEF done
  <2> QED
    BY <2>1, <2>5
<1> HIDE DEF close
<1>6. c \in Sound
  BY <1>5, Zenon
<1> HIDE DEF c
<1> QED
  BY <1>1, <1>4, <1>6 DEF Snapped

-----------------------------------------------------------------------------
(* Every tick of a backtest leaves the account sound.                      *)

\* What the state of a strategy is, as far as the sizes of its orders need it.
Shaped(k, st) ==
  /\ k = "trend" => st \in [Symbols -> Closes]
  /\ k = "ensemble" => st \in [Symbols -> Ensembles]
  /\ k \in {"reversal", "winners"} => Snapped(st)

AccountInv ==
  /\ kind \in Kinds /\ tick.ts \in Nat /\ run.b \in Sound
  /\ kind # "walk" => Shaped(kind, run.st)

LEMMA StepSound ==
  ASSUME NEW k \in Kinds, k # "walk", NEW st, Shaped(k, st), NEW b \in Sound, NEW t \in Ticks
  PROVE  Shaped(k, Step(k, st, b, t).st) /\ Step(k, st, b, t).b \in Sound
<1>1. k \in {"trend", "ensemble", "sma", "breakout", "bollinger", "rsi", "orb", "momentum",
             "reversal", "winners"}
  BY BacktestAssumption
<1>2. CASE k = "trend"
  <2>1. Step(k, st, b, t) = TrendStep(st, b, t, TrendLoad)
    BY <1>2 DEF Step
  <2> QED
    BY <1>2, <2>1, TrendSound DEF Shaped
<1>3. CASE k = "ensemble"
  <2>1. Step(k, st, b, t) = EnsembleStep(st, b, t)
    BY <1>3 DEF Step
  <2> QED
    BY <1>3, <2>1, EnsembleSound DEF Shaped
<1>4. CASE k = "sma"
  <2>1. Step(k, st, b, t) = SmaStep(st, b, t)
    BY <1>4 DEF Step
  <2> QED
    BY <1>4, <2>1, SmaSound DEF Shaped
<1>5. CASE k \in {"breakout", "bollinger", "rsi"}
  <2>1. Step(k, st, b, t) = RuleStep(st, b, t, k)
    BY <1>5 DEF Step
  <2> QED
    BY <1>5, <2>1, RuleSound DEF Shaped
<1>6. CASE k \in {"orb", "momentum"}
  <2>1. Step(k, st, b, t) = SessionStep(st, b, t, k)
    BY <1>6 DEF Step
  <2> QED
    BY <1>6, <2>1, SessionSound DEF Shaped
<1>7. CASE k \in {"reversal", "winners"}
  <2>1. Step(k, st, b, t) = CrossStep(st, b, t, k)
    BY <1>7 DEF Step
  <2>2. Snapped(st)
    BY <1>7 DEF Shaped
  <2>3. Snapped(CrossStep(st, b, t, k).st) /\ CrossStep(st, b, t, k).b \in Sound
    BY <2>2, CrossSound
  <2> QED
    BY <1>7, <2>1, <2>3 DEF Shaped
<1> QED
  BY <1>1, <1>2, <1>3, <1>4, <1>5, <1>6, <1>7

LEMMA StartShaped ==
  ASSUME NEW k \in Kinds, k # "walk"
  PROVE  Shaped(k, State0(k))
<1>1. CASE k = "trend"
  <2>1. State0(k) = [s \in Symbols |-> << >>]
    BY <1>1 DEF State0
  <2>2. << >> \in Closes
    BY DEF Closes
  <2> QED
    BY <1>1, <2>1, <2>2 DEF Shaped
<1>2. CASE k = "ensemble"
  <2>1. State0(k) = [s \in Symbols |-> [closes |-> << >>, long |-> [n \in Loads |-> FALSE]]]
    BY <1>2 DEF State0
  <2>2. [closes |-> << >>, long |-> [n \in Loads |-> FALSE]] \in Ensembles
    BY DEF Ensembles, Closes
  <2> DEFINE e == [closes |-> << >>, long |-> [n \in Loads |-> FALSE]]
  <2> HIDE DEF e
  <2>3. State0(k) = [s \in Symbols |-> e] /\ e \in Ensembles
    BY <2>1, <2>2 DEF e
  <2> QED
    BY <1>2, <2>3 DEF Shaped
<1>3. CASE k \in {"reversal", "winners"}
  <2>1. State0(k) = Xs0
    BY <1>3 DEF State0
  <2>2. Xs0.snap = << >> /\ DOMAIN << >> = {}
    BY DEF Xs0
  <2>3. Snapped(Xs0)
    BY <2>2 DEF Snapped
  <2> QED
    BY <1>3, <2>1, <2>3 DEF Shaped
<1> QED
  BY <1>1, <1>2, <1>3 DEF Shaped

LEMMA AccountStarts == Init => AccountInv
<1> SUFFICES ASSUME Init PROVE AccountInv
  OBVIOUS
<1>1. kind \in Kinds /\ tick.ts = 0
  BY DEF Init, NoTick
<1>2. run.b = Opened(Initial)
  BY DEF Init, Idle
<1>3. kind # "walk" => run.st = State0(kind)
  BY DEF Init, Idle
<1>4. Opened(Initial) \in Sound
  BY OpenedSound
<1> QED
  BY <1>1, <1>2, <1>3, <1>4, StartShaped DEF AccountInv

LEMMA ReplayKeepsAccount ==
  ASSUME AccountInv, NEW s \in Symbols, NEW p \in Prices, NEW gap \in Gaps \union {0},
         Replay(s, p, gap)
  PROVE  AccountInv'
<1> DEFINE t == [sym |-> s, price |-> p, ts |-> tick.ts + gap]
           b == Priced(run.b, t)
           did == Step(kind, run.st, b, t)
<1>1. t \in Ticks
  <2>1. gap \in Nat /\ tick.ts \in Nat
    BY BacktestAssumption DEF AccountInv
  <2> QED
    BY <2>1 DEF Ticks
<1>2. tick' = t /\ run' = EngineStep(run, did, t) /\ kind' = kind /\ kind # "walk"
  BY DEF Replay
<1> HIDE DEF t
<1>3. b \in Sound
  BY <1>1, PricedSound DEF AccountInv
<1> HIDE DEF b
<1>4. Shaped(kind, did.st) /\ did.b \in Sound
  BY <1>1, <1>2, <1>3, StepSound DEF AccountInv
<1> HIDE DEF did
<1>5. run'.st = did.st /\ run'.b = did.b
  BY <1>2 DEF EngineStep
<1>6. tick'.ts \in Nat
  BY <1>1, <1>2, TickIs
<1> QED
  BY <1>2, <1>4, <1>5, <1>6 DEF AccountInv

LEMMA AccountAlways == Spec => []AccountInv
<1>1. ASSUME AccountInv, [Next]_vars
      PROVE  AccountInv'
  <2>1. ASSUME NEW s \in Symbols, NEW p \in Prices, NEW gap \in Gaps \union {0},
               Replay(s, p, gap)
        PROVE  AccountInv'
    BY <1>1, <2>1, ReplayKeepsAccount
  <2>2. ASSUME NEW p \in Prices, NEW gap \in Gaps, Collect(p, gap)
        PROVE  AccountInv'
    BY <1>1, <2>2 DEF Collect, AccountInv
  <2>3. CASE UNCHANGED vars
    BY <1>1, <2>3 DEF vars, AccountInv
  <2> QED
    BY <1>1, <2>1, <2>2, <2>3 DEF Next
<1> QED
  BY <1>1, AccountStarts, PTL DEF Spec

(***************************************************************************)
(* The books of an account balance after every tick, for every strategy    *)
(* of the registry, every order of ticks and every price: its cash and, at *)
(* cost, its positions are what was put in and what its closed trades have *)
(* earned, up to what the roundings of its fills may amount to             *)
(* (account.apply_buy, apply_sell; engine.buy, sell).                      *)
(***************************************************************************)
THEOREM BooksAlwaysBalance == Spec => []BooksBalance
<1>1. AccountInv => BooksBalance
  <2> SUFFICES ASSUME AccountInv PROVE BooksBalance
    OBVIOUS
  <2>1. Balanced(run.b)
    BY DEF AccountInv, Sound
  <2> QED
    BY <2>1 DEF BooksBalance, Balanced, Books, Paid, AtCost
<1> QED
  BY <1>1, AccountAlways, PTL

-----------------------------------------------------------------------------
(* What the disciplined strategies do to a symbol in one tick.             *)

RuleKinds == {"sma", "breakout", "bollinger", "rsi"}

Disciplines ==
  [start : Int, peak : [Symbols -> Nat], entry : [Symbols -> Int], exit : [Symbols -> Int]]

Alone(b, c, s) == \A x \in Symbols : x = s \/ c.pos[x] = b.pos[x]
Fell(b, c, s) == Alone(b, c, s) /\ c.pos[s].qty < b.pos[s].qty
Rose(b, c, s) == Alone(b, c, s) /\ b.pos[s].qty = 0 /\ c.pos[s].qty > 0

LEMMA SellAllFalls ==
  ASSUME NEW b \in Sound, NEW s \in Symbols, NEW price \in Nat \ {0}
  PROVE  SellAll(b, s, price) = b \/ Fell(b, SellAll(b, s, price), s)
<1> DEFINE w == b.pos[s].qty
           c == Sell(b, s, w, price)
           q == WholeLots(s, w)
<1>1. SellAll(b, s, price) = c
  BY DEF SellAll
<1>2. w \in Nat /\ b \in Brokers
  BY SoundFields
<1>3. w \in Int
  BY <1>2
<1> HIDE DEF w
<1>4. c = b \/ Gave(b, c, s, q)
  BY <1>2, <1>3, SellIs
<1>5. q \in Int
  BY <1>3, WholeLotsIs
<1> HIDE DEF c, q
<1>6. CASE Gave(b, c, s, q)
  <2>1. q > 0 /\ c.pos[s].qty = w - q /\ Alone(b, c, s)
    BY <1>6 DEF Gave, Alone, w
  <2>2. c.pos[s].qty < w
    BY <1>2, <1>5, <2>1
  <2> QED
    BY <1>1, <2>1, <2>2 DEF Fell, w
<1> QED
  BY <1>1, <1>4, <1>6

LEMMA FractionBuyRises ==
  ASSUME NEW b \in Sound, NEW t \in Ticks, b.pos[t.sym].qty = 0
  PROVE  LET try == Buy(b, t.sym, RoundEven(b.cash * FractionPct, 100 * t.price), t.price)
         IN  try = b \/ (Rose(b, try, t.sym)
                         /\ WholeLots(t.sym, try.pos[t.sym].qty) = try.pos[t.sym].qty)
<1> DEFINE w == RoundEven(b.cash * FractionPct, 100 * t.price)
           s == t.sym
           q == WholeLots(s, w)
           try == Buy(b, s, w, t.price)
<1>1. s \in Symbols /\ t.price \in Nat \ {0} /\ b.cash \in Int /\ b \in Brokers
  BY TickIs, SoundFields
<1>2. w \in Int
  <2>1. b.cash * FractionPct \in Int /\ 100 * t.price \in Nat \ {0}
    BY <1>1, StrategyAssumption
  <2> QED
    BY <2>1, RoundEvenIs
<1> HIDE DEF w, s
<1>3. try = b \/ Bought(b, try, s, q)
  BY <1>1, <1>2, BuyIs
<1>4. q \in Int /\ WholeLots(s, q) = q
  BY <1>1, <1>2, WholeLotsIs
<1> HIDE DEF try, q
<1>5. CASE Bought(b, try, s, q)
  <2>1. b.pos[s].qty = 0
    BY DEF s
  <2>2. q > 0 /\ try.pos[s].qty = 0 + q /\ Alone(b, try, s)
    BY <1>5, <2>1 DEF Bought, Alone
  <2>3. try.pos[s].qty = q
    BY <1>4, <2>2
  <2> QED
    BY <1>4, <2>1, <2>2, <2>3 DEF Rose, try, w, s
<1> QED
  BY <1>3, <1>5 DEF try, w, s

LEMMA LeftIs ==
  ASSUME NEW d \in Disciplines, NEW s \in Symbols, NEW now \in Nat
  PROVE  Left(d, s, now) \in Disciplines /\ Left(d, s, now).exit = [d.exit EXCEPT ![s] = now]
<1> DEFINE exit == [d.exit EXCEPT ![s] = now]
           peak == [d.peak EXCEPT ![s] = 0]
           entry == [d.entry EXCEPT ![s] = Never]
<1>1. /\ exit \in [Symbols -> Int] /\ peak \in [Symbols -> Nat]
      /\ entry \in [Symbols -> Int]
  BY DEF Disciplines, Never
<1>2. Left(d, s, now) = [d EXCEPT !.exit = exit, !.peak = peak, !.entry = entry]
  BY DEF Left, Disciplines
<1> HIDE DEF exit, peak, entry
<1>3. [d EXCEPT !.exit = exit, !.peak = peak, !.entry = entry] \in Disciplines
      /\ [d EXCEPT !.exit = exit, !.peak = peak, !.entry = entry].exit = exit
  BY <1>1 DEF Disciplines
<1> QED
  BY <1>2, <1>3 DEF exit

LEMMA PeakIs ==
  ASSUME NEW d \in Disciplines, NEW s \in Symbols, NEW z \in Nat
  PROVE  /\ [d EXCEPT !.peak[s] = z] \in Disciplines
         /\ [d EXCEPT !.peak[s] = z].exit = d.exit
<1> DEFINE peak == [d.peak EXCEPT ![s] = z]
<1>1. peak \in [Symbols -> Nat]
  BY DEF Disciplines
<1>2. [d EXCEPT !.peak[s] = z] = [d EXCEPT !.peak = peak]
  BY DEF Disciplines
<1> HIDE DEF peak
<1>3. [d EXCEPT !.peak = peak] \in Disciplines /\ [d EXCEPT !.peak = peak].exit = d.exit
  BY <1>1 DEF Disciplines
<1> QED
  BY <1>2, <1>3

LEMMA EnteredIs ==
  ASSUME NEW d \in Disciplines, NEW s \in Symbols, NEW now \in Nat
  PROVE  /\ [d EXCEPT !.entry[s] = now, !.peak[s] = 0] \in Disciplines
         /\ [d EXCEPT !.entry[s] = now, !.peak[s] = 0].exit = d.exit
<1> DEFINE peak == [d.peak EXCEPT ![s] = 0]
           entry == [d.entry EXCEPT ![s] = now]
<1>1. peak \in [Symbols -> Nat] /\ entry \in [Symbols -> Int]
  BY DEF Disciplines
<1>2. [d EXCEPT !.entry[s] = now, !.peak[s] = 0] = [d EXCEPT !.entry = entry, !.peak = peak]
  BY DEF Disciplines
<1> HIDE DEF peak, entry
<1>3. [d EXCEPT !.entry = entry, !.peak = peak] \in Disciplines
      /\ [d EXCEPT !.entry = entry, !.peak = peak].exit = d.exit
  BY <1>1 DEF Disciplines
<1> QED
  BY <1>2, <1>3

LEMMA StartedIs ==
  ASSUME NEW d \in Disciplines, NEW now \in Nat
  PROVE  Started(d, now) \in Disciplines /\ Started(d, now).exit = d.exit
<1>1. [d EXCEPT !.start = now] \in Disciplines /\ [d EXCEPT !.start = now].exit = d.exit
  BY DEF Disciplines
<1> QED
  BY <1>1 DEF Started

LEMMA LiquidationIs ==
  ASSUME NEW d \in Disciplines, NEW b \in Sound, NEW t \in Ticks
  PROVE  LET r == CheckLiquidations(d, b, t)
         IN  /\ r.d \in Disciplines
             /\ \/ r.b = b /\ r.d.exit = d.exit
                \/ Fell(b, r.b, t.sym) /\ r.d.exit = [d.exit EXCEPT ![t.sym] = t.ts]
<1> DEFINE s == t.sym
           peak == Max({d.peak[s], t.price})
           gone == SellAll(b, s, t.price)
           out == /\ b.pos[s].qty > 0
                  /\ Liquidates(b.pos[s], t.price, peak)
                  /\ gone # b
           d1 == [d EXCEPT !.peak[s] = 0]
           d2 == Left(d, s, t.ts)
           d3 == [d EXCEPT !.peak[s] = peak]
           r == CheckLiquidations(d, b, t)
<1>1. s \in Symbols /\ t.price \in Nat \ {0} /\ t.ts \in Nat
  BY TickIs
<1>2. r = CASE b.pos[s].qty = 0 -> [d |-> d1, b |-> b]
            [] out -> [d |-> d2, b |-> gone]
            [] OTHER -> [d |-> d3, b |-> b]
  BY DEF CheckLiquidations
<1>3. b.pos[s].qty = 0 => ~ out
  OBVIOUS
<1>4. peak \in Nat
  <2>1. d.peak[s] \in Nat /\ t.price \in Nat
    BY <1>1 DEF Disciplines
  <2> QED
    BY <2>1, PairExtremes
<1>5. out => Fell(b, gone, s)
  BY <1>1, SellAllFalls
<1> HIDE DEF out, r, peak, gone, s
<1>6. /\ d1 \in Disciplines /\ d1.exit = d.exit /\ d3 \in Disciplines /\ d3.exit = d.exit
      /\ d2 \in Disciplines /\ d2.exit = [d.exit EXCEPT ![s] = t.ts]
  <2>1. d2 \in Disciplines /\ d2.exit = [d.exit EXCEPT ![s] = t.ts]
    BY <1>1, LeftIs
  <2>2. d3 \in Disciplines /\ d3.exit = d.exit
    BY <1>1, <1>4, PeakIs
  <2> DEFINE z == 0
             e == [d EXCEPT !.peak[s] = z]
  <2>3. z \in Nat
    OBVIOUS
  <2> HIDE DEF z
  <2>4. e \in Disciplines /\ e.exit = d.exit
    BY <1>1, <2>3, PeakIs
  <2>5. e = d1
    BY DEF z
  <2> QED
    BY <2>1, <2>2, <2>4, <2>5
<1> HIDE DEF d1, d2, d3
<1>7. r = [d |-> d1, b |-> b] \/ (out /\ r = [d |-> d2, b |-> gone]) \/ r = [d |-> d3, b |-> b]
  <2>1. CASE b.pos[s].qty = 0
    BY <1>2, <1>3, <2>1
  <2>2. CASE b.pos[s].qty # 0
    BY <1>2, <2>2
  <2> QED
    BY <2>1, <2>2
<1>8. CASE r = [d |-> d1, b |-> b]
  BY <1>6, <1>8 DEF r
<1>9. CASE out /\ r = [d |-> d2, b |-> gone]
  BY <1>5, <1>6, <1>9 DEF r, s
<1>10. CASE r = [d |-> d3, b |-> b]
  BY <1>6, <1>10 DEF r
<1> QED
  BY <1>7, <1>8, <1>9, <1>10

LEMMA EnterIs ==
  ASSUME NEW d \in Disciplines, NEW b \in Sound, NEW t \in Ticks
  PROVE  LET r == Enter(d, b, t, FractionPct)
         IN  /\ r.d \in Disciplines /\ r.d.exit = d.exit
             /\ \/ r.b = b
                \/ /\ Rose(b, r.b, t.sym) /\ Cooled(d, t.sym, t.ts)
                   /\ Cardinality(Held(b)) < MaxPositions
<1> DEFINE s == t.sym
           try == Buy(b, s, RoundEven(b.cash * FractionPct, 100 * t.price), t.price)
           in == /\ t.ts - d.start >= Warmup
                 /\ b.pos[s].qty = 0
                 /\ Cooled(d, s, t.ts)
                 /\ Cardinality(Held(b)) < MaxPositions
                 /\ (b.cash * FractionPct) \div 100 >= MinOrder
                 /\ try # b
           d1 == [d EXCEPT !.entry[s] = t.ts, !.peak[s] = 0]
           r == Enter(d, b, t, FractionPct)
<1>1. r = IF in THEN [d |-> d1, b |-> try] ELSE [d |-> d, b |-> b]
  BY DEF Enter
<1>2. s \in Symbols /\ t.ts \in Nat
  BY TickIs
<1>3. in => Rose(b, try, s)
  <2> SUFFICES ASSUME in PROVE Rose(b, try, s)
    OBVIOUS
  <2>1. b.pos[t.sym].qty = 0
    OBVIOUS
  <2> QED
    BY <2>1, FractionBuyRises
<1>4. in => Cooled(d, s, t.ts) /\ Cardinality(Held(b)) < MaxPositions
  OBVIOUS
<1> HIDE DEF in, try, r, s
<1>5. d1 \in Disciplines /\ d1.exit = d.exit
  BY <1>2, EnteredIs
<1> HIDE DEF d1
<1>6. CASE in
  BY <1>1, <1>3, <1>4, <1>5, <1>6 DEF r, s
<1>7. CASE ~ in
  BY <1>1, <1>7 DEF r
<1> QED
  BY <1>6, <1>7

LEMMA ExitIs ==
  ASSUME NEW d \in Disciplines, NEW b \in Sound, NEW t \in Ticks
  PROVE  LET r == ExitSignal(d, b, t)
         IN  /\ r.d \in Disciplines
             /\ \/ r.b = b /\ r.d.exit = d.exit
                \/ /\ Fell(b, r.b, t.sym) /\ r.d.exit = [d.exit EXCEPT ![t.sym] = t.ts]
                   /\ Cooled(d, t.sym, t.ts)
<1> DEFINE s == t.sym
           gone == SellAll(b, s, t.price)
           out == /\ t.ts - d.start >= Warmup
                  /\ b.pos[s].qty > 0
                  /\ t.ts - d.entry[s] >= MinHold
                  /\ Cooled(d, s, t.ts)
                  /\ gone # b
           d1 == Left(d, s, t.ts)
           r == ExitSignal(d, b, t)
<1>1. r = IF out THEN [d |-> d1, b |-> gone] ELSE [d |-> d, b |-> b]
  BY DEF ExitSignal
<1>2. s \in Symbols /\ t.ts \in Nat /\ t.price \in Nat \ {0}
  BY TickIs
<1>3. out => Fell(b, gone, s) /\ Cooled(d, s, t.ts)
  BY <1>2, SellAllFalls
<1> HIDE DEF out, gone, r, s
<1>5. d1 \in Disciplines /\ d1.exit = [d.exit EXCEPT ![s] = t.ts]
  BY <1>2, LeftIs
<1> HIDE DEF d1
<1>6. CASE out
  BY <1>1, <1>3, <1>5, <1>6 DEF r, s
<1>7. CASE ~ out
  BY <1>1, <1>7 DEF r
<1> QED
  BY <1>6, <1>7

\* One tick: nothing, a sale, or a purchase that the rules allow.
Outcome(d, b, r, t) ==
  /\ r.d \in Disciplines
  /\ \/ r.b = b /\ r.d.exit = d.exit
     \/ Fell(b, r.b, t.sym) /\ r.d.exit = [d.exit EXCEPT ![t.sym] = t.ts]
     \/ /\ Rose(b, r.b, t.sym) /\ r.d.exit = d.exit
        /\ t.ts - d.exit[t.sym] >= Cooldown /\ Cardinality(Held(b)) < MaxPositions

LEMMA OneTrade ==
  ASSUME Cooldown > 0, NEW d \in Disciplines, NEW b \in Sound, NEW t \in Ticks
  PROVE  LET kept == CheckLiquidations(Started(d, t.ts), b, t)
         IN  /\ Outcome(d, b, kept, t)
             /\ Outcome(d, b, Enter(kept.d, kept.b, t, FractionPct), t)
             /\ Outcome(d, b, ExitSignal(kept.d, kept.b, t), t)
<1> DEFINE kept == CheckLiquidations(Started(d, t.ts), b, t)
           in == Enter(kept.d, kept.b, t, FractionPct)
           out == ExitSignal(kept.d, kept.b, t)
           s == t.sym
<1>1. s \in Symbols /\ t.ts \in Nat
  BY TickIs
<1>2. Started(d, t.ts) \in Disciplines /\ Started(d, t.ts).exit = d.exit
  BY <1>1, StartedIs
<1> DEFINE d0 == Started(d, t.ts)
<1> HIDE DEF d0
<1>3. /\ kept.d \in Disciplines
      /\ \/ kept.b = b /\ kept.d.exit = d.exit
         \/ Fell(b, kept.b, s) /\ kept.d.exit = [d.exit EXCEPT ![s] = t.ts]
  <2>1. d0 \in Disciplines /\ d0.exit = d.exit
    BY <1>2 DEF d0
  <2> DEFINE r == CheckLiquidations(d0, b, t)
  <2>2. /\ r.d \in Disciplines
        /\ \/ r.b = b /\ r.d.exit = d0.exit
           \/ Fell(b, r.b, s) /\ r.d.exit = [d0.exit EXCEPT ![s] = t.ts]
    BY <2>1, LiquidationIs
  <2>3. r = kept
    BY DEF d0
  <2> HIDE DEF r, kept
  <2> QED
    BY <2>1, <2>2, <2>3
<1>4. kept.b \in Sound
  BY DisciplineSound
<1> HIDE DEF kept
<1>5. /\ in.d \in Disciplines /\ in.d.exit = kept.d.exit
      /\ \/ in.b = kept.b
         \/ /\ Rose(kept.b, in.b, s) /\ Cooled(kept.d, s, t.ts)
            /\ Cardinality(Held(kept.b)) < MaxPositions
  BY <1>3, <1>4, EnterIs
<1>6. /\ out.d \in Disciplines
      /\ \/ out.b = kept.b /\ out.d.exit = kept.d.exit
         \/ /\ Fell(kept.b, out.b, s) /\ out.d.exit = [kept.d.exit EXCEPT ![s] = t.ts]
            /\ Cooled(kept.d, s, t.ts)
  BY <1>3, <1>4, ExitIs
<1> HIDE DEF in, out
<1>7. d.exit \in [Symbols -> Int] /\ Cooldown \in Nat
  BY StrategyAssumption DEF Disciplines
<1>8. Outcome(d, b, kept, t)
  BY <1>3 DEF Outcome, s
<1>9. CASE kept.b = b /\ kept.d.exit = d.exit
  <2>1. Cooled(kept.d, s, t.ts) => t.ts - d.exit[s] >= Cooldown
    BY <1>9 DEF Cooled
  <2>2. Outcome(d, b, in, t)
    BY <1>5, <1>9, <2>1 DEF Outcome, s
  <2>3. Outcome(d, b, out, t)
    BY <1>6, <1>9 DEF Outcome, s
  <2> QED
    BY <1>8, <2>2, <2>3 DEF in, out, kept
<1>10. CASE Fell(b, kept.b, s) /\ kept.d.exit = [d.exit EXCEPT ![s] = t.ts]
  <2>1. ~ Cooled(kept.d, s, t.ts)
    <3>1. kept.d.exit[s] = t.ts
      BY <1>1, <1>7, <1>10
    <3>2. t.ts - kept.d.exit[s] = 0
      BY <1>1, <3>1
    <3> QED
      BY <1>7, <3>2 DEF Cooled
  <2>2. in.b = kept.b /\ in.d.exit = kept.d.exit /\ in.d \in Disciplines
    BY <1>5, <2>1
  <2>3. out.b = kept.b /\ out.d.exit = kept.d.exit /\ out.d \in Disciplines
    BY <1>6, <2>1
  <2>4. Outcome(d, b, in, t) /\ Outcome(d, b, out, t)
    BY <1>10, <2>2, <2>3 DEF Outcome, s
  <2> QED
    BY <1>8, <2>4 DEF in, out, kept
<1> QED
  BY <1>3, <1>9, <1>10

LEMMA SmaOutcome ==
  ASSUME Cooldown > 0, NEW st, st.d \in Disciplines, NEW b \in Sound, NEW t \in Ticks
  PROVE  Outcome(st.d, b, [d |-> SmaStep(st, b, t).st.d, b |-> SmaStep(st, b, t).b], t)
<1> DEFINE c    == Confirm(st.c[t.sym], t.price)
           raw  == SmaState(c.closes)
           kept == CheckLiquidations(Started(st.d, t.ts), b, t)
           up   == c.trend = "BUY" /\ raw = "BUY" /\ StrongEdge(c.closes)
           down == c.trend = "SELL" /\ raw = "SELL" /\ DeadcrossExit
           in   == Enter(kept.d, kept.b, t, FractionPct)
           out  == ExitSignal(kept.d, kept.b, t)
           done == CASE up -> in [] down -> out [] OTHER -> kept
           cs   == [st.c EXCEPT ![t.sym] = c]
<1>1. SmaStep(st, b, t) = [st |-> [c |-> cs, d |-> done.d], b |-> done.b]
  BY DEF SmaStep
<1>2. ~ (up /\ down)
  OBVIOUS
<1>3. Outcome(st.d, b, kept, t) /\ Outcome(st.d, b, in, t) /\ Outcome(st.d, b, out, t)
  BY OneTrade
<1> HIDE DEF up, down, kept, cs, in, out
<1>4. done \in {in, out, kept}
  <2>1. CASE up
    BY <1>2, <2>1
  <2>2. CASE ~ up
    BY <2>2
  <2> QED
    BY <2>1, <2>2
<1> HIDE DEF done
<1>5. Outcome(st.d, b, done, t)
  BY <1>3, <1>4
<1>6. SmaStep(st, b, t).st.d = done.d /\ SmaStep(st, b, t).b = done.b
  BY <1>1
<1> QED
  BY <1>5, <1>6 DEF Outcome

LEMMA RuleOutcome ==
  ASSUME Cooldown > 0, NEW st, st.d \in Disciplines, NEW b \in Sound, NEW t \in Ticks, NEW rule
  PROVE  Outcome(st.d, b, [d |-> RuleStep(st, b, t, rule).st.d,
                           b |-> RuleStep(st, b, t, rule).b], t)
<1> DEFINE buf  == Push(st.c[t.sym], t.price, Window)
           sig  == RuleSignal(rule, buf)
           kept == CheckLiquidations(Started(st.d, t.ts), b, t)
           in   == Enter(kept.d, kept.b, t, FractionPct)
           out  == ExitSignal(kept.d, kept.b, t)
           done == CASE sig = "BUY" -> in [] sig = "SELL" -> out [] OTHER -> kept
           cs   == [st.c EXCEPT ![t.sym] = buf]
<1>1. RuleStep(st, b, t, rule) = [st |-> [c |-> cs, d |-> done.d], b |-> done.b]
  BY DEF RuleStep
<1>3. Outcome(st.d, b, kept, t) /\ Outcome(st.d, b, in, t) /\ Outcome(st.d, b, out, t)
  BY OneTrade
<1> HIDE DEF sig, kept, cs, in, out
<1>4. done \in {in, out, kept}
  OBVIOUS
<1> HIDE DEF done
<1>5. Outcome(st.d, b, done, t)
  BY <1>3, <1>4
<1>6. RuleStep(st, b, t, rule).st.d = done.d /\ RuleStep(st, b, t, rule).b = done.b
  BY <1>1
<1> QED
  BY <1>5, <1>6 DEF Outcome

LEMMA OneMoreHeld ==
  ASSUME NEW b \in Sound, NEW c \in Sound, NEW s \in Symbols, Rose(b, c, s),
         Cardinality(Held(b)) < MaxPositions
  PROVE  Cardinality(Held(c)) <= MaxPositions
<1>1. IsFiniteSet(Held(b))
  <2>1. Held(b) \subseteq Symbols
    BY DEF Held
  <2> QED
    BY <2>1, BacktestAssumption, FS_Subset
<1>2. Held(c) = Held(b) \union {s} /\ s \notin Held(b)
  BY DEF Held, Rose, Alone
<1>3. Cardinality(Held(b) \union {s}) = Cardinality(Held(b)) + 1
  BY <1>1, <1>2, FS_AddElement
<1>4. Cardinality(Held(b)) \in Nat /\ MaxPositions \in Nat
  BY <1>1, FS_CardinalityType, StrategyAssumption
<1> QED
  BY <1>2, <1>3, <1>4

\* The exits that the rules remember are the sales there were.
DisciplineInv == kind \in RuleKinds => run.st.d \in Disciplines /\ run.st.d.exit = sold

LEMMA ReplayKeepsDiscipline ==
  ASSUME Cooldown > 0, AccountInv, DisciplineInv,
         NEW y \in Symbols, NEW p \in Prices, NEW gap \in Gaps \union {0}, Replay(y, p, gap)
  PROVE  DisciplineInv' /\ KeepsDiscipline
<1> SUFFICES ASSUME kind \in RuleKinds
             PROVE  DisciplineInv' /\ KeepsDiscipline
  BY DEF Replay, DisciplineInv, KeepsDiscipline, RuleKinds
<1> DEFINE t == [sym |-> y, price |-> p, ts |-> tick.ts + gap]
           b == Priced(run.b, t)
           did == Step(kind, run.st, b, t)
           d == run.st.d
           c == did.b
           s == t.sym
<1>1. t \in Ticks
  <2>1. gap \in Nat /\ tick.ts \in Nat
    BY BacktestAssumption DEF AccountInv
  <2> QED
    BY <2>1 DEF Ticks
<1>2. /\ tick' = t /\ run' = EngineStep(run, did, t) /\ kind' = kind
      /\ sold' = [x \in Symbols |-> IF Qty(run', x) < Qty(run, x) THEN t.ts ELSE sold[x]]
  BY DEF Replay
<1> HIDE DEF t
<1>3. s \in Symbols /\ t.ts \in Nat
  BY <1>1, TickIs
<1>4. b \in Sound /\ b.pos = run.b.pos /\ run.b \in Sound
  BY <1>1, PricedSound, PricedIs DEF AccountInv, Sound
<1> HIDE DEF b
<1>5. d \in Disciplines /\ d.exit = sold
  BY DEF DisciplineInv
<1>6. c \in Sound
  <2>1. kind # "walk" /\ kind \in Kinds /\ Shaped(kind, run.st)
    BY DEF RuleKinds, AccountInv
  <2> QED
    BY <1>1, <1>4, <2>1, StepSound
<1>7. Outcome(d, b, [d |-> did.st.d, b |-> c], t)
  <2>1. CASE kind = "sma"
    <3>1. did = SmaStep(run.st, b, t)
      BY <2>1 DEF Step
    <3> HIDE DEF did
    <3> QED
      BY <1>1, <1>4, <1>5, <3>1, SmaOutcome
  <2>2. CASE kind \in {"breakout", "bollinger", "rsi"}
    <3>1. did = RuleStep(run.st, b, t, kind)
      BY <2>2 DEF Step
    <3> HIDE DEF did
    <3> QED
      BY <1>1, <1>4, <1>5, <3>1, RuleOutcome
  <2> QED
    BY <2>1, <2>2 DEF RuleKinds
<1> HIDE DEF did
<1> DEFINE e == did.st.d
<1>8. run'.st.d = e /\ run'.b = c
  BY <1>2 DEF EngineStep
<1>9. /\ e \in Disciplines
      /\ \/ c = b /\ e.exit = d.exit
         \/ Fell(b, c, s) /\ e.exit = [d.exit EXCEPT ![s] = t.ts]
         \/ /\ Rose(b, c, s) /\ e.exit = d.exit
            /\ t.ts - d.exit[s] >= Cooldown /\ Cardinality(Held(b)) < MaxPositions
  BY <1>7 DEF Outcome
<1> HIDE DEF c, d, e, s
<1>10. \A x \in Symbols : /\ Qty(run, x) = b.pos[x].qty /\ Qty(run', x) = c.pos[x].qty
                          /\ b.pos[x].qty \in Nat /\ c.pos[x].qty \in Nat
  <2>1. \A x \in Symbols : b.pos[x].qty \in Nat /\ c.pos[x].qty \in Nat
    BY <1>4, <1>6, SoundFields
  <2> QED
    BY <1>4, <1>8, <2>1 DEF Qty
<1>11. sold' = [x \in Symbols |-> IF c.pos[x].qty < b.pos[x].qty THEN t.ts ELSE sold[x]]
  BY <1>2, <1>10
<1>12. sold \in [Symbols -> Int]
  BY <1>5 DEF Disciplines
<1>13. KeepsDiscipline
  <2> SUFFICES ASSUME NEW x \in Symbols, c.pos[x].qty > b.pos[x].qty
               PROVE  /\ b.pos[x].qty = 0
                      /\ t.ts - sold[x] >= Cooldown
                      /\ Cardinality(Held(c)) <= MaxPositions
    BY <1>2, <1>8, <1>10 DEF KeepsDiscipline
  <2>1. c # b /\ ~ Fell(b, c, s)
    BY <1>10 DEF Fell, Alone
  <2>2. Rose(b, c, s) /\ t.ts - sold[s] >= Cooldown /\ Cardinality(Held(b)) < MaxPositions
    BY <1>5, <1>9, <2>1
  <2>3. x = s
    BY <1>10, <2>2 DEF Rose, Alone
  <2>4. Cardinality(Held(c)) <= MaxPositions
    BY <1>3, <1>4, <1>6, <2>2, OneMoreHeld
  <2> QED
    BY <2>2, <2>3, <2>4 DEF Rose
<1>14. e.exit = sold'
  <2>1. CASE c = b /\ e.exit = d.exit
    <3>1. sold' = [x \in Symbols |-> sold[x]]
      BY <1>10, <1>11, <2>1
    <3> QED
      BY <1>5, <1>12, <2>1, <3>1
  <2>2. CASE Fell(b, c, s) /\ e.exit = [d.exit EXCEPT ![s] = t.ts]
    <3>1. \A x \in Symbols : c.pos[x].qty < b.pos[x].qty <=> x = s
      BY <1>3, <1>10, <2>2 DEF Fell, Alone
    <3>2. sold' = [x \in Symbols |-> IF x = s THEN t.ts ELSE sold[x]]
      BY <1>11, <3>1
    <3> QED
      BY <1>5, <1>12, <2>2, <3>2
  <2>3. CASE Rose(b, c, s) /\ e.exit = d.exit
    <3>1. \A x \in Symbols : ~ (c.pos[x].qty < b.pos[x].qty)
      BY <1>3, <1>10, <2>3 DEF Rose, Alone
    <3>2. sold' = [x \in Symbols |-> sold[x]]
      BY <1>11, <3>1
    <3> QED
      BY <1>5, <1>12, <2>3, <3>2
  <2> QED
    BY <1>9, <2>1, <2>2, <2>3
<1>15. DisciplineInv'
  BY <1>8, <1>9, <1>14 DEF DisciplineInv
<1> QED
  BY <1>13, <1>15

LEMMA DisciplineStarts == Init => DisciplineInv
<1> SUFFICES ASSUME Init, kind \in RuleKinds
             PROVE  run.st.d \in Disciplines /\ run.st.d.exit = sold
  BY DEF DisciplineInv
<1>1. run.st = State0(kind) /\ sold = [s \in Symbols |-> Never]
  BY DEF Init, Idle, RuleKinds
<1>2. State0(kind).d = Disciplined0
  <2>1. CASE kind = "sma"
    BY <2>1 DEF State0
  <2>2. CASE kind \in {"breakout", "bollinger", "rsi"}
    BY <2>2 DEF State0
  <2> QED
    BY <2>1, <2>2 DEF RuleKinds
<1>3. Disciplined0 \in Disciplines /\ Disciplined0.exit = [s \in Symbols |-> Never]
  BY DEF Disciplined0, Disciplines, Never
<1> QED
  BY <1>1, <1>2, <1>3

-----------------------------------------------------------------------------
(* The session strategies: a new day begins without a position, and its    *)
(* first bar opens none.                                                   *)

SessionKinds == {"orb", "momentum"}

Sessions ==
  [day : Int, first : Nat, n : Nat, hi : Nat, close : Nat, entered : BOOLEAN]

NewDay(day, price) ==
  [day |-> day, first |-> price, n |-> 0, hi |-> 0, close |-> 0, entered |-> FALSE]

LEMMA BeganIs ==
  ASSUME NEW day, NEW price
  PROVE  [NoSession EXCEPT !.day = day, !.first = price] = NewDay(day, price)
<1> DEFINE no == FALSE
           old == -1
<1>1. NoSession = [day |-> old, first |-> 0, n |-> 0, hi |-> 0, close |-> 0, entered |-> no]
  BY DEF NoSession
<1>2. NewDay(day, price)
        = [day |-> day, first |-> price, n |-> 0, hi |-> 0, close |-> 0, entered |-> no]
  BY DEF NewDay
<1> HIDE DEF no, old
<1> DEFINE a == [day |-> old, first |-> 0, n |-> 0, hi |-> 0, close |-> 0, entered |-> no]
           c == [day |-> day, first |-> price, n |-> 0, hi |-> 0, close |-> 0, entered |-> no]
           F == {"day", "first", "n", "hi", "close", "entered"}
           r == [a EXCEPT !.day = day, !.first = price]
<1>3. /\ DOMAIN r = F /\ r = [f \in F |-> r[f]]
      /\ r["day"] = day /\ r["first"] = price /\ r["n"] = 0 /\ r["hi"] = 0
      /\ r["close"] = 0 /\ r["entered"] = no
  OBVIOUS
<1>4. /\ DOMAIN c = F /\ c = [f \in F |-> c[f]]
      /\ c["day"] = day /\ c["first"] = price /\ c["n"] = 0 /\ c["hi"] = 0
      /\ c["close"] = 0 /\ c["entered"] = no
  OBVIOUS
<1> HIDE DEF r, c
<1>5. \A f \in F : r[f] = c[f]
  BY <1>3, <1>4
<1>6. r = c
  BY <1>3, <1>4, <1>5
<1> QED
  BY <1>1, <1>2, <1>6 DEF r, c

LEMMA OpeningIs ==
  ASSUME NEW r \in Sessions, NEW price \in Nat \ {0}
  PROVE  Opening(r, price) \in Sessions /\ Opening(r, price).day = r.day
<1> DEFINE n == r.n + 1
           hi == Max({r.hi, price})
           close == IF n = OpeningBars THEN price ELSE r.close
<1>1. n \in Nat /\ hi \in Nat /\ close \in Nat
  <2>1. r.n \in Nat /\ r.hi \in Nat /\ r.close \in Nat /\ price \in Nat
    BY DEF Sessions
  <2> QED
    BY <2>1, PairExtremes
<1>2. Opening(r, price) = IF n > OpeningBars THEN [r EXCEPT !.n = n]
                          ELSE [r EXCEPT !.n = n, !.hi = hi, !.close = close]
  BY DEF Opening, Sessions
<1> HIDE DEF n, hi, close
<1>3. [r EXCEPT !.n = n] \in Sessions /\ [r EXCEPT !.n = n].day = r.day
  BY <1>1 DEF Sessions
<1>4. /\ [r EXCEPT !.n = n, !.hi = hi, !.close = close] \in Sessions
      /\ [r EXCEPT !.n = n, !.hi = hi, !.close = close].day = r.day
  BY <1>1 DEF Sessions
<1> QED
  BY <1>2, <1>3, <1>4

LEMMA FirstBarWaits ==
  ASSUME NEW day \in Int, NEW price \in Nat \ {0}, NEW k
  PROVE  ~ ShouldEnter(k, Opening(NewDay(day, price), price), price)
<1> DEFINE r == NewDay(day, price)
           hi == Max({0, price})
           close == IF 1 = OpeningBars THEN price ELSE 0
           o == Opening(r, price)
<1>1. OpeningBars \in Nat \ {0} /\ MomNum \in Nat /\ MomDen \in Nat \ {0}
  BY StrategyAssumption
<1>2. hi \in Nat /\ hi >= price
  BY PairExtremes
<1>3. o = [r EXCEPT !.n = 1, !.hi = hi, !.close = close]
  BY <1>1 DEF Opening, NewDay
<1> HIDE DEF hi, close, o
<1>4. o.n = 1 /\ o.hi = hi /\ o.close = close /\ o.first = price
  BY <1>3 DEF NewDay
<1>5. CASE OpeningBars > 1
  BY <1>1, <1>4, <1>5 DEF ShouldEnter, o
<1>6. CASE OpeningBars = 1
  <2>1. ~ (price > o.hi)
    BY <1>2, <1>4
  <2>2. o.close - o.first = 0
    BY <1>4, <1>6 DEF close
  <2>3. ~ ((o.close - o.first) * MomDen > MomNum * o.first)
    <3>1. 0 * MomDen = 0 /\ MomNum * price \in Nat
      BY <1>1
    <3> QED
      BY <1>4, <2>2, <3>1
  <2> QED
    BY <2>1, <2>3 DEF ShouldEnter, o
<1> QED
  BY <1>1, <1>5, <1>6

Whole(b, s) == b.pos[s].qty > 0 => WholeLots(s, b.pos[s].qty) = b.pos[s].qty

LEMMA SellsEverything ==
  ASSUME NEW b \in Sound, NEW s \in Symbols, NEW price \in Nat \ {0}, Whole(b, s)
  PROVE  SellAll(b, s, price).pos[s].qty = 0 /\ Alone(b, SellAll(b, s, price), s)
<1> DEFINE w == b.pos[s].qty
           c == Sell(b, s, w, price)
           q == WholeLots(s, w)
<1>1. SellAll(b, s, price) = c
  BY DEF SellAll
<1>2. w \in Nat /\ b \in Brokers /\ w \in Int
  BY SoundFields
<1>3. w > 0 => q = w
  BY DEF Whole
<1> HIDE DEF w
<1>4. (c = b /\ ~ (0 < q /\ q <= b.pos[s].qty)) \/ Gave(b, c, s, q)
  BY <1>2, SellIs
<1>5. q \in Int
  BY <1>2, WholeLotsIs
<1> HIDE DEF c, q
<1>6. CASE c = b /\ ~ (0 < q /\ q <= b.pos[s].qty)
  <2>1. w = 0
    BY <1>2, <1>3, <1>6 DEF w
  <2> QED
    BY <1>1, <1>6, <2>1 DEF Alone, w
<1>7. CASE Gave(b, c, s, q)
  <2>1. q > 0 /\ q <= w /\ c.pos[s].qty = w - q /\ Alone(b, c, s)
    BY <1>7 DEF Gave, Alone, w
  <2>2. q = w
    BY <1>2, <1>3, <1>5, <2>1
  <2>3. c.pos[s].qty = 0
    BY <1>2, <2>1, <2>2
  <2> QED
    BY <1>1, <2>1, <2>3
<1> QED
  BY <1>4, <1>6, <1>7

\* One tick of a session strategy: the symbol is of its day and is empty,
\* just bought, or held since the same day.
LEMMA SessionIs ==
  ASSUME NEW st \in [Symbols -> Sessions], NEW b \in Sound, NEW t \in Ticks, NEW k,
         Whole(b, t.sym)
  PROVE  LET r == SessionStep(st, b, t, k)
         IN  /\ r.st \in [Symbols -> Sessions]
             /\ \A x \in Symbols : x = t.sym \/ r.st[x] = st[x]
             /\ r.st[t.sym].day = DayOf(t.ts)
             /\ Alone(b, r.b, t.sym) /\ Whole(r.b, t.sym)
             /\ \/ r.b.pos[t.sym].qty = 0
                \/ r.b.pos[t.sym].qty > b.pos[t.sym].qty
                \/ r.b.pos[t.sym].qty = b.pos[t.sym].qty /\ st[t.sym].day = DayOf(t.ts)
<1> DEFINE s     == t.sym
           day   == DayOf(t.ts)
           fresh == st[s].day # day
           began == [NoSession EXCEPT !.day = day, !.first = t.price]
           from  == IF fresh THEN began ELSE st[s]
           ses   == Opening(from, t.price)
           kept  == IF fresh THEN SellAll(b, s, t.price) ELSE b
           try   == Buy(kept, s, RoundEven(kept.cash * FractionPct, 100 * t.price), t.price)
           shut  == Closing(s, t.ts)
           wants == ShouldEnter(k, ses, t.price)
           buys  == /\ ~ shut /\ ~ ses.entered /\ kept.pos[s].qty = 0
                    /\ wants
                    /\ (kept.cash * FractionPct) \div 100 >= MinOrder
                    /\ try # kept
           done  == ses.entered \/ shut \/ buys
           new   == [ses EXCEPT !.entered = done]
           c     == IF shut THEN SellAll(kept, s, t.price) ELSE IF buys THEN try ELSE kept
<1>1. s \in Symbols /\ t.price \in Nat \ {0} /\ t.ts \in Nat
  BY TickIs
<1>2. day \in Int
  <2>1. DayLen \in Nat \ {0} /\ t.ts \in Int
    BY <1>1, StrategyAssumption
  <2> QED
    BY <2>1, Quotient DEF DayOf
<1>3. began = NewDay(day, t.price)
  BY BeganIs
<1>4. SessionStep(st, b, t, k) =
        [st |-> [st EXCEPT ![s] = [ses EXCEPT !.entered = @ \/ shut \/ buys]], b |-> c]
  BY DEF SessionStep
<1> HIDE DEF began, day
<1>5. from \in Sessions /\ from.day = day
  <2>1. st[s] \in Sessions
    BY <1>1
  <2>2. NewDay(day, t.price) \in Sessions /\ NewDay(day, t.price).day = day
    BY <1>1, <1>2 DEF NewDay, Sessions
  <2> QED
    BY <1>3, <2>1, <2>2
<1>6. fresh => ~ wants
  BY <1>1, <1>2, <1>3, FirstBarWaits
<1> HIDE DEF from
<1>7. ses \in Sessions /\ ses.day = day
  BY <1>1, <1>5, OpeningIs
<1> HIDE DEF ses, shut, wants
<1>8. new \in Sessions /\ new.day = day
  <2>1. done \in BOOLEAN
    OBVIOUS
  <2> HIDE DEF done
  <2> QED
    BY <1>7, <2>1 DEF Sessions
<1>9. [ses EXCEPT !.entered = @ \/ shut \/ buys] = new
  BY <1>7 DEF Sessions
<1> HIDE DEF new
<1>10. kept \in Sound /\ Alone(b, kept, s) /\ Whole(kept, s)
       /\ (IF fresh THEN kept.pos[s].qty = 0 ELSE kept = b)
  <2>1. CASE fresh
    <3> DEFINE gone == SellAll(b, s, t.price)
    <3>1. gone \in Sound /\ gone.pos[s].qty = 0 /\ Alone(b, gone, s)
      BY <1>1, SellAllSound, SellsEverything
    <3>2. kept = gone
      BY <2>1
    <3> HIDE DEF kept, gone, fresh
    <3> QED
      BY <2>1, <3>1, <3>2 DEF Whole
  <2>2. CASE ~ fresh
    <3>1. kept = b
      BY <2>2
    <3> HIDE DEF kept, fresh
    <3> QED
      BY <2>2, <3>1 DEF Alone
  <2> QED
    BY <2>1, <2>2
<1> HIDE DEF kept
<1>11. buys => Rose(kept, try, s) /\ WholeLots(s, try.pos[s].qty) = try.pos[s].qty
  <2> SUFFICES ASSUME buys
               PROVE  Rose(kept, try, s) /\ WholeLots(s, try.pos[s].qty) = try.pos[s].qty
    OBVIOUS
  <2>1. kept.pos[t.sym].qty = 0 /\ try # kept
    OBVIOUS
  <2> HIDE DEF buys
  <2> QED
    BY <1>10, <2>1, FractionBuyRises
<1>12. buys => wants /\ kept.pos[s].qty = 0
  OBVIOUS
<1> DEFINE gone == SellAll(kept, s, t.price)
<1>13. gone.pos[s].qty = 0 /\ Alone(kept, gone, s)
  BY <1>1, <1>10, SellsEverything
<1>14. c = IF shut THEN gone ELSE IF buys THEN try ELSE kept
  OBVIOUS
<1> HIDE DEF buys, try, gone, c, fresh, s
<1>15. /\ Alone(b, c, s) /\ Whole(c, s)
       /\ \/ c.pos[s].qty = 0
          \/ c.pos[s].qty > b.pos[s].qty
          \/ c.pos[s].qty = b.pos[s].qty /\ ~ fresh
  <2>1. CASE shut
    <3>1. c = gone
      BY <1>14, <2>1
    <3> QED
      BY <1>10, <1>13, <3>1 DEF Alone, Whole
  <2>2. CASE ~ shut /\ buys
    <3>1. c = try /\ ~ fresh /\ kept = b
      BY <1>6, <1>10, <1>12, <1>14, <2>2
    <3>2. Rose(b, c, s) /\ WholeLots(s, c.pos[s].qty) = c.pos[s].qty
      BY <1>11, <2>2, <3>1
    <3> QED
      BY <3>2 DEF Rose, Whole
  <2>3. CASE ~ shut /\ ~ buys
    <3>1. c = kept
      BY <1>14, <2>3
    <3>2. CASE fresh
      BY <1>10, <3>1, <3>2
    <3>3. CASE ~ fresh
      BY <1>10, <3>1, <3>3
    <3> QED
      BY <3>2, <3>3
  <2> QED
    BY <2>1, <2>2, <2>3
<1>16. SessionStep(st, b, t, k) = [st |-> [st EXCEPT ![s] = new], b |-> c]
  BY <1>4, <1>9
<1>17. /\ [st EXCEPT ![s] = new] \in [Symbols -> Sessions]
       /\ [st EXCEPT ![s] = new][s] = new
       /\ \A x \in Symbols : x = s \/ [st EXCEPT ![s] = new][x] = st[x]
  BY <1>1, <1>8
<1> DEFINE next == [st EXCEPT ![s] = new]
<1> HIDE DEF next
<1>18. /\ SessionStep(st, b, t, k).st = next /\ SessionStep(st, b, t, k).b = c
       /\ next \in [Symbols -> Sessions] /\ next[s] = new
       /\ \A x \in Symbols : x = s \/ next[x] = st[x]
  BY <1>16, <1>17 DEF next
<1> QED
  BY <1>8, <1>15, <1>18 DEF s, day, fresh

\* Positions are whole lots, and were bought on the day of their session.
SessionInv ==
  kind \in SessionKinds =>
    /\ run.st \in [Symbols -> Sessions]
    /\ \A s \in Symbols : Whole(run.b, s)
    /\ \A s \in Held(run.b) : DayOf(bought[s]) = run.st[s].day

LEMMA ReplayKeepsSessions ==
  ASSUME AccountInv, SessionInv,
         NEW y \in Symbols, NEW p \in Prices, NEW gap \in Gaps \union {0}, Replay(y, p, gap)
  PROVE  SessionInv'
<1> SUFFICES ASSUME kind \in SessionKinds
             PROVE  /\ run'.st \in [Symbols -> Sessions]
                    /\ \A s \in Symbols : Whole(run'.b, s)
                    /\ \A s \in Held(run'.b) : DayOf(bought'[s]) = run'.st[s].day
  BY DEF Replay, SessionInv
<1> DEFINE t == [sym |-> y, price |-> p, ts |-> tick.ts + gap]
           b == Priced(run.b, t)
           did == Step(kind, run.st, b, t)
           st == run.st
           c == did.b
           s == t.sym
<1>1. t \in Ticks
  <2>1. gap \in Nat /\ tick.ts \in Nat
    BY BacktestAssumption DEF AccountInv
  <2> QED
    BY <2>1 DEF Ticks
<1>2. /\ run' = EngineStep(run, did, t)
      /\ bought' = [x \in Symbols |-> IF Qty(run', x) > Qty(run, x) THEN t.ts ELSE bought[x]]
  BY DEF Replay
<1> HIDE DEF t
<1>3. s \in Symbols
  BY <1>1, TickIs
<1>4. b \in Sound /\ b.pos = run.b.pos
  BY <1>1, PricedSound, PricedIs DEF AccountInv, Sound
<1> HIDE DEF b
<1>5. /\ st \in [Symbols -> Sessions] /\ Whole(b, s) /\ \A x \in Symbols : Whole(b, x)
      /\ \A x \in Symbols : b.pos[x].qty > 0 => DayOf(bought[x]) = st[x].day
  BY <1>3, <1>4 DEF SessionInv, Whole, Held
<1>6. c \in Sound
  <2>1. kind # "walk" /\ kind \in Kinds /\ Shaped(kind, run.st)
    BY DEF SessionKinds, AccountInv
  <2> QED
    BY <1>1, <1>4, <2>1, StepSound
<1>7. did = SessionStep(st, b, t, kind)
  BY DEF Step, SessionKinds
<1> HIDE DEF st
<1>8. /\ did.st \in [Symbols -> Sessions]
      /\ \A x \in Symbols : x = s \/ did.st[x] = st[x]
      /\ did.st[s].day = DayOf(t.ts)
      /\ Alone(b, c, s) /\ Whole(c, s)
      /\ \/ c.pos[s].qty = 0
         \/ c.pos[s].qty > b.pos[s].qty
         \/ c.pos[s].qty = b.pos[s].qty /\ st[s].day = DayOf(t.ts)
  <2> HIDE DEF did
  <2> QED
    BY <1>1, <1>4, <1>5, <1>7, SessionIs
<1> HIDE DEF did
<1> DEFINE e == did.st
<1>9. run'.st = e /\ run'.b = c
  BY <1>2 DEF EngineStep
<1> HIDE DEF c, e, s
<1>10. \A x \in Symbols : b.pos[x].qty \in Nat /\ c.pos[x].qty \in Nat
  BY <1>4, <1>6, SoundFields
<1>11. bought' = [x \in Symbols |-> IF c.pos[x].qty > b.pos[x].qty THEN t.ts ELSE bought[x]]
  BY <1>2, <1>4, <1>9 DEF Qty
<1>12. \A x \in Symbols : Whole(c, x)
  BY <1>5, <1>8 DEF Alone, Whole
<1>13. ASSUME NEW x \in Symbols, c.pos[x].qty > 0
       PROVE  DayOf(bought'[x]) = e[x].day
  <2>1. CASE x # s
    <3>1. c.pos[x] = b.pos[x] /\ e[x] = st[x]
      BY <1>8, <2>1 DEF Alone, e
    <3>2. bought'[x] = bought[x]
      BY <1>10, <1>11, <3>1
    <3> QED
      BY <1>5, <1>13, <3>1, <3>2
  <2>2. CASE x = s /\ c.pos[s].qty > b.pos[s].qty
    <3>1. bought'[x] = t.ts /\ e[x].day = DayOf(t.ts)
      BY <1>8, <1>11, <2>2 DEF e
    <3> QED
      BY <3>1
  <2>3. CASE x = s /\ c.pos[s].qty = b.pos[s].qty /\ st[s].day = DayOf(t.ts)
    <3>1. bought'[x] = bought[x] /\ e[x].day = st[x].day /\ b.pos[x].qty > 0
      BY <1>8, <1>10, <1>11, <1>13, <2>3 DEF e
    <3> QED
      BY <1>5, <3>1
  <2> QED
    BY <1>8, <1>10, <1>13, <2>1, <2>2, <2>3
<1>14. e \in [Symbols -> Sessions]
  BY <1>8 DEF e
<1> QED
  BY <1>9, <1>12, <1>13, <1>14 DEF Held

LEMMA SessionStarts == Init => SessionInv
<1> SUFFICES ASSUME Init, kind \in SessionKinds
             PROVE  /\ run.st \in [Symbols -> Sessions]
                    /\ \A s \in Symbols : Whole(run.b, s)
                    /\ \A s \in Held(run.b) : DayOf(bought[s]) = run.st[s].day
  BY DEF SessionInv
<1>1. run.st = State0(kind) /\ run.b = Opened(Initial)
  BY DEF Init, Idle, SessionKinds
<1>2. State0(kind) = [s \in Symbols |-> NoSession]
  BY DEF State0, SessionKinds
<1>3. NoSession \in Sessions
  BY DEF NoSession, Sessions
<1> DEFINE none == NoSession
<1> HIDE DEF none
<1>4. [s \in Symbols |-> none] \in [Symbols -> Sessions]
  BY <1>3 DEF none
<1>5. \A s \in Symbols : run.b.pos[s].qty = 0
  BY <1>1 DEF Opened, Flat
<1>6. Held(run.b) = {}
  BY <1>5 DEF Held
<1> QED
  BY <1>1, <1>2, <1>4, <1>5, <1>6 DEF Whole, none

RulesInv == AccountInv /\ DisciplineInv /\ SessionInv

LEMMA StepKeepsRules ==
  ASSUME Cooldown > 0, RulesInv, [Next]_vars
  PROVE  RulesInv' /\ [KeepsDiscipline /\ NeverOvernight']_vars
<1>1. SessionInv' => NeverOvernight'
  BY DEF SessionInv, NeverOvernight, SessionKinds
<1>2. ASSUME NEW s \in Symbols, NEW p \in Prices, NEW gap \in Gaps \union {0},
             Replay(s, p, gap)
      PROVE  RulesInv' /\ [KeepsDiscipline /\ NeverOvernight']_vars
  <2>1. AccountInv'
    BY <1>2, ReplayKeepsAccount DEF RulesInv
  <2>2. DisciplineInv' /\ KeepsDiscipline
    BY <1>2, ReplayKeepsDiscipline DEF RulesInv
  <2>3. SessionInv'
    BY <1>2, ReplayKeepsSessions DEF RulesInv
  <2> QED
    BY <1>1, <2>1, <2>2, <2>3 DEF RulesInv
<1>3. ASSUME NEW p \in Prices, NEW gap \in Gaps, Collect(p, gap)
      PROVE  RulesInv' /\ [KeepsDiscipline /\ NeverOvernight']_vars
  <2>1. /\ kind = "walk" /\ kind' = kind /\ tick' = tick /\ run' = run
        /\ bought' = bought /\ sold' = sold
    BY <1>3 DEF Collect
  <2>2. RulesInv'
    BY <2>1 DEF RulesInv, AccountInv, DisciplineInv, SessionInv, RuleKinds, SessionKinds
  <2>3. KeepsDiscipline
    BY <2>1 DEF KeepsDiscipline
  <2> QED
    BY <1>1, <2>2, <2>3 DEF RulesInv
<1>4. CASE UNCHANGED vars
  <2>1. RulesInv'
    BY <1>4 DEF vars, RulesInv, AccountInv, DisciplineInv, SessionInv
  <2> QED
    BY <1>4, <2>1
<1> QED
  BY <1>2, <1>3, <1>4 DEF Next

(***************************************************************************)
(* With a cool-down, whatever the ticks and their prices: a disciplined    *)
(* strategy buys only what it does not hold, never within the cool-down    *)
(* after it has sold for whatever reason, and never over the number of     *)
(* positions; and a session strategy carries no position past the first    *)
(* tick of a later day, also when the closing bar was missing              *)
(* (disciplined.on_tick, sma.on_tick, sma_trader._enter, intraday.on_tick). *)
(***************************************************************************)
THEOREM RulesAreKept ==
  ASSUME Cooldown > 0
  PROVE  Spec => StrategyRules
<1>1. Init => RulesInv
  BY AccountStarts, DisciplineStarts, SessionStarts DEF RulesInv
<1>2. RulesInv /\ [Next]_vars => RulesInv' /\ [KeepsDiscipline /\ NeverOvernight']_vars
  BY StepKeepsRules
<1> QED
  BY <1>1, <1>2, PTL DEF Spec, StrategyRules
=============================================================================
