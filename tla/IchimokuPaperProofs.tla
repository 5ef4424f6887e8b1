------------------------- MODULE IchimokuPaperProofs -------------------------
(***************************************************************************)
(* Proofs about the weekly paper runner, for any symbols, prices, windows, *)
(* slots and number of runs: rows of the open week do not speak, a plan    *)
(* can be filled to its end, there are never more positions than slots,    *)
(* and a week is marked only when what should be sold is sold.             *)
(***************************************************************************)
EXTENDS IchimokuPaper, WellFoundedInduction, FiniteSetTheorems, SequenceTheorems, TLAPS

-----------------------------------------------------------------------------
(* Finite sets, their maxima, sums over them and folds over lists.         *)

LEMMA Smallest ==
  ASSUME NEW F, F # {}, \A s \in F : IsFiniteSet(s)
  PROVE  \E s \in F : \A t \in F : Cardinality(s) <= Cardinality(t)
<1> DEFINE N == {Cardinality(s) : s \in F}
<1>1. N \subseteq Nat /\ N # {}
  BY FS_CardinalityType
<1>2. \E n \in N : \A m \in N : ~ (<<m, n>> \in OpToRel(<, Nat))
  BY <1>1, WFMin, NatLessThanWellFounded
<1> HIDE DEF N
<1>3. PICK n \in N : \A m \in N : n <= m
  <2>1. PICK n \in N : \A m \in N : ~ (<<m, n>> \in OpToRel(<, Nat))
    BY <1>2
  <2>2. \A m \in N : n <= m
    <3> SUFFICES ASSUME NEW m \in N, m < n PROVE FALSE
      BY <1>1
    <3>1. <<m, n>> \in OpToRel(<, Nat)
      BY <1>1 DEF OpToRel
    <3> QED
      BY <2>1, <3>1
  <2> QED
    BY <2>2
<1>4. \A s \in F : Cardinality(s) \in N
  BY DEF N
<1>5. PICK s \in F : Cardinality(s) = n
  BY DEF N
<1> QED
  BY <1>3, <1>4, <1>5

LEMMA OneLess ==
  ASSUME NEW S, IsFiniteSet(S), NEW x \in S
  PROVE  /\ IsFiniteSet(S \ {x})
         /\ Cardinality(S \ {x}) \in Nat
         /\ Cardinality(S) = Cardinality(S \ {x}) + 1
<1>1. /\ IsFiniteSet(S \ {x})
      /\ Cardinality(S \ {x}) = Cardinality(S) - 1
  BY FS_RemoveElement
<1>2. Cardinality(S) \in Nat /\ Cardinality(S \ {x}) \in Nat
  BY <1>1, FS_CardinalityType
<1> QED
  BY <1>1, <1>2

LEMMA Extremes ==
  ASSUME NEW S \in SUBSET Int, IsFiniteSet(S), S # {}
  PROVE  /\ Max(S) \in S /\ Min(S) \in S
         /\ \A y \in S : Min(S) <= y /\ y <= Max(S)
<1> DEFINE Has(t) == /\ \E x \in t : \A y \in t : x >= y
                     /\ \E x \in t : \A y \in t : x <= y
           Bad == {t \in SUBSET S : t # {} /\ ~ Has(t)}
<1>1. Bad = {}
  <2> SUFFICES ASSUME Bad # {} PROVE FALSE
    OBVIOUS
  <2>1. \A t \in Bad : IsFiniteSet(t)
    BY FS_Subset
  <2> HIDE DEF Bad
  <2>2. PICK t \in Bad : \A u \in Bad : Cardinality(t) <= Cardinality(u)
    BY <2>1, Smallest
  <2>3. t \in SUBSET S /\ t # {} /\ ~ Has(t)
    BY DEF Bad
  <2>4. PICK x \in t : x \in Int
    BY <2>3
  <2>5. t \ {x} \notin Bad
    BY <2>1, <2>2, <2>4, OneLess
  <2>6. t \ {x} = {} \/ Has(t \ {x})
    BY <2>3, <2>5 DEF Bad
  <2>7. Has(t)
    <3>1. \A y \in t : y \in Int
      BY <2>3
    <3>2. CASE t \ {x} = {}
      BY <2>4, <3>1, <3>2
    <3>3. CASE Has(t \ {x})
      <4>1. PICK a \in t \ {x} : \A y \in t \ {x} : a >= y
        BY <3>3
      <4>2. PICK b \in t \ {x} : \A y \in t \ {x} : b <= y
        BY <3>3
      <4>3. (\A y \in t : a >= y) \/ (\A y \in t : x >= y)
        BY <2>4, <3>1, <4>1
      <4>4. (\A y \in t : b <= y) \/ (\A y \in t : x <= y)
        BY <2>4, <3>1, <4>2
      <4> QED
        BY <2>4, <4>1, <4>2, <4>3, <4>4
    <3> QED
      BY <2>6, <3>2, <3>3
  <2> QED
    BY <2>3, <2>7
<1>2. Has(S)
  BY <1>1
<1>3. Max(S) \in S /\ \A y \in S : Max(S) >= y
  BY <1>2 DEF Max
<1>4. Min(S) \in S /\ \A y \in S : Min(S) <= y
  BY <1>2 DEF Min
<1>5. \A y \in S : Max(S) \in Int /\ y \in Int
  BY <1>3
<1> QED
  BY <1>3, <1>4, <1>5

LEMMA LastPlace ==
  ASSUME NEW n \in Nat, NEW s \in SUBSET (1..n), s # {}
  PROVE  Max(s) \in s /\ \A y \in s : y <= Max(s)
<1>1. s \in SUBSET Int
  OBVIOUS
<1>2. IsFiniteSet(s)
  <2>1. IsFiniteSet(1..n)
    BY FS_Interval
  <2> QED
    BY <2>1, FS_Subset
<1> QED
  BY <1>1, <1>2, Extremes

LEMMA PlaceInduction ==
  ASSUME NEW n \in Nat, NEW P, {} \in P,
         \A s \in SUBSET (1..n) : s # {} /\ s \ {Max(s)} \in P => s \in P
  PROVE  \A s \in SUBSET (1..n) : s \in P
<1> DEFINE Bad == {s \in SUBSET (1..n) : s \notin P}
<1> SUFFICES ASSUME Bad # {} PROVE FALSE
  OBVIOUS
<1>1. \A s \in Bad : IsFiniteSet(s)
  <2>1. IsFiniteSet(1..n)
    BY FS_Interval
  <2> QED
    BY <2>1, FS_Subset
<1>2. PICK s \in Bad : \A t \in Bad : Cardinality(s) <= Cardinality(t)
  <2> HIDE DEF Bad
  <2> QED
    BY <1>1, Smallest
<1>3. s # {} /\ s \in SUBSET (1..n) /\ s \notin P
  OBVIOUS
<1>4. Max(s) \in s
  BY <1>3, LastPlace
<1>5. s \ {Max(s)} \in SUBSET (1..n)
  BY <1>3
<1>6. Cardinality(s \ {Max(s)}) \in Nat /\ Cardinality(s) \in Nat
  <2>1. IsFiniteSet(s)
    BY <1>1
  <2> HIDE DEF Bad
  <2>2. Cardinality(s) \in Nat
    BY <2>1, FS_CardinalityType
  <2>3. Cardinality(s \ {Max(s)}) \in Nat
    BY <1>4, <2>1, OneLess
  <2> QED
    BY <2>2, <2>3
<1>7. Cardinality(s \ {Max(s)}) < Cardinality(s)
  <2> HIDE DEF Bad
  <2>1. IsFiniteSet(s)
    BY <1>1
  <2>2. Cardinality(s) = Cardinality(s \ {Max(s)}) + 1
    BY <1>4, <2>1, OneLess
  <2> QED
    BY <1>6, <2>2
<1>8. s \ {Max(s)} \notin Bad
  <2> HIDE DEF Bad
  <2> QED
    BY <1>2, <1>6, <1>7
<1> QED
  BY <1>3, <1>5, <1>8

LEMMA SameLast ==
  ASSUME NEW n \in Nat, NEW s \in SUBSET (1..n), NEW t \in SUBSET s, s # {}, Max(s) \in t
  PROVE  Max(t) = Max(s)
<1>1. /\ Max(s) \in s /\ \A y \in s : y <= Max(s)
      /\ Max(t) \in t /\ \A y \in t : y <= Max(t)
  BY LastPlace
<1>2. s \subseteq 1..n /\ 1..n \subseteq Nat
  OBVIOUS
<1>3. Max(s) \in Nat /\ Max(t) \in Nat
  BY <1>1, <1>2, Zenon
<1>4. Max(t) <= Max(s) /\ Max(s) <= Max(t)
  BY <1>1
<1> QED
  BY <1>3, <1>4

\* A fold over places whose values stay in a set T.
Folds(g, base, F, D) ==
  g = [s \in D |-> IF s = {} THEN base ELSE F[<<g[s \ {Max(s)}], Max(s)>>]]

LEMMA FoldExists ==
  ASSUME NEW n \in Nat, NEW base, NEW F
  PROVE  \E g : Folds(g, base, F, SUBSET (1..n))
<1> DEFINE P == {s \in SUBSET (1..n) : \E g : Folds(g, base, F, SUBSET s)}
<1>1. {} \in P
  <2>1. SUBSET {} = {{}}
    OBVIOUS
  <2>2. Folds([s \in {{}} |-> base], base, F, {{}})
    BY DEF Folds
  <2> QED
    BY <2>1, <2>2
<1>2. ASSUME NEW s \in SUBSET (1..n), s # {}, s \ {Max(s)} \in P
      PROVE  s \in P
  <2> DEFINE m == Max(s)
  <2>1. PICK g : Folds(g, base, F, SUBSET (s \ {m}))
    BY <1>2
  <2> HIDE DEF m
  <2> DEFINE h == [t \in SUBSET s |-> IF m \in t THEN F[<<g[t \ {m}], m>>] ELSE g[t]]
  <2>2. ASSUME NEW t \in SUBSET s
        PROVE  h[t] = IF t = {} THEN base ELSE F[<<h[t \ {Max(t)}], Max(t)>>]
    <3>1. CASE m \in t
      <4>1. Max(t) = m
        BY <1>2, <3>1, SameLast DEF m
      <4>2. h[t \ {m}] = g[t \ {m}]
        OBVIOUS
      <4> QED
        BY <3>1, <4>1, <4>2
    <3>2. CASE m \notin t
      <4>1. t \in SUBSET (s \ {m}) /\ h[t] = g[t]
        BY <3>2
      <4>2. g[t] = IF t = {} THEN base ELSE F[<<g[t \ {Max(t)}], Max(t)>>]
        BY <2>1, <4>1 DEF Folds
      <4>3. h[t \ {Max(t)}] = g[t \ {Max(t)}]
        BY <3>2
      <4> QED
        BY <4>1, <4>2, <4>3
    <3> QED
      BY <3>1, <3>2
  <2>3. Folds(h, base, F, SUBSET s)
    <3> HIDE DEF m
    <3>1. DOMAIN h = SUBSET s /\ h = [t \in SUBSET s |-> h[t]]
      OBVIOUS
    <3> HIDE DEF h
    <3> QED
      BY <2>2, <3>1 DEF Folds
  <2> QED
    BY <2>3
<1> HIDE DEF P
<1>3. \A s \in SUBSET (1..n) : s \in P
  BY <1>1, <1>2, PlaceInduction
<1> QED
  BY <1>3 DEF P

LEMMA FoldType ==
  ASSUME NEW n \in Nat, NEW T, NEW base \in T, NEW F \in [T \X (1..n) -> T],
         NEW g, Folds(g, base, F, SUBSET (1..n))
  PROVE  \A s \in SUBSET (1..n) : g[s] \in T
<1> DEFINE P == {s \in SUBSET (1..n) : g[s] \in T}
<1>1. {} \in P
  BY DEF Folds
<1>2. ASSUME NEW s \in SUBSET (1..n), s # {}, s \ {Max(s)} \in P
      PROVE  s \in P
  <2>1. Max(s) \in 1..n /\ g[s \ {Max(s)}] \in T
    BY <1>2, LastPlace
  <2>2. g[s] = F[<<g[s \ {Max(s)}], Max(s)>>]
    BY <1>2 DEF Folds
  <2> QED
    BY <2>1, <2>2
<1> HIDE DEF P
<1>3. \A s \in SUBSET (1..n) : s \in P
  BY <1>1, <1>2, PlaceInduction
<1> QED
  BY <1>3 DEF P

\* The element a fold takes out of a set first, and the equation of the fold
\* that SumFunctionOnSet is, on a collection D of sets.
Pick(s) == CHOOSE x \in s : TRUE

Adds(g, f, D) ==
  g = [s \in D |-> IF s = {} THEN 0 ELSE f[Pick(s)] + g[s \ {Pick(s)}]]

LEMMA SumIsFold ==
  ASSUME NEW f, NEW S
  PROVE  SumFunctionOnSet(f, S) = (CHOOSE g : Adds(g, f, SUBSET S))[S]
BY DEF SumFunctionOnSet, FoldFunctionOnSet, MapThenFoldSet, Adds, Pick

LEMMA PickIn ==
  ASSUME NEW s, s # {}
  PROVE  Pick(s) \in s
BY DEF Pick

\* The fold exists: built up over the subsets of at most n elements.
LEMMA AddsExists ==
  ASSUME NEW f, NEW S, IsFiniteSet(S)
  PROVE  \E g : Adds(g, f, SUBSET S)
<1> DEFINE D(n) == {s \in SUBSET S : Cardinality(s) <= n}
           Bad == {n \in Nat : ~ \E g : Adds(g, f, D(n))}
<1>1. \A s \in SUBSET S : IsFiniteSet(s) /\ Cardinality(s) \in Nat
  BY FS_Subset, FS_CardinalityType
<1>2. Bad = {}
  <2> SUFFICES ASSUME Bad # {} PROVE FALSE
    OBVIOUS
  <2>1. \E n \in Bad : \A m \in Bad : ~ (<<m, n>> \in OpToRel(<, Nat))
    BY WFMin, NatLessThanWellFounded
  <2>2. PICK n \in Bad : \A m \in Bad : ~ (m < n)
    <3>1. PICK n \in Bad : \A m \in Bad : ~ (<<m, n>> \in OpToRel(<, Nat))
      BY <2>1
    <3>2. \A m \in Bad : m < n => <<m, n>> \in OpToRel(<, Nat)
      BY DEF OpToRel
    <3> QED
      BY <3>1, <3>2
  <2>3. CASE n = 0
    <3>1. \A s \in D(0) : s = {}
      BY <1>1, FS_EmptySet
    <3>2. Adds([s \in D(0) |-> 0], f, D(0))
      BY <3>1 DEF Adds
    <3> QED
      BY <2>3, <3>2
  <2>4. CASE n # 0
    <3>1. n - 1 \in Nat /\ n - 1 \notin Bad
      <4>1. n \in Nat /\ n # 0
        BY <2>4
      <4>2. n - 1 \in Nat /\ n - 1 < n
        BY <4>1
      <4> HIDE DEF Bad
      <4> QED
        BY <2>2, <4>2
    <3>2. PICK g : Adds(g, f, D(n - 1))
      BY <3>1
    <3> DEFINE h == [s \in D(n) |->
                       IF s = {} THEN 0 ELSE f[Pick(s)] + g[s \ {Pick(s)}]]
    <3>3. ASSUME NEW s \in D(n), s # {}
          PROVE  h[s \ {Pick(s)}] = g[s \ {Pick(s)}]
      <4> DEFINE t == s \ {Pick(s)}
      <4>1. t \in D(n - 1) /\ t \in D(n)
        <5>1. Pick(s) \in s /\ s \in SUBSET S
          BY <3>3, PickIn
        <5>2. Cardinality(s) = Cardinality(t) + 1 /\ Cardinality(t) \in Nat
          BY <1>1, <5>1, OneLess
        <5> QED
          BY <5>1, <5>2
      <4> HIDE DEF D
      <4> QED
        BY <3>2, <4>1 DEF Adds
    <3>4. Adds(h, f, D(n))
      <4> HIDE DEF D
      <4>1. h = [s \in D(n) |->
                   IF s = {} THEN 0 ELSE f[Pick(s)] + h[s \ {Pick(s)}]]
        BY <3>3
      <4> HIDE DEF h
      <4> QED
        BY <4>1 DEF Adds
    <3> QED
      BY <3>4
  <2> QED
    BY <2>3, <2>4
<1>3. Cardinality(S) \in Nat
  BY <1>1
<1>4. D(Cardinality(S)) = SUBSET S
  BY <1>1, FS_Subset
<1> HIDE DEF D
<1> QED
  BY <1>2, <1>3, <1>4

\* Two folds of functions that agree agree on what both fold.
LEMMA AddsSame ==
  ASSUME NEW f, NEW h, NEW A, NEW B, NEW g, NEW k,
         Adds(g, f, SUBSET A), Adds(k, h, SUBSET B),
         NEW S, IsFiniteSet(S), S \subseteq A, S \subseteq B,
         \A x \in S : f[x] = h[x]
  PROVE  g[S] = k[S]
<1> DEFINE Bad == {s \in SUBSET S : g[s] # k[s]}
<1> SUFFICES Bad = {}
  OBVIOUS
<1> SUFFICES ASSUME Bad # {} PROVE FALSE
  OBVIOUS
<1>1. \A s \in Bad : IsFiniteSet(s)
  BY FS_Subset
<1>2. PICK s \in Bad : \A t \in Bad : Cardinality(s) <= Cardinality(t)
  BY <1>1, Smallest
<1>3. /\ g[s] = IF s = {} THEN 0 ELSE f[Pick(s)] + g[s \ {Pick(s)}]
      /\ k[s] = IF s = {} THEN 0 ELSE h[Pick(s)] + k[s \ {Pick(s)}]
  <2>1. s \in SUBSET A /\ s \in SUBSET B
    OBVIOUS
  <2> HIDE DEF Bad
  <2> QED
    BY <2>1 DEF Adds
<1>4. s # {}
  BY <1>3
<1>5. Pick(s) \in s /\ f[Pick(s)] = h[Pick(s)]
  BY <1>4, PickIn
<1>6. s \ {Pick(s)} \notin Bad
  BY <1>1, <1>2, <1>5, OneLess
<1>7. g[s \ {Pick(s)}] = k[s \ {Pick(s)}]
  BY <1>6
<1> QED
  BY <1>3, <1>4, <1>5, <1>7

LEMMA SumStep ==
  ASSUME NEW f, NEW S, IsFiniteSet(S)
  PROVE  SumFunctionOnSet(f, S) =
           IF S = {} THEN 0
           ELSE f[Pick(S)] + SumFunctionOnSet(f, S \ {Pick(S)})
<1> DEFINE T == S \ {Pick(S)}
           g == CHOOSE g : Adds(g, f, SUBSET S)
           k == CHOOSE k : Adds(k, f, SUBSET T)
<1>1. T \subseteq S /\ IsFiniteSet(T)
  BY FS_Subset
<1>2. Adds(g, f, SUBSET S) /\ Adds(k, f, SUBSET T)
  BY <1>1, AddsExists
<1>3. SumFunctionOnSet(f, S) = g[S] /\ SumFunctionOnSet(f, T) = k[T]
  BY SumIsFold
<1> HIDE DEF g, k
<1> HIDE DEF T
<1>4. g[T] = k[T]
  <2>1. \A x \in T : f[x] = f[x]
    OBVIOUS
  <2>2. T \subseteq T
    OBVIOUS
  <2> QED
    BY <1>1, <1>2, <2>1, <2>2, AddsSame
<1>5. g[S] = IF S = {} THEN 0 ELSE f[Pick(S)] + g[T]
  BY <1>2 DEF Adds, T
<1> QED
  BY <1>3, <1>4, <1>5 DEF T

LEMMA SumSame ==
  ASSUME NEW f, NEW h, NEW S, IsFiniteSet(S), \A x \in S : f[x] = h[x]
  PROVE  SumFunctionOnSet(f, S) = SumFunctionOnSet(h, S)
<1> DEFINE g == CHOOSE g : Adds(g, f, SUBSET S)
           k == CHOOSE k : Adds(k, h, SUBSET S)
<1>1. Adds(g, f, SUBSET S) /\ Adds(k, h, SUBSET S)
  BY AddsExists
<1>2. SumFunctionOnSet(f, S) = g[S] /\ SumFunctionOnSet(h, S) = k[S]
  BY SumIsFold
<1> HIDE DEF g, k
<1> QED
  BY <1>1, <1>2, AddsSame

LEMMA SumInt ==
  ASSUME NEW f, NEW S, IsFiniteSet(S), \A x \in S : f[x] \in Int
  PROVE  SumFunctionOnSet(f, S) \in Int
<1> DEFINE Bad == {s \in SUBSET S : SumFunctionOnSet(f, s) \notin Int}
<1> SUFFICES ASSUME Bad # {} PROVE FALSE
  OBVIOUS
<1>1. \A s \in Bad : IsFiniteSet(s)
  BY FS_Subset
<1>2. PICK s \in Bad : \A t \in Bad : Cardinality(s) <= Cardinality(t)
  BY <1>1, Smallest
<1>3. SumFunctionOnSet(f, s) =
        IF s = {} THEN 0 ELSE f[Pick(s)] + SumFunctionOnSet(f, s \ {Pick(s)})
  BY <1>1, SumStep
<1>4. s # {} /\ Pick(s) \in s /\ f[Pick(s)] \in Int
  BY <1>3, PickIn
<1>5. s \ {Pick(s)} \notin Bad
  BY <1>1, <1>2, <1>4, OneLess
<1> QED
  BY <1>3, <1>4, <1>5

\* Any element can be taken out, not only the one the fold takes first.
LEMMA SumRemove ==
  ASSUME NEW f, NEW S, IsFiniteSet(S), \A x \in S : f[x] \in Int, NEW a \in S
  PROVE  SumFunctionOnSet(f, S) = f[a] + SumFunctionOnSet(f, S \ {a})
<1> DEFINE Total(s) == SumFunctionOnSet(f, s)
           Bad == {s \in SUBSET S :
                     \E x \in s : Total(s) # f[x] + Total(s \ {x})}
<1> SUFFICES ASSUME Bad # {} PROVE FALSE
  OBVIOUS
<1>1. \A s \in SUBSET S : IsFiniteSet(s)
  BY FS_Subset
<1>2. PICK s \in Bad : \A t \in Bad : Cardinality(s) <= Cardinality(t)
  BY <1>1, Smallest
<1>3. PICK x \in s : Total(s) # f[x] + Total(s \ {x})
  OBVIOUS
<1> DEFINE c == Pick(s)
<1>4. c \in s /\ Total(s) = f[c] + Total(s \ {c})
  BY <1>1, <1>3, SumStep, PickIn
<1>5. x # c
  BY <1>3, <1>4
<1>6. s \ {c} \notin Bad /\ s \ {x} \notin Bad
  <2>1. IsFiniteSet(s)
    BY <1>1
  <2>2. ASSUME NEW y \in s
        PROVE  s \ {y} \notin Bad
    <3>1. /\ Cardinality(s \ {y}) \in Nat
          /\ Cardinality(s) = Cardinality(s \ {y}) + 1
      BY <2>1, OneLess
    <3>2. ~ (Cardinality(s) <= Cardinality(s \ {y}))
      BY <3>1
    <3> HIDE DEF Bad
    <3> QED
      BY <1>2, <3>2
  <2> HIDE DEF Bad, c
  <2> QED
    BY <1>3, <1>4, <2>2
<1>7. /\ Total(s \ {c}) = f[x] + Total((s \ {c}) \ {x})
      /\ Total(s \ {x}) = f[c] + Total((s \ {x}) \ {c})
  BY <1>3, <1>4, <1>5, <1>6
<1>8. (s \ {c}) \ {x} = (s \ {x}) \ {c}
  OBVIOUS
<1>9. f[x] \in Int /\ f[c] \in Int /\ Total((s \ {c}) \ {x}) \in Int
  <2>1. (s \ {c}) \ {x} \in SUBSET S
    OBVIOUS
  <2> QED
    BY <1>1, <1>3, <1>4, <2>1, SumInt
<1> HIDE DEF Total, c, Bad
<1>10. Total(s) = f[c] + (f[x] + Total((s \ {c}) \ {x}))
  BY <1>4, <1>7
<1>11. f[x] + Total(s \ {x}) = f[x] + (f[c] + Total((s \ {c}) \ {x}))
  BY <1>7, <1>8
<1> QED
  BY <1>3, <1>9, <1>10, <1>11

\* One more element.
LEMMA SumAdd ==
  ASSUME NEW f, NEW h, NEW S, IsFiniteSet(S), NEW a, a \notin S,
         DOMAIN f = S \union {a}, DOMAIN h = S,
         \A x \in S : f[x] = h[x] /\ f[x] \in Int, f[a] \in Int
  PROVE  SumFunction(f) = f[a] + SumFunction(h)
<1>1. IsFiniteSet(S \union {a}) /\ (S \union {a}) \ {a} = S
  BY FS_AddElement
<1>2. SumFunctionOnSet(f, S \union {a}) = f[a] + SumFunctionOnSet(f, S)
  BY <1>1, SumRemove
<1>3. SumFunctionOnSet(f, S) = SumFunctionOnSet(h, S)
  BY SumSame
<1> QED
  BY <1>2, <1>3 DEF SumFunction

LEMMA SumOfNone ==
  ASSUME NEW f, DOMAIN f = {}
  PROVE  SumFunction(f) = 0
BY SumStep, FS_EmptySet DEF SumFunction

-----------------------------------------------------------------------------
(* A finite set in a strict total order: every member has its place.       *)

StrictOrder(S, R) ==
  /\ \A x \in S : <<x, x>> \notin R
  /\ \A x, y \in S : x # y => <<x, y>> \in R \/ <<y, x>> \in R
  /\ \A x, y, z \in S : <<x, y>> \in R /\ <<y, z>> \in R => <<x, z>> \in R

\* q lists S, everything once.
Lists(q, S) ==
  /\ q \in [1..Cardinality(S) -> S]
  /\ \A i, j \in 1..Cardinality(S) : i # j => q[i] # q[j]
  /\ \A x \in S : \E k \in 1..Cardinality(S) : q[k] = x

LEMMA InOrderLists ==
  ASSUME NEW S, IsFiniteSet(S), NEW R, StrictOrder(S, R)
  PROVE  Cardinality(S) \in Nat /\ Lists(InOrder(S, R), S)
<1> DEFINE n == Cardinality(S)
           below(x) == {y \in S : <<y, x>> \in R}
           rank == [x \in S |-> Cardinality(below(x))]
<1>1. n \in Nat
  BY FS_CardinalityType
<1>2. ASSUME NEW x \in S
      PROVE  IsFiniteSet(below(x)) /\ Cardinality(below(x)) \in 0..n - 1
  <2>1. below(x) \in SUBSET (S \ {x})
    BY DEF StrictOrder
  <2>2. IsFiniteSet(S \ {x}) /\ Cardinality(S \ {x}) \in Nat /\ n = Cardinality(S \ {x}) + 1
    BY OneLess
  <2> HIDE DEF below, n
  <2>3. IsFiniteSet(below(x)) /\ Cardinality(below(x)) <= Cardinality(S \ {x})
    BY <2>1, <2>2, FS_Subset
  <2>4. Cardinality(below(x)) \in Nat
    BY <2>3, FS_CardinalityType
  <2> QED
    BY <2>2, <2>3, <2>4
<1>3. ASSUME NEW x \in S, NEW y \in S, <<x, y>> \in R
      PROVE  Cardinality(below(x)) < Cardinality(below(y))
  <2>1. below(x) \in SUBSET (below(y) \ {x})
    BY <1>3 DEF StrictOrder
  <2>2. x \in below(y) /\ IsFiniteSet(below(y)) /\ IsFiniteSet(below(x))
    BY <1>2, <1>3
  <2> HIDE DEF below
  <2>3. /\ IsFiniteSet(below(y) \ {x}) /\ Cardinality(below(y) \ {x}) \in Nat
        /\ Cardinality(below(y)) = Cardinality(below(y) \ {x}) + 1
    BY <2>2, OneLess
  <2>4. Cardinality(below(x)) <= Cardinality(below(y) \ {x}) /\ Cardinality(below(x)) \in Nat
    BY <2>1, <2>2, <2>3, FS_Subset, FS_CardinalityType
  <2> QED
    BY <2>3, <2>4
<1>4. \A x, y \in S : x # y => rank[x] # rank[y]
  <2> SUFFICES ASSUME NEW x \in S, NEW y \in S, x # y
               PROVE  rank[x] # rank[y]
    OBVIOUS
  <2>1. <<x, y>> \in R \/ <<y, x>> \in R
    BY DEF StrictOrder
  <2>2. rank[x] < rank[y] \/ rank[y] < rank[x]
    BY <1>3, <2>1
  <2>3. rank[x] \in Int /\ rank[y] \in Int
    BY <1>2
  <2> HIDE DEF rank
  <2> QED
    BY <2>2, <2>3
<1>5. rank \in [S -> 0..n - 1]
  BY <1>2
<1>6. \A k \in 0..n - 1 : \E x \in S : rank[x] = k
  <2>1. IsFiniteSet(0..n - 1) /\ Cardinality(0..n - 1) = n
    BY <1>1, FS_Interval
  <2> HIDE DEF rank
  <2>2. rank \in Injection(S, 0..n - 1)
    BY <1>4, <1>5 DEF Injection, IsInjective
  <2>3. rank \in Surjection(S, 0..n - 1)
    BY <2>1, <2>2, FS_Injection
  <2> QED
    BY <2>3 DEF Surjection
<1> DEFINE q == InOrder(S, R)
<1>7. ASSUME NEW k \in 1..n
      PROVE  q[k] \in S /\ rank[q[k]] = k - 1
  <2>1. \E x \in S : Cardinality(below(x)) = k - 1
    <3>1. k - 1 \in 0..n - 1
      BY <1>1
    <3> QED
      BY <1>6, <3>1
  <2>2. q[k] = CHOOSE x \in S : Cardinality(below(x)) = k - 1
    BY DEF InOrder
  <2> QED
    BY <2>1, <2>2
<1>8. q \in [1..n -> S]
  <2> DEFINE at(k) == CHOOSE x \in S : Cardinality(below(x)) = k - 1
  <2>1. q = [k \in 1..n |-> at(k)]
    BY DEF InOrder
  <2> HIDE DEF at, q
  <2> QED
    BY <1>7, <2>1
<1> HIDE DEF q, rank
<1>9. \A i, j \in 1..n : i # j => q[i] # q[j]
  BY <1>1, <1>7
<1>10. \A x \in S : \E k \in 1..n : q[k] = x
  <2> SUFFICES ASSUME NEW x \in S PROVE \E k \in 1..n : q[k] = x
    OBVIOUS
  <2>1. rank[x] \in 0..n - 1
    BY <1>5
  <2>2. rank[x] + 1 \in 1..n /\ (rank[x] + 1) - 1 = rank[x]
    BY <1>1, <2>1
  <2>3. rank[q[rank[x] + 1]] = rank[x] /\ q[rank[x] + 1] \in S
    BY <1>7, <2>2
  <2> QED
    BY <1>4, <2>2, <2>3
<1> QED
  BY <1>1, <1>8, <1>9, <1>10 DEF q, Lists

-----------------------------------------------------------------------------
(* Rows and weeks.                                                         *)

Row == [day : Nat, price : Nat \ {0}]

Extends(old, new) ==
  Len(old) <= Len(new) /\ \A i \in 1..Len(old) : new[i] = old[i]

LEMMA RowsAre ==
  ASSUME NEW q \in Seq(Row)
  PROVE  /\ Len(q) \in Nat /\ DOMAIN q = 1..Len(q)
         /\ \A i \in DOMAIN q : /\ q[i] \in Row
                              /\ q[i].day \in Nat /\ q[i].price \in Nat \ {0}
<1>1. \A i \in DOMAIN q : q[i] \in Row
  OBVIOUS
<1>2. \A r \in Row : r.day \in Nat /\ r.price \in Nat \ {0}
  BY DEF Row
<1> QED
  BY <1>1, <1>2

LEMMA LastRow ==
  ASSUME NEW q \in Seq(Row), q # <<>>
  PROVE  /\ Len(q) \in Nat \ {0} /\ Last(q) = q[Len(q)] /\ Last(q) \in Row
         /\ Last(q).day \in Nat /\ Last(q).price \in Nat \ {0}
<1>1. Len(q) \in Nat \ {0} /\ Last(q) = q[Len(q)]
  BY DEF Last
<1>2. Len(q) \in DOMAIN q
  BY <1>1
<1> QED
  BY <1>1, <1>2, RowsAre

Weeks(q, d) == {WeekOf(q[i].day) : i \in DOMAIN q} \ {WeekOf(d)}

LEMMA WeeksAre ==
  ASSUME NEW q \in Seq(Row), NEW d
  PROVE  /\ IsFiniteSet(Weeks(q, d)) /\ Weeks(q, d) \subseteq Nat
         /\ StrictOrder(Weeks(q, d), Earlier(Weeks(q, d)))
<1> DEFINE I == {i \in DOMAIN q : WeekOf(q[i].day) # WeekOf(d)}
           f == [i \in I |-> WeekOf(q[i].day)]
<1>1. IsFiniteSet(I)
  <2>1. IsFiniteSet(1..Len(q)) /\ I \in SUBSET (1..Len(q))
    BY FS_Interval
  <2> QED
    BY <2>1, FS_Subset
<1>2. f \in Surjection(I, Weeks(q, d))
  BY DEF Surjection, Weeks
<1>3. IsFiniteSet(Weeks(q, d))
  BY <1>1, <1>2, FS_Surjection
<1>4. Weeks(q, d) \subseteq Nat
  <2>1. \A i \in DOMAIN q : q[i].day \in Nat
    BY RowsAre
  <2>2. DaysPerWeek \in Nat \ {0}
    BY WindowsAssumption
  <2> QED
    <3>1. \A n \in Nat : WeekOf(n) \in Nat
      BY <2>2 DEF WeekOf
    <3> QED
      BY <2>1, <3>1 DEF Weeks
<1>5. ASSUME NEW S \in SUBSET Nat
      PROVE  StrictOrder(S, Earlier(S))
  BY DEF StrictOrder, Earlier
<1> QED
  BY <1>3, <1>4, <1>5

Days(q, w) == {i \in DOMAIN q : WeekOf(q[i].day) = w}

LEMMA BarIs ==
  ASSUME NEW q, NEW w
  PROVE  Bar(q, w) = [week  |-> w,
                      high  |-> Max({q[i].price : i \in Days(q, w)}),
                      low   |-> Min({q[i].price : i \in Days(q, w)}),
                      close |-> q[Max(Days(q, w))].price]
BY DEF Bar, Days

LEMMA BarsAre ==
  ASSUME NEW q \in Seq(Row), NEW d
  PROVE  \E order \in Seq(Weeks(q, d)) :
           /\ order = InOrder(Weeks(q, d), Earlier(Weeks(q, d)))
           /\ WeeklyBars(q, d) = [k \in 1..Len(order) |-> Bar(q, order[k])]
<1> DEFINE order == InOrder(Weeks(q, d), Earlier(Weeks(q, d)))
           n == Cardinality(Weeks(q, d))
<1>1. n \in Nat /\ order \in [1..n -> Weeks(q, d)]
  BY WeeksAre, InOrderLists DEF Lists
<1>2. WeeklyBars(q, d) = [k \in DOMAIN order |-> Bar(q, order[k])]
  BY DEF WeeklyBars, Weeks
<1> HIDE DEF order, n
<1>3. order \in Seq(Weeks(q, d)) /\ DOMAIN order = 1..Len(order)
  BY <1>1
<1> QED
  BY <1>2, <1>3 DEF order

\* Every week of the bars has rows.
LEMMA DaysAre ==
  ASSUME NEW q \in Seq(Row), NEW d, NEW w \in Weeks(q, d)
  PROVE  /\ Days(q, w) \in SUBSET (1..Len(q)) /\ Days(q, w) # {}
         /\ Max(Days(q, w)) \in Days(q, w)
<1>1. Days(q, w) \in SUBSET (1..Len(q)) /\ Len(q) \in Nat
  BY DEF Days
<1>2. Days(q, w) # {}
  BY DEF Days, Weeks
<1> QED
  BY <1>1, <1>2, LastPlace

\* Rows of the week of d do not change the bars of the weeks before it.
LEMMA SameBars ==
  ASSUME NEW old \in Seq(Row), NEW new \in Seq(Row), Extends(old, new), NEW d,
         \A i \in DOMAIN new \ DOMAIN old : WeekOf(new[i].day) = WeekOf(d)
  PROVE  WeeklyBars(new, d) = WeeklyBars(old, d)
<1>1. /\ DOMAIN old \subseteq DOMAIN new /\ DOMAIN old = 1..Len(old)
      /\ \A i \in DOMAIN old : new[i] = old[i]
  BY DEF Extends
<1>2. Weeks(new, d) = Weeks(old, d)
  BY <1>1 DEF Weeks
<1>3. ASSUME NEW w \in Weeks(old, d)
      PROVE  Bar(new, w) = Bar(old, w)
  <2>1. w # WeekOf(d)
    BY DEF Weeks
  <2>2. Days(new, w) = Days(old, w)
    BY <1>1, <2>1 DEF Days
  <2>3. \A i \in Days(old, w) : new[i] = old[i]
    BY <1>1 DEF Days
  <2>4. {new[i].price : i \in Days(new, w)} = {old[i].price : i \in Days(old, w)}
    BY <2>2, <2>3
  <2>5. new[Max(Days(new, w))] = old[Max(Days(old, w))]
    BY <2>2, <2>3, DaysAre
  <2> QED
    BY <2>4, <2>5, BarIs
<1>4. PICK a \in Seq(Weeks(new, d)) :
        /\ a = InOrder(Weeks(new, d), Earlier(Weeks(new, d)))
        /\ WeeklyBars(new, d) = [k \in 1..Len(a) |-> Bar(new, a[k])]
  BY BarsAre
<1>5. PICK b \in Seq(Weeks(old, d)) :
        /\ b = InOrder(Weeks(old, d), Earlier(Weeks(old, d)))
        /\ WeeklyBars(old, d) = [k \in 1..Len(b) |-> Bar(old, b[k])]
  BY BarsAre
<1>6. a = b /\ \A k \in 1..Len(b) : b[k] \in Weeks(old, d)
  BY <1>2, <1>4, <1>5
<1>7. \A k \in 1..Len(b) : Bar(new, b[k]) = Bar(old, b[k])
  BY <1>3, <1>6
<1> QED
  BY <1>4, <1>5, <1>6, <1>7

-----------------------------------------------------------------------------
(* What has traded and what of it is loaded.                               *)

MarketType ==
  /\ rule \in Rules /\ slots \in Nat \ {0} /\ day \in Nat
  /\ traded \in [Symbols -> Seq(Row)] /\ rows \in [Symbols -> Seq(Row)]

InTime(q, d) ==
  \A i, j \in DOMAIN q : i <= j => q[i].day <= q[j].day /\ q[j].day < d

Market == MarketType /\ \A s \in Symbols : InTime(traded[s], day)

LEMMA LagType ==
  ASSUME day \in Nat, NEW q \in Seq(Row)
  PROVE  Lag(q) \in Int
<1>1. Recent \in Nat
  BY SizesAssumption
<1> QED
  BY <1>1, LastRow DEF Lag

\* The rows a refresh adds are newer than those that are there.
LEMMA LoadedIs ==
  ASSUME Market, NEW s \in Symbols
  PROVE  /\ Loaded(s) \in Seq(Row) /\ Extends(rows[s], Loaded(s))
         /\ Lag(Loaded(s)) <= Lag(rows[s])
<1> DEFINE q == traded[s]
           r == rows[s]
           new == {i \in DOMAIN q : q[i].day > day - Window /\ day - q[i].day < Lag(r)}
           tail == SubSeq(q, Min(new), Len(q))
<1>1. /\ q \in Seq(Row) /\ r \in Seq(Row) /\ day \in Nat /\ InTime(q, day)
      /\ Lag(r) \in Int /\ Len(q) \in Nat /\ DOMAIN q = 1..Len(q)
  BY LagType DEF Market, MarketType
<1>2. Loaded(s) = IF new = {} THEN r ELSE r \o tail
  BY DEF Loaded
<1>3. CASE new = {}
  BY <1>1, <1>2, <1>3 DEF Extends
<1>4. CASE new # {}
  <2>1. Min(new) \in new /\ Min(new) \in 1..Len(q)
    <3>1. IsFiniteSet(1..Len(q)) /\ new \in SUBSET (1..Len(q))
      BY <1>1, FS_Interval
    <3>2. IsFiniteSet(new) /\ new \in SUBSET Int
      BY <3>1, FS_Subset
    <3> QED
      BY <1>4, <3>1, <3>2, Extremes
  <2>2. /\ q[Min(new)].day <= q[Len(q)].day /\ day - q[Min(new)].day < Lag(r)
        /\ q[Min(new)].day \in Nat /\ q[Len(q)].day \in Nat
    <3>1. Min(new) <= Len(q) /\ 1 <= Min(new) /\ Len(q) \in DOMAIN q /\ Min(new) \in DOMAIN q
      <4> HIDE DEF new, q, r
      <4> QED
        BY <1>1, <2>1
    <3>2. day - q[Min(new)].day < Lag(r)
      BY <2>1
    <3> HIDE DEF new, q, r
    <3> QED
      BY <1>1, <3>1, <3>2, RowsAre DEF InTime
  <2> HIDE DEF new, q, r
  <2>3. /\ tail \in Seq(Row) /\ Len(tail) \in Nat \ {0} /\ tail[Len(tail)] = q[Len(q)]
    BY <1>1, <2>1
  <2> HIDE DEF tail
  <2> DEFINE all == r \o tail
  <2>4. /\ all \in Seq(Row) /\ Len(all) = Len(r) + Len(tail) /\ Len(r) \in Nat
        /\ \A i \in 1..Len(r) : all[i] = r[i]
        /\ all[Len(all)] = tail[Len(tail)]
    BY <1>1, <2>3
  <2>5. Loaded(s) = all
    BY <1>2, <1>4
  <2> HIDE DEF all
  <2>6. all # <<>> /\ Last(all) = q[Len(q)]
    <3>1. all # <<>>
      BY <2>3, <2>4
    <3> QED
      BY <2>3, <2>4, <3>1, LastRow
  <2>7. Lag(all) = day - q[Len(q)].day
    BY <2>6 DEF Lag
  <2>8. Lag(all) <= Lag(r)
    BY <1>1, <2>2, <2>7
  <2>9. Extends(r, all)
    BY <2>3, <2>4 DEF Extends
  <2> QED
    BY <2>4, <2>5, <2>8, <2>9 DEF r
<1> QED
  BY <1>3, <1>4

LEMMA RefreshIs ==
  ASSUME Market, NEW S, Refresh(S)
  PROVE  /\ rows' \in [Symbols -> Seq(Row)]
         /\ \A s \in Symbols : /\ Extends(rows[s], rows'[s])
                               /\ Lag(rows'[s]) <= Lag(rows[s])
                               /\ s \notin S => rows'[s] = rows[s]
<1>1. PICK ok \in SUBSET S :
        rows' = [s \in Symbols |-> IF s \in ok THEN Loaded(s) ELSE rows[s]]
  BY DEF Refresh
<1>2. ASSUME NEW s \in Symbols
      PROVE  /\ rows'[s] \in Seq(Row) /\ Extends(rows[s], rows'[s])
             /\ Lag(rows'[s]) <= Lag(rows[s])
             /\ s \notin S => rows'[s] = rows[s]
  <2>1. rows[s] \in Seq(Row) /\ day \in Nat
    BY DEF Market, MarketType
  <2>2. Extends(rows[s], rows[s]) /\ Lag(rows[s]) <= Lag(rows[s])
    BY <2>1, LagType DEF Extends
  <2>3. rows'[s] = IF s \in ok THEN Loaded(s) ELSE rows[s]
    BY <1>1
  <2> QED
    BY <2>1, <2>2, <2>3, LoadedIs
<1>3. DOMAIN rows' = Symbols /\ rows' = [s \in Symbols |-> rows'[s]]
  BY <1>1
<1> QED
  BY <1>2, <1>3

LEMMA InitMarket == Init => Market
<1> SUFFICES ASSUME Init PROVE Market
  OBVIOUS
<1>1. \A s \in Symbols : traded[s] \in Seeds[s]
  BY DEF Init
<1>2. ASSUME NEW s \in Symbols
      PROVE  traded[s] \in Seq(Row) /\ InTime(traded[s], day)
  <2>1. day = FirstDay
    BY DEF Init
  <2> QED
    BY <1>1, <2>1, RowsAssumption DEF Row, InTime
<1>3. DOMAIN traded = Symbols /\ traded = [s \in Symbols |-> traded[s]]
  BY DEF Init
<1>4. traded \in [Symbols -> Seq(Row)] /\ rows = traded
  BY <1>2, <1>3 DEF Init
<1>5. rule \in Rules /\ slots \in Nat \ {0} /\ day \in Nat
  BY SizesAssumption DEF Init
<1> QED
  BY <1>2, <1>4, <1>5 DEF Market, MarketType

LEMMA NextDayMarket ==
  ASSUME Market, NextDay
  PROVE  Market'
<1>1. PICK quote \in [Symbols -> UNION {Quotes[s] : s \in Symbols} \union {0}] :
        /\ \A s \in Symbols : quote[s] \in IF day \in Holidays THEN {0} ELSE Quotes[s]
        /\ traded' = [s \in Symbols |->
                        IF quote[s] = 0
                          THEN traded[s]
                          ELSE Append(traded[s], [day |-> day, price |-> quote[s]])]
  BY DEF NextDay
<1>2. day' = day + 1 /\ day \in Nat /\ rows' = rows /\ rule' = rule /\ slots' = slots
  BY DEF NextDay, Market, MarketType, arguments
<1>3. ASSUME NEW s \in Symbols
      PROVE  traded'[s] \in Seq(Row) /\ InTime(traded'[s], day')
  <2>1. traded[s] \in Seq(Row) /\ InTime(traded[s], day) /\ quote[s] \in Nat
    BY <1>1, RowsAssumption DEF Market, MarketType
  <2>2. CASE quote[s] = 0
    <3>1. \A i \in DOMAIN traded[s] : traded[s][i].day \in Nat
      BY <2>1, RowsAre
    <3>2. InTime(traded[s], day')
      BY <1>2, <2>1, <3>1 DEF InTime
    <3> QED
      BY <1>1, <2>1, <2>2, <3>2
  <2>3. CASE quote[s] # 0
    <3> DEFINE q == traded[s]
               r == [day |-> day, price |-> quote[s]]
    <3>1. r \in Row
      BY <1>2, <2>1, <2>3 DEF Row
    <3>2. r.day = day /\ traded'[s] = Append(q, r)
      BY <1>1, <2>3
    <3>3. q \in Seq(Row) /\ InTime(q, day) /\ \A i \in DOMAIN q : q[i].day \in Nat
      BY <2>1, RowsAre
    <3> HIDE DEF q, r
    <3>4. /\ Append(q, r) \in Seq(Row) /\ DOMAIN Append(q, r) = 1..Len(q) + 1 /\ Len(q) \in Nat
          /\ \A i \in 1..Len(q) : Append(q, r)[i] = q[i]
          /\ Append(q, r)[Len(q) + 1] = r
      BY <3>1, <3>3
    <3>5. InTime(Append(q, r), day')
      <4> SUFFICES ASSUME NEW i \in 1..Len(q) + 1, NEW j \in 1..Len(q) + 1, i <= j
                   PROVE  /\ Append(q, r)[i].day <= Append(q, r)[j].day
                          /\ Append(q, r)[j].day < day'
        BY <3>4 DEF InTime
      <4>1. CASE j \in 1..Len(q)
        <5>1. i \in 1..Len(q) /\ DOMAIN q = 1..Len(q)
          BY <3>3, <4>1
        <5> QED
          BY <1>2, <3>3, <3>4, <4>1, <5>1 DEF InTime
      <4>2. CASE j = Len(q) + 1
        <5>1. CASE i = Len(q) + 1
          BY <1>2, <3>2, <3>4, <4>2, <5>1
        <5>2. CASE i \in 1..Len(q)
          <6>1. i \in DOMAIN q /\ i <= i
            BY <3>3, <5>2
          <6>2. q[i].day < day /\ q[i].day \in Nat
            BY <3>3, <6>1 DEF InTime
          <6> QED
            BY <1>2, <3>2, <3>4, <4>2, <5>2, <6>2
        <5> QED
          BY <3>4, <5>1, <5>2
      <4> QED
        BY <3>4, <4>1, <4>2
    <3> QED
      BY <3>2, <3>4, <3>5
  <2> QED
    BY <2>2, <2>3
<1>4. DOMAIN traded' = Symbols /\ traded' = [s \in Symbols |-> traded'[s]]
  BY <1>1
<1>5. traded' \in [Symbols -> Seq(Row)]
  BY <1>3, <1>4
<1> QED
  BY <1>2, <1>3, <1>5 DEF Market, MarketType

LEMMA StepMarket == Market /\ [Next]_vars => Market'
<1> SUFFICES ASSUME Market, [Next]_vars PROVE Market'
  OBVIOUS
<1>1. ASSUME UNCHANGED <<arguments, day, traded>>, rows' \in [Symbols -> Seq(Row)]
      PROVE  Market'
  BY <1>1 DEF Market, MarketType, arguments, InTime
<1>2. rows \in [Symbols -> Seq(Row)]
  BY DEF Market, MarketType
<1>3. CASE NextDay
  BY <1>3, NextDayMarket
<1>4. CASE Skip \/ Fails \/ Plan
  <2>1. PICK S : Refresh(S)
    BY <1>4 DEF Skip, Fails, Plan
  <2>2. UNCHANGED <<arguments, day, traded>>
    BY <1>4 DEF Skip, Fails, Plan
  <2> QED
    BY <1>1, <2>1, <2>2, RefreshIs
<1>5. CASE Fill \/ Mark \/ Dies \/ UNCHANGED vars
  BY <1>1, <1>2, <1>5 DEF Fill, Mark, Dies, vars
<1> QED
  BY <1>3, <1>4, <1>5 DEF Next

LEMMA MarketInvariant == Spec => []Market
BY InitMarket, StepMarket, PTL DEF Spec

(***************************************************************************)
(* For any windows, symbols and histories: loading rows of the week that   *)
(* is not over changes no signal, because weekly_bars drops that week      *)
(* whole and the bars of the others are made of the rows they had          *)
(* (ichimoku.weekly_bars, build_signals).                                  *)
(***************************************************************************)
THEOREM OpenWeekIsSilent == Spec => NoLookahead
<1> DEFINE Silent ==
      \A s \in Symbols :
        /\ rows'[s] # rows[s]
        /\ \A i \in DOMAIN rows'[s] \ DOMAIN rows[s] : WeekOf(rows'[s][i].day) = Week
        => LatestSignal(WeeklyBars(rows'[s], day), rule)
             = LatestSignal(WeeklyBars(rows[s], day), rule)
<1>1. Market /\ [Next]_vars => [Silent]_vars
  <2> SUFFICES ASSUME Market, [Next]_vars,
                      NEW s \in Symbols, rows'[s] # rows[s],
                      \A i \in DOMAIN rows'[s] \ DOMAIN rows[s] : WeekOf(rows'[s][i].day) = Week
               PROVE  WeeklyBars(rows'[s], day) = WeeklyBars(rows[s], day)
    OBVIOUS
  <2>1. PICK S : Refresh(S)
    BY DEF Next, NextDay, Skip, Fails, Plan, Fill, Mark, Dies, vars
  <2>2. /\ rows[s] \in Seq(Row) /\ rows'[s] \in Seq(Row)
        /\ Extends(rows[s], rows'[s])
    BY <2>1, RefreshIs DEF Market, MarketType
  <2> QED
    BY <2>2, SameBars DEF Week
<1> QED
  BY <1>1, MarketInvariant, PTL DEF Spec, NoLookahead

-----------------------------------------------------------------------------
(* Signals are of positive prices, so breakouts can be compared.           *)

Pos == Nat \ {0}

BarSet == [week : Nat, high : Pos, low : Pos, close : Pos]

\* The highest and the lowest of finitely many prices.
LEMMA PricesHave ==
  ASSUME NEW n \in Nat, NEW I \in SUBSET (1..n), I # {}, NEW f \in [I -> Pos]
  PROVE  Max({f[i] : i \in I}) \in Pos /\ Min({f[i] : i \in I}) \in Pos
<1> DEFINE P == {f[i] : i \in I}
<1>1. IsFiniteSet(I)
  <2>1. IsFiniteSet(1..n)
    BY FS_Interval
  <2> QED
    BY <2>1, FS_Subset
<1>2. f \in Surjection(I, P)
  BY DEF Surjection
<1>3. IsFiniteSet(P)
  BY <1>1, <1>2, FS_Surjection
<1>4. P \in SUBSET Pos /\ P \in SUBSET Int /\ P # {}
  <2>1. \A i \in I : f[i] \in Pos /\ f[i] \in Int
    BY DEF Pos
  <2> QED
    BY <2>1
<1> HIDE DEF P
<1>5. Max(P) \in P /\ Min(P) \in P
  BY <1>3, <1>4, Extremes
<1> QED
  BY <1>4, <1>5 DEF P

LEMMA BarType ==
  ASSUME NEW q \in Seq(Row), NEW d, NEW w \in Weeks(q, d)
  PROVE  Bar(q, w) \in BarSet
<1> DEFINE I == Days(q, w)
           f == [i \in I |-> q[i].price]
<1>1. I \in SUBSET (1..Len(q)) /\ I # {} /\ Max(I) \in I /\ Len(q) \in Nat
  BY DaysAre, RowsAre
<1>2. \A i \in I : q[i].price \in Pos
  BY <1>1, RowsAre DEF Pos
<1>3. w \in Nat
  BY WeeksAre
<1> HIDE DEF I
<1>4. f \in [I -> Pos] /\ {f[i] : i \in I} = {q[i].price : i \in I}
  BY <1>2
<1> HIDE DEF f
<1>5. Max({q[i].price : i \in I}) \in Pos /\ Min({q[i].price : i \in I}) \in Pos
  BY <1>1, <1>4, PricesHave
<1>6. q[Max(I)].price \in Pos
  BY <1>1, <1>2
<1> QED
  BY <1>3, <1>5, <1>6, BarIs DEF I, BarSet

LEMMA BarsType ==
  ASSUME NEW q \in Seq(Row), NEW d
  PROVE  /\ WeeklyBars(q, d) \in Seq(BarSet)
         /\ WeeklyBars(q, d) # <<>> => q # <<>>
<1>1. PICK order \in Seq(Weeks(q, d)) :
        WeeklyBars(q, d) = [k \in 1..Len(order) |-> Bar(q, order[k])]
  BY BarsAre
<1>2. \A k \in 1..Len(order) : Bar(q, order[k]) \in BarSet
  BY BarType
<1>3. WeeklyBars(q, d) \in Seq(BarSet) /\ Len(WeeklyBars(q, d)) = Len(order)
  BY <1>1, <1>2
<1>4. q = <<>> => Weeks(q, d) = {}
  BY DEF Weeks
<1>5. Weeks(q, d) = {} => order = <<>>
  OBVIOUS
<1> QED
  BY <1>3, <1>4, <1>5

LEMMA MidType ==
  ASSUME NEW bars \in Seq(BarSet), NEW win \in Pos, NEW i \in Int, i <= Len(bars)
  PROVE  Mid(bars, win, i) \in Int /\ (i >= win => Mid(bars, win, i) \in Pos)
<1>1. CASE i < win
  BY <1>1 DEF Mid, Undefined, Pos
<1>2. CASE i >= win
  <2> DEFINE I == (i - win + 1)..i
             hi == [k \in I |-> bars[k].high]
             lo == [k \in I |-> bars[k].low]
  <2>1. I \in SUBSET (1..Len(bars)) /\ I # {} /\ Len(bars) \in Nat
    <3>1. win \in Nat /\ win # 0 /\ Len(bars) \in Nat
      BY DEF Pos
    <3>2. i \in I /\ 1 <= i - win + 1
      BY <1>2, <3>1
    <3> QED
      BY <3>1, <3>2
  <2>2. \A k \in I : bars[k].high \in Pos /\ bars[k].low \in Pos
    <3>1. \A k \in I : bars[k] \in BarSet
      BY <2>1
    <3> QED
      BY <3>1 DEF BarSet
  <2>3. Mid(bars, win, i) = Max({bars[k].high : k \in I}) + Min({bars[k].low : k \in I})
    BY <1>2 DEF Mid, Pos
  <2> HIDE DEF I
  <2>4. hi \in [I -> Pos] /\ {hi[k] : k \in I} = {bars[k].high : k \in I}
    BY <2>2
  <2>5. lo \in [I -> Pos] /\ {lo[k] : k \in I} = {bars[k].low : k \in I}
    BY <2>2
  <2> HIDE DEF hi, lo
  <2>6. Max({bars[k].high : k \in I}) \in Pos /\ Min({bars[k].low : k \in I}) \in Pos
    BY <2>1, <2>4, <2>5, PricesHave
  <2> QED
    BY <2>3, <2>6 DEF Pos
<1> QED
  BY <1>1, <1>2 DEF Pos

LEMMA LargestIs ==
  ASSUME NEW S \in SUBSET Int, IsFiniteSet(S), S # {}
  PROVE  Max(S) \in S /\ \A y \in S : y <= Max(S)
BY Extremes

LEMMA TwoOrThree ==
  ASSUME NEW a \in Int, NEW b \in Int, NEW c \in Int
  PROVE  /\ {a, b} \in SUBSET Int /\ {a, b, c} \in SUBSET Int
         /\ IsFiniteSet({a, b}) /\ IsFiniteSet({a, b, c})
<1>1. IsFiniteSet({a})
  BY FS_Singleton
<1>2. {a, b} = {a} \union {b} /\ {a, b, c} = {a, b} \union {c}
  OBVIOUS
<1>3. IsFiniteSet({a, b})
  BY <1>1, <1>2, FS_AddElement
<1>4. IsFiniteSet({a, b, c})
  BY <1>2, <1>3, FS_AddElement
<1> QED
  BY <1>3, <1>4

LEMMA CloudType ==
  ASSUME NEW bars \in Seq(BarSet), NEW i \in Int, i <= Len(bars)
  PROVE  CloudTop(bars, i) = Undefined \/ CloudTop(bars, i) \in Pos
<1> DEFINE W == {Tenkan, Kijun, SenkouB}
           k == i - Disp
           A == {Mid(bars, Tenkan, k) + Mid(bars, Kijun, k), 2 * Mid(bars, SenkouB, k)}
<1>1. W \subseteq Pos /\ Disp \in Pos
  BY WindowsAssumption DEF Pos
<1>2. CASE k < Max(W)
  BY <1>2 DEF CloudTop
<1>3. CASE ~ (k < Max(W))
  <2>1. IsFiniteSet(W) /\ W # {} /\ W \in SUBSET Int
    <3>1. Tenkan \in Int /\ Kijun \in Int /\ SenkouB \in Int
      BY WindowsAssumption
    <3> QED
      BY <3>1, TwoOrThree, Zenon
  <2>2. Max(W) \in W /\ \A y \in W : y <= Max(W)
    BY <2>1, LargestIs
  <2>3. k \in Int /\ k <= Len(bars) /\ \A y \in W : y \in Pos /\ k >= y
    <3>1. Max(W) \in Int /\ k \in Int /\ Len(bars) \in Nat
      BY <1>1, <2>1, <2>2 DEF Pos
    <3>2. k >= Max(W)
      BY <1>3, <3>1
    <3>3. \A y \in W : y \in Pos /\ y \in Int
      BY <1>1 DEF Pos
    <3>4. k <= Len(bars)
      BY <1>1, <3>1 DEF Pos
    <3> HIDE DEF W, k
    <3> QED
      BY <2>2, <3>1, <3>2, <3>3, <3>4
  <2>4. /\ Tenkan \in Pos /\ Kijun \in Pos /\ SenkouB \in Pos
        /\ k >= Tenkan /\ k >= Kijun /\ k >= SenkouB
    BY <2>3
  <2> HIDE DEF k
  <2>5. /\ Mid(bars, Tenkan, k) \in Pos /\ Mid(bars, Kijun, k) \in Pos
        /\ Mid(bars, SenkouB, k) \in Pos
    BY <2>3, <2>4, MidType
  <2>6. A \in SUBSET Pos /\ A \in SUBSET Int /\ A # {}
    BY <2>5 DEF Pos
  <2>7. IsFiniteSet(A)
    BY <2>5, TwoOrThree DEF Pos
  <2>8. CloudTop(bars, i) = Max(A)
    BY <1>3 DEF CloudTop, k
  <2> HIDE DEF A
  <2> QED
    BY <2>6, <2>7, <2>8, LargestIs
<1> QED
  BY <1>2, <1>3

Priced(sig) == sig.close \in Pos /\ sig.top \in Pos

\* A symbol with a signal has rows.
LEMMA SignalType ==
  ASSUME NEW q \in Seq(Row), NEW d, NEW r,
         LatestSignal(WeeklyBars(q, d), r) # None
  PROVE  Priced(LatestSignal(WeeklyBars(q, d), r)) /\ q # <<>>
<1> DEFINE bars == WeeklyBars(q, d)
           n == Len(bars)
<1>1. bars \in Seq(BarSet) /\ (bars # <<>> => q # <<>>)
  BY BarsType
<1> HIDE DEF bars
<1>2. n \in Nat
  BY <1>1
<1>3. n >= 2 /\ CloudTop(bars, n) # Undefined
  BY <1>2 DEF LatestSignal, bars
<1>4. /\ LatestSignal(bars, r).close = bars[n].close
      /\ LatestSignal(bars, r).top = CloudTop(bars, n)
  BY <1>2, <1>3 DEF LatestSignal
<1>5. bars[n].close \in Pos
  <2>1. bars[n] \in BarSet
    BY <1>1, <1>2, <1>3
  <2> QED
    BY <2>1 DEF BarSet
<1>6. CloudTop(bars, n) \in Pos
  BY <1>1, <1>2, <1>3, CloudType
<1>7. bars # <<>>
  BY <1>3
<1> QED
  BY <1>1, <1>4, <1>5, <1>6, <1>7 DEF Priced, bars

-----------------------------------------------------------------------------
(* Candidates and sales are lists.                                         *)

LEMMA Scale ==
  ASSUME NEW x \in Int, NEW y \in Int, NEW t \in Pos
  PROVE  (x > y <=> x * t > y * t) /\ (x >= y <=> x * t >= y * t)
<1> SUFFICES ASSUME NEW z \in Int, NEW w \in Int, z > w
             PROVE  z * t > w * t
  BY DEF Pos
<1>1. z * t = w * t + (z - w) * t
  BY DEF Pos
<1>2. (z - w) * t > 0
  BY DEF Pos
<1> QED
  BY <1>1, <1>2 DEF Pos

\* Ratios a / r, b / s, c / t compared without dividing.
LEMMA Ratios ==
  ASSUME NEW a \in Int, NEW b \in Int, NEW c \in Int,
         NEW r \in Pos, NEW s \in Pos, NEW t \in Pos,
         a * s >= b * r, b * t >= c * s
  PROVE  /\ a * t >= c * r
         /\ a * s > b * r \/ b * t > c * s => a * t > c * r
<1> DEFINE A == a * s
           B == b * r
           C == b * t
           D == c * s
           L == a * t
           R == c * r
<1>1. /\ A \in Int /\ B \in Int /\ C \in Int /\ D \in Int /\ L \in Int /\ R \in Int
  BY DEF Pos
<1>2. A * t = L * s /\ B * t = C * r /\ D * r = R * s
  BY DEF Pos
<1>3. /\ A * t \in Int /\ B * t \in Int /\ D * r \in Int
  BY <1>1 DEF Pos
<1> HIDE DEF A, B, C, D, L, R
<1>4. A * t >= B * t /\ C * r >= D * r
  BY <1>1, Scale DEF A, B, C, D
<1>5. L * s >= R * s
  BY <1>2, <1>3, <1>4
<1>6. A > B \/ C > D => L * s > R * s
  <2>1. A > B => A * t > B * t
    BY <1>1, Scale
  <2>2. C > D => C * r > D * r
    BY <1>1, Scale
  <2> QED
    BY <1>2, <1>3, <1>4, <2>1, <2>2
<1>7. L >= R /\ (A > B \/ C > D => L > R)
  BY <1>1, <1>5, <1>6, Scale
<1> QED
  BY <1>7 DEF A, B, C, D, L, R

\* By how much a closes above its cloud, times four.
Above(a) == 4 * a.close - a.top

LEMMA BreakoutsOrdered ==
  ASSUME NEW S \in SUBSET Symbols, NEW sigs, \A s \in S : Priced(sigs[s])
  PROVE  StrictOrder(S, Before(sigs, S))
<1> DEFINE K(s) == Above(sigs[s])
           T(s) == sigs[s].top
<1>1. ASSUME NEW s \in S
      PROVE  K(s) \in Int /\ T(s) \in Pos /\ Rank[s] \in Int
  BY SymbolsAssumption DEF Priced, Above, Pos
<1>2. ASSUME NEW x \in S, NEW y \in S
      PROVE  /\ K(x) * T(y) \in Int
             /\ Stronger(sigs[x], sigs[y]) <=> K(x) * T(y) > K(y) * T(x)
  BY <1>1 DEF Stronger, Above, Pos
<1>3. ASSUME NEW x \in S, NEW y \in S
      PROVE  <<x, y>> \in Before(sigs, S) <=>
               \/ K(x) * T(y) > K(y) * T(x)
               \/ K(x) * T(y) >= K(y) * T(x) /\ Rank[x] < Rank[y]
  <2>1. <<x, y>> \in Before(sigs, S) <=>
          \/ Stronger(sigs[x], sigs[y])
          \/ ~ Stronger(sigs[y], sigs[x]) /\ Rank[x] < Rank[y]
    BY DEF Before
  <2>2. /\ Stronger(sigs[x], sigs[y]) <=> K(x) * T(y) > K(y) * T(x)
        /\ Stronger(sigs[y], sigs[x]) <=> K(y) * T(x) > K(x) * T(y)
        /\ K(x) * T(y) \in Int /\ K(y) * T(x) \in Int
    BY <1>2
  <2> HIDE DEF K, T
  <2> QED
    BY <2>1, <2>2
<1> HIDE DEF K, T
<1>4. \A x \in S : <<x, x>> \notin Before(sigs, S)
  <2> SUFFICES ASSUME NEW x \in S PROVE <<x, x>> \notin Before(sigs, S)
    OBVIOUS
  <2>1. K(x) * T(x) \in Int /\ Rank[x] \in Int
    BY <1>1, <1>2
  <2> QED
    BY <1>3, <2>1
<1>5. \A x, y \in S : x # y => <<x, y>> \in Before(sigs, S) \/ <<y, x>> \in Before(sigs, S)
  <2> SUFFICES ASSUME NEW x \in S, NEW y \in S, x # y
               PROVE  <<x, y>> \in Before(sigs, S) \/ <<y, x>> \in Before(sigs, S)
    OBVIOUS
  <2>1. /\ K(x) * T(y) \in Int /\ K(y) * T(x) \in Int
        /\ Rank[x] \in Int /\ Rank[y] \in Int /\ Rank[x] # Rank[y]
    BY <1>1, <1>2, SymbolsAssumption
  <2> QED
    BY <1>3, <2>1
<1>6. \A x, y, z \in S : <<x, y>> \in Before(sigs, S) /\ <<y, z>> \in Before(sigs, S)
                           => <<x, z>> \in Before(sigs, S)
  <2> SUFFICES ASSUME NEW x \in S, NEW y \in S, NEW z \in S,
                      <<x, y>> \in Before(sigs, S), <<y, z>> \in Before(sigs, S)
               PROVE  <<x, z>> \in Before(sigs, S)
    OBVIOUS
  <2>1. /\ K(x) \in Int /\ K(y) \in Int /\ K(z) \in Int
        /\ T(x) \in Pos /\ T(y) \in Pos /\ T(z) \in Pos
        /\ Rank[x] \in Int /\ Rank[y] \in Int /\ Rank[z] \in Int
    BY <1>1
  <2>2. /\ K(x) * T(y) \in Int /\ K(y) * T(x) \in Int
        /\ K(y) * T(z) \in Int /\ K(z) * T(y) \in Int
    BY <1>2
  <2>3. K(x) * T(y) >= K(y) * T(x) /\ K(y) * T(z) >= K(z) * T(y)
    BY <1>3, <2>2
  <2>4. /\ K(x) * T(z) >= K(z) * T(x)
        /\ K(x) * T(y) > K(y) * T(x) \/ K(y) * T(z) > K(z) * T(y)
             => K(x) * T(z) > K(z) * T(x)
    BY <2>1, <2>3, Ratios
  <2>5. CASE K(x) * T(y) > K(y) * T(x) \/ K(y) * T(z) > K(z) * T(y)
    BY <1>3, <2>4, <2>5
  <2>6. CASE Rank[x] < Rank[y] /\ Rank[y] < Rank[z]
    <3>1. Rank[x] < Rank[z]
      BY <2>1, <2>6
    <3> QED
      BY <1>3, <2>4, <3>1
  <2> QED
    BY <1>3, <2>5, <2>6
<1> QED
  BY <1>4, <1>5, <1>6 DEF StrictOrder

Ranked(S) == {p \in S \X S : Rank[p[1]] < Rank[p[2]]}

LEMMA RanksOrdered ==
  ASSUME NEW S \in SUBSET Symbols
  PROVE  StrictOrder(S, Ranked(S))
<1>1. \A s \in S : Rank[s] \in Int
  BY SymbolsAssumption
<1>2. \A s, t \in S : s # t => Rank[s] # Rank[t]
  BY SymbolsAssumption
<1> QED
  BY <1>1, <1>2 DEF StrictOrder, Ranked

\* Breakouts of symbols that are not held.
Entrants(sigs) == {s \in Symbols \ Held : sigs[s] # None /\ sigs[s].entry}

LEMMA CandidatesAre ==
  ASSUME NEW rs, NEW sigs, \A s \in Symbols : sigs[s] # None => Priced(sigs[s])
  PROVE  /\ Cardinality(Entrants(sigs)) \in Nat
         /\ Lists(Candidates(rs, sigs), Entrants(sigs))
<1>1. Entrants(sigs) \in SUBSET Symbols /\ \A s \in Entrants(sigs) : Priced(sigs[s])
  BY DEF Entrants
<1>2. IsFiniteSet(Entrants(sigs))
  BY <1>1, SymbolsAssumption, FS_Subset
<1>3. Candidates(rs, sigs) = InOrder(Entrants(sigs), Before(sigs, Entrants(sigs)))
  BY DEF Candidates, Entrants
<1> QED
  BY <1>1, <1>2, <1>3, BreakoutsOrdered, InOrderLists

-----------------------------------------------------------------------------
(* A plan and the cash on its way through it.                              *)

Order == [side : {"BUY", "SELL"}, sym : Symbols, qty : Pos, px : Pos]

Amount(o) ==
  IF o.side = "SELL" THEN o.qty * o.px * SellKeep ELSE - (o.qty * o.px * BuyCost)

\* The cash before, between and after the orders of q: it never runs out.
Path(f, q, c) ==
  /\ f \in [0..Len(q) -> Nat]
  /\ f[0] = c
  /\ \A k \in 1..Len(q) : f[k] = f[k - 1] + Amount(q[k])

AccountType == cash \in Nat /\ held \in [Symbols -> Nat]

\* There is a last price of what is held, and of what has a signal.
Quoted(rs, sigs) ==
  /\ rs \in [Symbols -> Seq(Row)]
  /\ \A s \in Held : rs[s] # <<>>
  /\ \A s \in Symbols : sigs[s] # None => Priced(sigs[s]) /\ rs[s] # <<>>

LEMMA OrderType ==
  ASSUME NEW o \in Order
  PROVE  /\ o.side \in {"BUY", "SELL"} /\ o.sym \in Symbols
         /\ o.qty \in Pos /\ o.px \in Pos /\ Amount(o) \in Int
<1>1. o.side \in {"BUY", "SELL"} /\ o.sym \in Symbols /\ o.qty \in Pos /\ o.px \in Pos
  BY DEF Order
<1>2. ASSUME NEW a \in Nat, NEW b \in Nat, NEW c \in Nat
      PROVE  a * b * c \in Int /\ - (a * b * c) \in Int
  <2>1. a * b \in Nat
    OBVIOUS
  <2> QED
    BY <2>1
<1>3. SellKeep \in Nat /\ BuyCost \in Nat /\ o.qty \in Nat /\ o.px \in Nat
  BY <1>1 DEF SellKeep, BuyCost, Pos
<1> QED
  BY <1>1, <1>2, <1>3 DEF Amount

LEMMA SumNat ==
  ASSUME NEW f, NEW S, IsFiniteSet(S), \A x \in S : f[x] \in Nat
  PROVE  SumFunctionOnSet(f, S) \in Nat
<1> DEFINE Bad == {s \in SUBSET S : SumFunctionOnSet(f, s) \notin Nat}
<1> SUFFICES ASSUME Bad # {} PROVE FALSE
  OBVIOUS
<1>1. \A s \in Bad : IsFiniteSet(s)
  BY FS_Subset
<1>2. PICK s \in Bad : \A t \in Bad : Cardinality(s) <= Cardinality(t)
  BY <1>1, Smallest
<1>3. SumFunctionOnSet(f, s) =
        IF s = {} THEN 0 ELSE f[Pick(s)] + SumFunctionOnSet(f, s \ {Pick(s)})
  BY <1>1, SumStep
<1>4. s # {} /\ Pick(s) \in s /\ f[Pick(s)] \in Nat
  BY <1>3, PickIn
<1>5. s \ {Pick(s)} \notin Bad
  BY <1>1, <1>2, <1>4, OneLess
<1> QED
  BY <1>3, <1>4, <1>5

Worth(s, rs, unit) == held[s] * Last(rs[s]).price * unit

LEMMA WorthType ==
  ASSUME AccountType, NEW rs, NEW sigs, Quoted(rs, sigs), NEW s \in Held, NEW unit \in Nat
  PROVE  Worth(s, rs, unit) \in Nat /\ held[s] \in Pos /\ Last(rs[s]).price \in Pos
<1>1. held[s] \in Pos /\ held[s] \in Nat
  BY DEF AccountType, Held, Pos
<1>2. rs[s] \in Seq(Row) /\ rs[s] # <<>>
  BY DEF Quoted, Held
<1>3. Last(rs[s]).price \in Pos /\ Last(rs[s]).price \in Nat
  BY <1>2, LastRow DEF Pos
<1>4. ASSUME NEW a \in Nat, NEW b \in Nat
      PROVE  a * b * unit \in Nat
  <2>1. a * b \in Nat
    OBVIOUS
  <2> QED
    BY <2>1
<1> QED
  BY <1>1, <1>3, <1>4 DEF Worth

LEMMA HeldFinite == IsFiniteSet(Held)
BY SymbolsAssumption, FS_Subset DEF Held

LEMMA ValueAdds ==
  ASSUME AccountType, NEW rs, NEW sigs, Quoted(rs, sigs), NEW unit \in Nat,
         NEW S \in SUBSET Held
  PROVE  /\ Value(S, rs, unit) \in Nat
         /\ S = {} => Value(S, rs, unit) = 0
         /\ \A a \in Held \ S :
              Value(S \union {a}, rs, unit) = Worth(a, rs, unit) + Value(S, rs, unit)
<1> DEFINE F(T) == [s \in T |-> Worth(s, rs, unit)]
<1>1. \A T : Value(T, rs, unit) = SumFunction(F(T)) /\ DOMAIN F(T) = T
  BY DEF Value, Worth
<1>2. IsFiniteSet(S)
  BY HeldFinite, FS_Subset
<1>3. \A s \in Held : Worth(s, rs, unit) \in Nat
  BY WorthType
<1>4. \A T \in SUBSET Held : \A s \in T : F(T)[s] = Worth(s, rs, unit) /\ F(T)[s] \in Nat
  BY <1>3
<1> HIDE DEF F
<1>5. Value(S, rs, unit) \in Nat
  BY <1>1, <1>2, <1>4, SumNat DEF SumFunction
<1>6. S = {} => Value(S, rs, unit) = 0
  BY <1>1, SumOfNone
<1>7. ASSUME NEW a \in Held \ S
      PROVE  Value(S \union {a}, rs, unit) = Worth(a, rs, unit) + Value(S, rs, unit)
  <2>1. S \union {a} \in SUBSET Held /\ a \notin S /\ a \in S \union {a}
    OBVIOUS
  <2>2. /\ \A x \in S : F(S \union {a})[x] = F(S)[x] /\ F(S \union {a})[x] \in Int
        /\ F(S \union {a})[a] = Worth(a, rs, unit) /\ F(S \union {a})[a] \in Int
    BY <1>4, <2>1
  <2>3. SumFunction(F(S \union {a})) = F(S \union {a})[a] + SumFunction(F(S))
    BY <1>1, <1>2, <2>1, <2>2, SumAdd
  <2> QED
    BY <1>1, <2>2, <2>3
<1> QED
  BY <1>5, <1>6, <1>7

LEMMA MoneyType ==
  ASSUME AccountType, NEW rs, NEW sigs, Quoted(rs, sigs)
  PROVE  /\ Available(rs, sigs) = cash + Value(Sells(rs, sigs), rs, SellKeep)
         /\ Available(rs, sigs) \in Nat /\ Equity(rs, sigs) \in Nat
<1>1. Sells(rs, sigs) \in SUBSET Held /\ Held \ Sells(rs, sigs) \in SUBSET Held
  BY DEF Sells
<1>2. SellKeep \in Nat /\ Won \in Nat /\ cash \in Nat
  BY DEF SellKeep, Won, AccountType
<1>3. /\ Value(Sells(rs, sigs), rs, SellKeep) \in Nat
      /\ Value(Held \ Sells(rs, sigs), rs, Won) \in Nat
  BY <1>1, <1>2, ValueAdds
<1> QED
  BY <1>2, <1>3 DEF Available, Equity

\* Everything that is to leave is sold, whole and once.
LEMMA SalesAre ==
  ASSUME AccountType, NEW rs, NEW sigs, Quoted(rs, sigs), NEW q, q = SellOrders(rs, sigs)
  PROVE  /\ q \in Seq(Order)
         /\ \A i \in 1..Len(q) : /\ q[i].side = "SELL" /\ q[i].sym \in Sells(rs, sigs)
                                /\ q[i].qty = held[q[i].sym]
         /\ \A i, j \in 1..Len(q) : i # j => q[i].sym # q[j].sym
         /\ \A s \in Sells(rs, sigs) : \E i \in 1..Len(q) : q[i].sym = s
         /\ \E f : Path(f, q, cash) /\ f[Len(q)] = Available(rs, sigs)
<1> DEFINE S == Sells(rs, sigs)
           n == Cardinality(S)
           order == InOrder(S, Ranked(S))
           sale(s) == [side |-> "SELL", sym |-> s, qty |-> held[s], px |-> Last(rs[s]).price]
<1>1. S \in SUBSET Held /\ S \in SUBSET Symbols /\ IsFiniteSet(S)
  <2>1. S \in SUBSET Held
    BY DEF Sells
  <2>2. Held \in SUBSET Symbols
    BY DEF Held
  <2> QED
    BY <2>1, <2>2, HeldFinite, FS_Subset
<1>2. n \in Nat /\ Lists(order, S)
  BY <1>1, RanksOrdered, InOrderLists
<1>3. q = [k \in DOMAIN order |-> sale(order[k])]
  BY DEF SellOrders, Ranked
<1> HIDE DEF order, n, S
<1>4. /\ DOMAIN order = 1..n /\ \A k \in 1..n : order[k] \in S
      /\ \A i, j \in 1..n : i # j => order[i] # order[j]
      /\ \A s \in S : \E k \in 1..n : order[k] = s
  BY <1>2 DEF Lists, n
<1>5. ASSUME NEW s \in S
      PROVE  /\ sale(s) \in Order /\ sale(s).side = "SELL" /\ sale(s).sym = s
             /\ sale(s).qty = held[s] /\ Amount(sale(s)) = Worth(s, rs, SellKeep)
  <2>1. held[s] \in Pos /\ Last(rs[s]).price \in Pos
    BY <1>1, WorthType
  <2> QED
    BY <1>1, <2>1 DEF Order, Amount, Worth
<1> HIDE DEF sale
<1>6. q = [k \in 1..n |-> sale(order[k])] /\ \A k \in 1..n : sale(order[k]) \in Order
  BY <1>3, <1>4, <1>5
<1>7. q \in Seq(Order) /\ Len(q) = n /\ \A k \in 1..n : q[k] = sale(order[k])
  BY <1>2, <1>6
<1>8. \A i \in 1..n : /\ q[i].side = "SELL" /\ q[i].sym = order[i]
                     /\ q[i].qty = held[order[i]]
                     /\ Amount(q[i]) = Worth(order[i], rs, SellKeep)
  BY <1>4, <1>5, <1>7
<1> DEFINE sold(k) == {order[i] : i \in 1..k}
           f == [k \in 0..n |-> cash + Value(sold(k), rs, SellKeep)]
<1>9. ASSUME NEW k \in 0..n
      PROVE  sold(k) \in SUBSET Held /\ f[k] \in Nat
  <2>1. sold(k) \in SUBSET Held
    BY <1>1, <1>2, <1>4
  <2> HIDE DEF sold
  <2>2. Value(sold(k), rs, SellKeep) \in Nat /\ cash \in Nat
    BY <2>1, ValueAdds DEF SellKeep, AccountType
  <2> QED
    BY <2>1, <2>2
<1>10. f[0] = cash
  <2>1. sold(0) = {}
    OBVIOUS
  <2>2. Value({}, rs, SellKeep) = 0 /\ cash \in Nat
    BY ValueAdds DEF SellKeep, AccountType
  <2>3. f[0] = cash + Value(sold(0), rs, SellKeep)
    BY <1>2
  <2> HIDE DEF f, sold
  <2> QED
    BY <2>1, <2>2, <2>3
<1>11. ASSUME NEW k \in 1..n
       PROVE  f[k] = f[k - 1] + Amount(q[k])
  <2>1. k - 1 \in 0..n /\ k \in 0..n /\ k \in Nat
    BY <1>2
  <2>2. sold(k) = sold(k - 1) \union {order[k]}
    <3>1. 1..k = (1..k - 1) \union {k}
      BY <2>1
    <3> QED
      BY <3>1
  <2>3. order[k] \in Held \ sold(k - 1)
    <3>1. \A i \in 1..k - 1 : i # k /\ i \in 1..n
      BY <2>1, <1>2
    <3> QED
      BY <1>1, <1>4, <3>1
  <2>4. sold(k - 1) \in SUBSET Held /\ f[k - 1] \in Nat
    BY <1>9, <2>1
  <2>5. /\ f[k] = cash + Value(sold(k), rs, SellKeep)
        /\ f[k - 1] = cash + Value(sold(k - 1), rs, SellKeep)
    BY <2>1
  <2> HIDE DEF sold, f
  <2>6. /\ Value(sold(k), rs, SellKeep)
             = Worth(order[k], rs, SellKeep) + Value(sold(k - 1), rs, SellKeep)
        /\ Value(sold(k - 1), rs, SellKeep) \in Nat
    BY <2>2, <2>3, <2>4, ValueAdds DEF SellKeep
  <2>7. Worth(order[k], rs, SellKeep) \in Nat /\ cash \in Nat
    BY <2>3, WorthType DEF SellKeep, AccountType
  <2> QED
    BY <1>8, <2>5, <2>6, <2>7
<1>12. f[n] = Available(rs, sigs)
  <2>1. sold(n) = S
    BY <1>4
  <2>2. f[n] = cash + Value(sold(n), rs, SellKeep)
    BY <1>2
  <2> HIDE DEF sold, f
  <2> QED
    BY <2>1, <2>2, MoneyType DEF S
<1>13. f \in [0..n -> Nat]
  <2>1. DOMAIN f = 0..n /\ f = [k \in 0..n |-> f[k]]
    OBVIOUS
  <2> HIDE DEF f, sold
  <2> QED
    BY <1>9, <2>1
<1> HIDE DEF f, sold
<1>14. Path(f, q, cash)
  BY <1>7, <1>10, <1>11, <1>13 DEF Path
<1>15. \A i, j \in 1..n : i # j => q[i].sym # q[j].sym
  BY <1>4, <1>8
<1>16. \A s \in S : \E i \in 1..n : q[i].sym = s
  BY <1>4, <1>8
<1>17. \A i \in 1..n : q[i].side = "SELL" /\ q[i].sym \in S /\ q[i].qty = held[q[i].sym]
  BY <1>4, <1>8
<1> QED
  BY <1>7, <1>12, <1>14, <1>15, <1>16, <1>17 DEF S

-----------------------------------------------------------------------------
(* What is bought, candidate by candidate.                                 *)

Accs == [buys : Seq(Order), remaining : Nat]

LEMMA SmallerOfTwo ==
  ASSUME NEW a \in Int, NEW b \in Int
  PROVE  Min({a, b}) \in Int /\ Min({a, b}) <= a /\ Min({a, b}) <= b
<1>1. {a, b} # {} /\ {a, b} \in SUBSET Int /\ IsFiniteSet({a, b})
  BY TwoOrThree
<1>2. Min({a, b}) \in {a, b} /\ \A y \in {a, b} : Min({a, b}) <= y
  BY <1>1, Extremes
<1> QED
  BY <1>2

LEMMA Covers ==
  ASSUME NEW r \in Nat, NEW p \in Pos, NEW c \in Pos, NEW n \in Pos, n <= r \div (p * c)
  PROVE  n * p * c \in Nat /\ n * p * c <= r
<1> DEFINE u == p * c
           d == r \div u
<1>1. u \in Nat /\ u > 0
  BY DEF Pos
<1> HIDE DEF u
<1>2. d \in Nat /\ d * u <= r
  <2>1. r = u * (r \div u) + (r % u) /\ r % u >= 0 /\ r \div u \in Nat
    BY <1>1
  <2>2. u * (r \div u) = (r \div u) * u
    BY <1>1, <2>1
  <2> QED
    BY <1>1, <2>1, <2>2
<1>3. n <= d
  BY DEF u
<1> HIDE DEF d
<1>4. n * u <= d * u
  <2>1. d = n \/ d > n
    BY <1>2, <1>3 DEF Pos
  <2>2. u \in Pos /\ d \in Int /\ n \in Int
    BY <1>1, <1>2 DEF Pos
  <2>3. d >= n <=> d * u >= n * u
    BY <2>2, Scale
  <2> QED
    BY <1>3, <2>2, <2>3 DEF Pos
<1>5. n * p * c = n * u /\ n * u \in Nat /\ d * u \in Nat
  BY <1>1, <1>2 DEF Pos, u
<1> QED
  BY <1>2, <1>4, <1>5

\* Nothing, or one purchase that what remains pays for.
LEMMA TakeIs ==
  ASSUME slots \in Pos, NEW acc \in Accs, NEW s \in Symbols, NEW rs,
         rs[s] \in Seq(Row), rs[s] # <<>>, NEW equity \in Nat, NEW free \in Int
  PROVE  LET next == Take(acc, s, rs, equity, free)
         IN  /\ next \in Accs
             /\ \/ next = acc
                \/ /\ Len(acc.buys) < free
                   /\ \E o \in Order : /\ o.side = "BUY" /\ o.sym = s
                                       /\ next.buys = Append(acc.buys, o)
                                       /\ next.remaining = acc.remaining + Amount(o)
<1> DEFINE px == Last(rs[s]).price
           qty == Min({equity \div (slots * px * BuyCost), acc.remaining \div (px * BuyCost)})
           o == [side |-> "BUY", sym |-> s, qty |-> qty, px |-> px]
           rest == acc.remaining - qty * px * BuyCost
           next == Take(acc, s, rs, equity, free)
<1>1. px \in Pos /\ acc.buys \in Seq(Order) /\ acc.remaining \in Nat /\ BuyCost \in Pos
  BY LastRow DEF Accs, BuyCost, Pos
<1>2. next = IF Len(acc.buys) >= free \/ qty < 1
               THEN acc
               ELSE [buys |-> Append(acc.buys, o), remaining |-> rest]
  BY DEF Take
<1> HIDE DEF px
<1>3. qty \in Int /\ qty <= acc.remaining \div (px * BuyCost)
  <2>1. px * BuyCost \in Pos /\ slots * px * BuyCost \in Pos
    <3>1. \A a, b \in Pos : a * b \in Pos
      BY DEF Pos
    <3> QED
      BY <1>1, <3>1
  <2>2. \A a \in Nat, b \in Pos : a \div b \in Int
    BY DEF Pos
  <2>3. equity \div (slots * px * BuyCost) \in Int /\ acc.remaining \div (px * BuyCost) \in Int
    BY <1>1, <2>1, <2>2
  <2> QED
    BY <2>3, SmallerOfTwo
<1> HIDE DEF qty, next
<1>4. CASE Len(acc.buys) >= free \/ qty < 1
  BY <1>2, <1>4 DEF next
<1>5. CASE ~ (Len(acc.buys) >= free \/ qty < 1)
  <2>1. qty \in Pos /\ Len(acc.buys) < free
    BY <1>1, <1>3, <1>5 DEF Pos
  <2>2. qty * px * BuyCost \in Nat /\ rest \in Nat
    BY <1>1, <1>3, <2>1, Covers
  <2>3. o \in Order /\ o.side = "BUY" /\ o.sym = s /\ Amount(o) = - (qty * px * BuyCost)
    BY <1>1, <2>1 DEF Order, Amount
  <2>4. rest = acc.remaining + Amount(o)
    BY <1>1, <2>2, <2>3
  <2>5. next = [buys |-> Append(acc.buys, o), remaining |-> rest]
    BY <1>2, <1>5
  <2> HIDE DEF o, rest
  <2>6. Append(acc.buys, o) \in Seq(Order)
    BY <1>1, <2>3
  <2>7. next \in Accs /\ next.buys = Append(acc.buys, o) /\ next.remaining = rest
    BY <2>2, <2>5, <2>6 DEF Accs
  <2> QED
    BY <2>1, <2>3, <2>4, <2>7 DEF next
<1> QED
  BY <1>4, <1>5

\* Purchases of candidates at the places I, paid out of c, at most as many as
\* there are free slots.
Good(acc, I, cand, c, free) ==
  /\ acc \in Accs /\ Len(acc.buys) <= free
  /\ \A i \in 1..Len(acc.buys) :
       acc.buys[i].side = "BUY" /\ \E k \in I : acc.buys[i].sym = cand[k]
  /\ \A i, j \in 1..Len(acc.buys) : i # j => acc.buys[i].sym # acc.buys[j].sym
  /\ \E f : Path(f, acc.buys, c) /\ f[Len(acc.buys)] = acc.remaining

LEMMA PathAppend ==
  ASSUME NEW q \in Seq(Order), NEW o \in Order, NEW c, NEW f, Path(f, q, c),
         NEW r \in Nat, r = f[Len(q)] + Amount(o)
  PROVE  \E g : Path(g, Append(q, o), c) /\ g[Len(q) + 1] = r
<1> DEFINE n == Len(q)
           g == [k \in 0..n + 1 |-> IF k <= n THEN f[k] ELSE r]
           p == Append(q, o)
<1>1. n \in Nat /\ Len(p) = n + 1 /\ p[n + 1] = o /\ \A k \in 1..n : p[k] = q[k]
  OBVIOUS
<1>2. f \in [0..n -> Nat] /\ f[0] = c /\ \A k \in 1..n : f[k] = f[k - 1] + Amount(q[k])
  BY DEF Path
<1> HIDE DEF n, p
<1>3. g \in [0..n + 1 -> Nat] /\ g[0] = c /\ g[n + 1] = r
  BY <1>1, <1>2
<1>4. ASSUME NEW k \in 1..n + 1
      PROVE  g[k] = g[k - 1] + Amount(p[k])
  <2>1. CASE k \in 1..n
    BY <1>1, <1>2, <2>1
  <2>2. CASE k = n + 1
    <3>1. k - 1 = n /\ g[k] = r /\ g[n] = f[n] /\ p[k] = o
      BY <1>1, <2>2
    <3> QED
      BY <3>1 DEF n
  <2> QED
    BY <1>1, <2>1, <2>2
<1> HIDE DEF g
<1>5. Path(g, p, c)
  BY <1>1, <1>3, <1>4 DEF Path
<1> QED
  BY <1>3, <1>5 DEF n, p

LEMMA GoodTake ==
  ASSUME slots \in Pos, NEW rs, NEW cand, NEW c, NEW free \in Int, NEW equity \in Nat,
         NEW n \in Nat, \A k \in 1..n : cand[k] \in Symbols,
         \A k \in 1..n : rs[cand[k]] \in Seq(Row) /\ rs[cand[k]] # <<>>,
         \A i, j \in 1..n : i # j => cand[i] # cand[j],
         NEW I \in SUBSET (1..n), NEW m \in I, NEW acc, Good(acc, I \ {m}, cand, c, free)
  PROVE  Good(Take(acc, cand[m], rs, equity, free), I, cand, c, free)
<1> DEFINE next == Take(acc, cand[m], rs, equity, free)
<1>1. m \in 1..n /\ acc \in Accs /\ acc.buys \in Seq(Order) /\ acc.remaining \in Nat
  BY DEF Good, Accs
<1>2. /\ next \in Accs
      /\ \/ next = acc
         \/ /\ Len(acc.buys) < free
            /\ \E o \in Order : /\ o.side = "BUY" /\ o.sym = cand[m]
                                /\ next.buys = Append(acc.buys, o)
                                /\ next.remaining = acc.remaining + Amount(o)
  <2>1. cand[m] \in Symbols /\ rs[cand[m]] \in Seq(Row) /\ rs[cand[m]] # <<>>
    BY <1>1
  <2> DEFINE x == cand[m]
  <2> HIDE DEF x
  <2>2. acc \in Accs /\ x \in Symbols /\ rs[x] \in Seq(Row) /\ rs[x] # <<>>
    BY <1>1, <2>1 DEF x
  <2>3. LET after == Take(acc, x, rs, equity, free)
        IN  /\ after \in Accs
            /\ \/ after = acc
               \/ /\ Len(acc.buys) < free
                  /\ \E o \in Order : /\ o.side = "BUY" /\ o.sym = x
                                      /\ after.buys = Append(acc.buys, o)
                                      /\ after.remaining = acc.remaining + Amount(o)
    BY <2>2, TakeIs
  <2> QED
    BY <2>3 DEF x
<1> HIDE DEF next
<1>3. CASE next = acc
  BY <1>3 DEF Good, next
<1>4. CASE next # acc
  <2>1. PICK o \in Order : /\ o.side = "BUY" /\ o.sym = cand[m]
                           /\ next.buys = Append(acc.buys, o)
                           /\ next.remaining = acc.remaining + Amount(o)
    BY <1>2, <1>4
  <2>2. Len(acc.buys) < free /\ Len(acc.buys) \in Nat
    BY <1>1, <1>2, <1>4
  <2> DEFINE q == acc.buys
             p == next.buys
             len == Len(q)
  <2>3. /\ Len(p) = len + 1 /\ p[len + 1] = o /\ \A k \in 1..len : p[k] = q[k]
    BY <1>1, <2>1
  <2>4. /\ \A i \in 1..len : q[i].side = "BUY" /\ \E k \in I \ {m} : q[i].sym = cand[k]
        /\ \A i, j \in 1..len : i # j => q[i].sym # q[j].sym
        /\ \E f : Path(f, q, c) /\ f[len] = acc.remaining
    BY DEF Good
  <2>5. next.remaining \in Nat
    BY <1>2 DEF Accs
  <2>6. \E f : Path(f, p, c) /\ f[len + 1] = next.remaining
    <3>1. PICK f : Path(f, q, c) /\ f[len] = acc.remaining
      BY <2>4
    <3>2. \E h : Path(h, Append(q, o), c) /\ h[len + 1] = next.remaining
      <4>1. q \in Seq(Order) /\ o \in Order /\ next.remaining = f[Len(q)] + Amount(o)
        BY <1>1, <2>1, <3>1
      <4> HIDE DEF q
      <4> QED
        BY <2>5, <3>1, <4>1, PathAppend
    <3> QED
      BY <2>1, <3>2
  <2> HIDE DEF q, p, len
  <2>7. \A i \in 1..len : q[i].sym # o.sym
    BY <1>1, <2>1, <2>4
  <2>8. len \in Nat /\ 1..len + 1 = (1..len) \union {len + 1}
    BY <2>2 DEF len, q
  <2>9. \A i \in 1..len + 1 : p[i].side = "BUY" /\ \E k \in I : p[i].sym = cand[k]
    BY <2>1, <2>3, <2>4, <2>8
  <2>10. \A i, j \in 1..len + 1 : i # j => p[i].sym # p[j].sym
    BY <2>3, <2>4, <2>7, <2>8
  <2>11. Len(p) <= free
    BY <2>2, <2>3, <2>8 DEF len, q
  <2> QED
    BY <1>2, <2>3, <2>6, <2>9, <2>10, <2>11 DEF Good, p, next
<1> QED
  BY <1>3, <1>4

Free(rs, sigs) == slots - Cardinality(Held \ Sells(rs, sigs))

Takes(g, rs, sigs, D) ==
  g = [s \in D |->
         IF s = {} THEN [buys |-> <<>>, remaining |-> Available(rs, sigs)]
         ELSE Take(g[s \ {Max(s)}], Candidates(rs, sigs)[Max(s)], rs,
                   Equity(rs, sigs), Free(rs, sigs))]

LEMMA BuysIsFold ==
  ASSUME NEW rs, NEW sigs
  PROVE  Buys(rs, sigs) =
           (CHOOSE g : Takes(g, rs, sigs, SUBSET DOMAIN Candidates(rs, sigs)))
             [DOMAIN Candidates(rs, sigs)].buys
BY DEF Buys, FoldLeft, MapThenFoldSet, Takes, Free

\* Purchases are of breakouts that are not held, each once, as many as there are
\* free slots, and the cash after the sales pays for all of them.
LEMMA PurchasesAre ==
  ASSUME AccountType, slots \in Pos, NEW rs, NEW sigs, Quoted(rs, sigs),
         Free(rs, sigs) \in Nat, NEW q, q = Buys(rs, sigs)
  PROVE  /\ q \in Seq(Order) /\ Len(q) <= Free(rs, sigs)
         /\ \A i \in 1..Len(q) : q[i].side = "BUY" /\ q[i].sym \in Entrants(sigs)
         /\ \A i, j \in 1..Len(q) : i # j => q[i].sym # q[j].sym
         /\ \E f : Path(f, q, Available(rs, sigs))
<1> DEFINE cand == Candidates(rs, sigs)
           n == Cardinality(Entrants(sigs))
           c == Available(rs, sigs)
           eq == Equity(rs, sigs)
           free == Free(rs, sigs)
           base == [buys |-> <<>>, remaining |-> c]
           F == [x \in Accs \X (1..n) |-> Take(x[1], cand[x[2]], rs, eq, free)]
<1>1. /\ n \in Nat /\ DOMAIN cand = 1..n /\ \A k \in 1..n : cand[k] \in Entrants(sigs)
      /\ \A i, j \in 1..n : i # j => cand[i] # cand[j]
  BY CandidatesAre DEF Quoted, Lists
<1>2. c \in Nat /\ eq \in Nat /\ free \in Int
  BY MoneyType
<1>3. \A k \in 1..n : /\ cand[k] \in Symbols
                      /\ rs[cand[k]] \in Seq(Row) /\ rs[cand[k]] # <<>>
  BY <1>1 DEF Entrants, Quoted
<1>4. base \in Accs
  BY <1>2 DEF Accs
<1>5. \A g : Takes(g, rs, sigs, SUBSET (1..n)) <=>
        g = [s \in SUBSET (1..n) |->
               IF s = {} THEN base
               ELSE Take(g[s \ {Max(s)}], cand[Max(s)], rs, eq, free)]
  BY DEF Takes
<1> HIDE DEF n, cand, c, eq, free
<1>6. \E g : Takes(g, rs, sigs, SUBSET (1..n))
  <2>1. F \in [Accs \X (1..n) -> Accs]
    <3>1. \A x \in Accs, k \in 1..n : Take(x, cand[k], rs, eq, free) \in Accs
      BY <1>2, <1>3, TakeIs
    <3> QED
      BY <3>1
  <2>2. PICK g : Folds(g, base, F, SUBSET (1..n))
    BY <1>1, FoldExists
  <2> HIDE DEF base
  <2>3. \A s \in SUBSET (1..n) : g[s] \in Accs
    <3> HIDE DEF F
    <3> QED
      BY <1>1, <1>4, <2>1, <2>2, FoldType
  <2>4. \A s \in SUBSET (1..n) : s # {} =>
          F[<<g[s \ {Max(s)}], Max(s)>>] = Take(g[s \ {Max(s)}], cand[Max(s)], rs, eq, free)
    <3> SUFFICES ASSUME NEW s \in SUBSET (1..n), s # {}
                 PROVE  F[<<g[s \ {Max(s)}], Max(s)>>]
                          = Take(g[s \ {Max(s)}], cand[Max(s)], rs, eq, free)
      OBVIOUS
    <3>1. Max(s) \in 1..n /\ g[s \ {Max(s)}] \in Accs
      BY <1>1, <2>3, LastPlace
    <3> QED
      BY <3>1
  <2> HIDE DEF F
  <2>5. g = [s \in SUBSET (1..n) |-> IF s = {} THEN base ELSE F[<<g[s \ {Max(s)}], Max(s)>>]]
    BY <2>2 DEF Folds
  <2> DEFINE step(s) == Take(g[s \ {Max(s)}], cand[Max(s)], rs, eq, free)
  <2>6. g = [s \in SUBSET (1..n) |-> IF s = {} THEN base ELSE step(s)]
    <3>1. \A s \in SUBSET (1..n) : s # {} => F[<<g[s \ {Max(s)}], Max(s)>>] = step(s)
      BY <2>4
    <3> HIDE DEF step
    <3> QED
      BY <2>5, <3>1
  <2> QED
    BY <1>5, <2>6
<1>7. PICK g : Takes(g, rs, sigs, SUBSET (1..n)) /\ q = g[1..n].buys
  BY <1>1, <1>6, BuysIsFold, Zenon DEF cand
<1> DEFINE next(s) == Take(g[s \ {Max(s)}], cand[Max(s)], rs, eq, free)
<1>8. \A s \in SUBSET (1..n) : g[s] = IF s = {} THEN base ELSE next(s)
  <2>1. g = [s \in SUBSET (1..n) |-> IF s = {} THEN base ELSE next(s)]
    BY <1>5, <1>7
  <2> HIDE DEF next
  <2> QED
    BY <2>1
<1> DEFINE P == {s \in SUBSET (1..n) : Good(g[s], s, cand, c, free)}
<1>9. {} \in P
  <2>1. g[{}] = base
    <3>1. {} \in SUBSET (1..n)
      OBVIOUS
    <3> HIDE DEF next, base
    <3> QED
      BY <1>8, <3>1
  <2>2. /\ base.buys = <<>> /\ base.remaining = c /\ Len(base.buys) = 0
    OBVIOUS
  <2>3. Path([k \in {0} |-> c], base.buys, c) /\ [k \in {0} |-> c][Len(base.buys)] = c
    BY <1>2, <2>2 DEF Path
  <2>4. Len(base.buys) <= free
    BY <2>2 DEF free
  <2> HIDE DEF base
  <2>5. Good(base, {}, cand, c, free)
    BY <1>4, <2>2, <2>3, <2>4 DEF Good
  <2> QED
    BY <2>1, <2>5
<1>10. ASSUME NEW s \in SUBSET (1..n), s # {}, s \ {Max(s)} \in P
      PROVE  s \in P
  <2>1. Max(s) \in s
    BY <1>1, <1>10, LastPlace
  <2>2. Good(g[s \ {Max(s)}], s \ {Max(s)}, cand, c, free)
    BY <1>10
  <2>3. g[s] = Take(g[s \ {Max(s)}], cand[Max(s)], rs, eq, free)
    BY <1>10, <1>8
  <2>4. Good(Take(g[s \ {Max(s)}], cand[Max(s)], rs, eq, free), s, cand, c, free)
    BY <1>1, <1>2, <1>3, <2>1, <2>2, GoodTake
  <2> QED
    BY <2>3, <2>4
<1> HIDE DEF P
<1>11. 1..n \in P
  BY <1>1, <1>9, <1>10, PlaceInduction
<1>12. Good(g[1..n], 1..n, cand, c, free)
  BY <1>11 DEF P
<1>13. \A k \in 1..n : cand[k] \in Entrants(sigs)
  BY <1>1
<1> QED
  BY <1>7, <1>12, <1>13 DEF Good, Accs, c, free

-----------------------------------------------------------------------------
(* The account and the plan in hand.                                       *)
(*                                                                         *)
(* Strengthening: sales come first and purchases last, all of different    *)
(* symbols; a sale is of all that is held, a purchase of what is not; the  *)
(* cash pays for the rest of the plan; and the positions there will be     *)
(* once it is filled fit into the slots.                                   *)

OnSide(q, side) ==
  {s \in Symbols : \E k \in 1..Len(q) : q[k].side = side /\ q[k].sym = s}

After(q) == (Held \ OnSide(q, "SELL")) \union OnSide(q, "BUY")

Plannable(q) ==
  /\ q \in Seq(Order)
  /\ \A i, j \in 1..Len(q) : i < j /\ q[i].side = "BUY" => q[j].side = "BUY"
  /\ \A i, j \in 1..Len(q) : i # j => q[i].sym # q[j].sym
  /\ \A i \in 1..Len(q) : q[i].side = "SELL" => q[i].qty = held[q[i].sym]
  /\ \A i \in 1..Len(q) :
       q[i].side = "BUY" => held[q[i].sym] = 0 /\ rows[q[i].sym] # <<>>
  /\ \E f : Path(f, q, cash)
  /\ Cardinality(After(q)) <= slots

BoughtToday(s) == \E p \in purchases : p.sym = s /\ p.day = day

Leaving(s) == Leaves(s, rows, Signals(rows)[s])

Aligned(q) == \A s \in Held : Leaving(s) => BoughtToday(s) \/ s \in OnSide(q, "SELL")

Account ==
  AccountType /\ Cardinality(Held) <= slots /\ \A s \in Held : rows[s] # <<>>

Paper ==
  /\ Account
  /\ pc = "idle" => todo = <<>>
  /\ pc = "fill" => Plannable(todo) /\ Aligned(todo)

LEMMA SetsFinite ==
  /\ IsFiniteSet(Held) /\ Cardinality(Held) \in Nat
  /\ \A q : IsFiniteSet(After(q)) /\ Cardinality(After(q)) \in Nat
<1>1. Held \in SUBSET Symbols /\ \A q : After(q) \in SUBSET Symbols
  BY DEF Held, After, OnSide
<1>2. \A S \in SUBSET Symbols : IsFiniteSet(S) /\ Cardinality(S) \in Nat
  BY SymbolsAssumption, FS_Subset, FS_CardinalityType
<1> QED
  BY <1>1, <1>2

LEMMA InitPaper == Init => Paper
<1> SUFFICES ASSUME Init PROVE Paper
  OBVIOUS
<1>1. Held = {} /\ AccountType
  BY SizesAssumption DEF Init, Held, AccountType
<1>2. Cardinality(Held) = 0 /\ slots \in Nat
  BY <1>1, FS_EmptySet, SizesAssumption DEF Init
<1> QED
  BY <1>1, <1>2 DEF Init, Paper, Account

\* Loaded rows price what is held and what has a signal.
LEMMA RowsQuote ==
  ASSUME Market, Account, NEW S, Refresh(S)
  PROVE  /\ Quoted(rows', Signals(rows'))
         /\ \A s \in Symbols : rows[s] # <<>> => rows'[s] # <<>>
<1>1. /\ rows' \in [Symbols -> Seq(Row)] /\ rows \in [Symbols -> Seq(Row)]
      /\ \A s \in Symbols : Extends(rows[s], rows'[s])
  BY RefreshIs DEF Market, MarketType
<1>2. ASSUME NEW s \in Symbols, rows[s] # <<>>
      PROVE  rows'[s] # <<>>
  <2>1. rows[s] \in Seq(Row) /\ rows'[s] \in Seq(Row) /\ Len(rows[s]) <= Len(rows'[s])
    BY <1>1 DEF Extends
  <2> QED
    BY <1>2, <2>1
<1>3. ASSUME NEW s \in Symbols, Signals(rows')[s] # None
      PROVE  Priced(Signals(rows')[s]) /\ rows'[s] # <<>>
  <2>1. Signals(rows')[s] = LatestSignal(WeeklyBars(rows'[s], day), rule)
    BY <1>3 DEF Signals
  <2> QED
    BY <1>1, <1>3, <2>1, SignalType
<1> QED
  BY <1>1, <1>2, <1>3 DEF Quoted, Account, Held

LEMMA AccountRests ==
  ASSUME Account, UNCHANGED <<cash, held, slots>>,
         \A s \in Symbols : rows[s] # <<>> => rows'[s] # <<>>
  PROVE  Account'
BY DEF Account, AccountType, Held

\* A refresh of the symbols that are alive lets none of them die and none rise.
LEMMA AliveRests ==
  ASSUME Market, UNCHANGED day, Refresh(Alive)
  PROVE  Alive' = Alive
<1>1. rows' \in [Symbols -> Seq(Row)] /\ day \in Nat /\ Recent \in Nat
  BY RefreshIs, SizesAssumption DEF Market, MarketType
<1>2. ASSUME NEW s \in Symbols
      PROVE  Lag(rows'[s]) <= Recent <=> Lag(rows[s]) <= Recent
  <2>1. /\ Lag(rows'[s]) <= Lag(rows[s])
        /\ s \notin Alive => rows'[s] = rows[s]
        /\ Lag(rows'[s]) \in Int /\ Lag(rows[s]) \in Int
    BY <1>1, RefreshIs, LagType DEF Market, MarketType
  <2>2. s \in Alive <=> Lag(rows[s]) <= Recent
    BY DEF Alive
  <2> QED
    BY <1>1, <2>1, <2>2
<1>3. Alive' = {s \in Symbols : Lag(rows'[s]) <= Recent}
  BY DEF Alive, Lag
<1> QED
  BY <1>2, <1>3 DEF Alive

LEMMA LeavingRests ==
  ASSUME UNCHANGED <<day, rule>>, Alive' = Alive
  PROVE  \A s : Leaving(s)' <=> Leaves(s, rows', Signals(rows')[s])
BY DEF Leaving, Leaves, Signals, Lag

\* The symbols of a list of n orders are at most n.
LEMMA FewSymbols ==
  ASSUME NEW q \in Seq(Order), NEW side
  PROVE  Cardinality(OnSide(q, side)) <= Len(q)
<1> DEFINE I == {k \in 1..Len(q) : q[k].side = side}
           f == [k \in I |-> q[k].sym]
<1>1. /\ IsFiniteSet(1..Len(q)) /\ Cardinality(1..Len(q)) = Len(q) /\ Len(q) \in Nat
      /\ I \in SUBSET (1..Len(q))
  BY FS_Interval
<1>2. IsFiniteSet(I) /\ Cardinality(I) <= Len(q) /\ Cardinality(I) \in Nat
  BY <1>1, FS_Subset, FS_CardinalityType
<1>3. \A k \in 1..Len(q) : q[k].sym \in Symbols
  BY OrderType
<1>4. f \in Surjection(I, OnSide(q, side))
  BY <1>3 DEF Surjection, OnSide
<1>5. IsFiniteSet(OnSide(q, side)) /\ Cardinality(OnSide(q, side)) <= Cardinality(I)
  BY <1>2, <1>4, FS_Surjection
<1>6. Cardinality(OnSide(q, side)) \in Nat
  BY <1>5, FS_CardinalityType
<1> QED
  BY <1>1, <1>2, <1>5, <1>6

LEMMA PathJoin ==
  ASSUME NEW p \in Seq(Order), NEW q \in Seq(Order), NEW c, NEW d,
         NEW f, Path(f, p, c), f[Len(p)] = d, NEW g, Path(g, q, d)
  PROVE  \E h : Path(h, p \o q, c)
<1> DEFINE m == Len(p)
           n == Len(q)
           r == p \o q
           h == [k \in 0..m + n |-> IF k <= m THEN f[k] ELSE g[k - m]]
<1>1. /\ m \in Nat /\ n \in Nat /\ Len(r) = m + n
      /\ \A k \in 1..m : r[k] = p[k]
      /\ \A k \in 1..n : r[m + k] = q[k]
  OBVIOUS
<1>2. /\ f \in [0..m -> Nat] /\ f[0] = c /\ \A k \in 1..m : f[k] = f[k - 1] + Amount(p[k])
      /\ g \in [0..n -> Nat] /\ g[0] = d /\ \A k \in 1..n : g[k] = g[k - 1] + Amount(q[k])
  BY DEF Path
<1>3. f[m] = d
  OBVIOUS
<1> HIDE DEF m, n, r
<1>4. h \in [0..m + n -> Nat] /\ h[0] = c
  BY <1>1, <1>2
<1>5. ASSUME NEW k \in 1..m + n
      PROVE  h[k] = h[k - 1] + Amount(r[k])
  <2>1. CASE k <= m
    BY <1>1, <1>2, <2>1
  <2>2. CASE k > m
    <3> DEFINE i == k - m
    <3>1. i \in 1..n /\ m + i = k /\ (k - 1) - m = i - 1 /\ k - 1 >= m
      BY <1>1, <2>2
    <3>2. h[k] = g[i] /\ r[k] = q[i]
      BY <1>1, <2>2, <3>1
    <3>3. h[k - 1] = g[i - 1]
      <4>1. CASE k - 1 = m
        <5>1. i - 1 = 0 /\ h[k - 1] = f[m]
          BY <1>1, <3>1, <4>1
        <5> QED
          BY <1>2, <1>3, <5>1
      <4>2. CASE k - 1 > m
        BY <1>1, <3>1, <4>2
      <4> QED
        BY <1>1, <3>1, <4>1, <4>2
    <3> HIDE DEF h, i
    <3> QED
      BY <1>2, <3>1, <3>2, <3>3
  <2> QED
    BY <1>1, <2>1, <2>2
<1> HIDE DEF h
<1>6. Path(h, r, c)
  BY <1>1, <1>4, <1>5 DEF Path
<1> QED
  BY <1>6 DEF r

LEMMA PlanPaper ==
  ASSUME Market, Paper, Plan
  PROVE  Paper'
<1> DEFINE sigs == Signals(rows')
           p == SellOrders(rows', sigs)
           q == Buys(rows', sigs)
           all == p \o q
           keep == Held \ Sells(rows', sigs)
<1>1. /\ Refresh(Alive) /\ todo' = all /\ pc' = "fill"
      /\ UNCHANGED <<rule, slots, day, cash, held, purchases>>
  BY DEF Plan, arguments, account
<1>2. /\ Account /\ AccountType /\ Cardinality(Held) <= slots /\ slots \in Pos /\ slots \in Nat
  BY DEF Paper, Account, Market, MarketType, Pos
<1>3. Quoted(rows', sigs) /\ \A s \in Symbols : rows[s] # <<>> => rows'[s] # <<>>
  BY <1>1, <1>2, RowsQuote
<1>4. Account'
  BY <1>1, <1>2, <1>3, AccountRests
<1> HIDE DEF sigs
<1>5. Sells(rows', sigs) \in SUBSET Held /\ keep \in SUBSET Held /\ Held \in SUBSET Symbols
  BY DEF Sells, Held
<1>6. /\ IsFiniteSet(keep) /\ Cardinality(keep) \in Nat /\ Cardinality(keep) <= slots
      /\ Free(rows', sigs) \in Nat /\ Free(rows', sigs) = slots - Cardinality(keep)
  <2>1. IsFiniteSet(keep) /\ Cardinality(keep) <= Cardinality(Held) /\ Cardinality(Held) \in Nat
    BY <1>5, SetsFinite, FS_Subset
  <2>2. Cardinality(keep) \in Nat
    BY <2>1, FS_CardinalityType
  <2>3. Free(rows', sigs) = slots - Cardinality(keep)
    BY DEF Free
  <2> HIDE DEF keep
  <2> QED
    BY <1>2, <2>1, <2>2, <2>3
<1>7. /\ p \in Seq(Order)
      /\ \A i \in 1..Len(p) : /\ p[i].side = "SELL" /\ p[i].sym \in Sells(rows', sigs)
                             /\ p[i].qty = held[p[i].sym]
      /\ \A i, j \in 1..Len(p) : i # j => p[i].sym # p[j].sym
      /\ \A s \in Sells(rows', sigs) : \E i \in 1..Len(p) : p[i].sym = s
      /\ \E f : Path(f, p, cash) /\ f[Len(p)] = Available(rows', sigs)
  BY <1>2, <1>3, SalesAre
<1>8. /\ q \in Seq(Order) /\ Len(q) <= Free(rows', sigs)
      /\ \A i \in 1..Len(q) : q[i].side = "BUY" /\ q[i].sym \in Entrants(sigs)
      /\ \A i, j \in 1..Len(q) : i # j => q[i].sym # q[j].sym
      /\ \E f : Path(f, q, Available(rows', sigs))
  BY <1>2, <1>3, <1>6, PurchasesAre
<1> HIDE DEF p, q
<1> DEFINE m == Len(p)
           n == Len(q)
<1>9. /\ m \in Nat /\ n \in Nat /\ all \in Seq(Order) /\ Len(all) = m + n
      /\ \A k \in 1..m : all[k] = p[k]
      /\ \A k \in 1..n : all[m + k] = q[k]
  BY <1>7, <1>8
<1>10. ASSUME NEW k \in 1..m + n
       PROVE  \/ k \in 1..m /\ all[k] = p[k]
              \/ k \notin 1..m /\ k - m \in 1..n /\ all[k] = q[k - m]
  <2> HIDE DEF m, n, all
  <2>1. CASE k <= m
    BY <1>9, <2>1
  <2>2. CASE k > m
    <3>1. k - m \in 1..n /\ m + (k - m) = k
      BY <1>9, <2>2
    <3> QED
      BY <1>9, <2>2, <3>1
  <2> QED
    BY <1>9, <2>1, <2>2
<1> HIDE DEF m, n, all
<1>11. \A s \in Entrants(sigs) : held[s] = 0 /\ rows'[s] # <<>> /\ s \notin Sells(rows', sigs)
  BY <1>2, <1>3 DEF Entrants, Quoted, Held, AccountType, Sells
<1>12. \A k \in 1..m + n : /\ all[k].side = "SELL" <=> k \in 1..m
                           /\ all[k].side = "BUY" <=> k \notin 1..m
                           /\ all[k].side = "SELL" => /\ all[k].sym \in Sells(rows', sigs)
                                                     /\ all[k].qty = held[all[k].sym]
                           /\ all[k].side = "BUY" => all[k].sym \in Entrants(sigs)
  BY <1>7, <1>8, <1>10 DEF m, n
<1>13. \A i, j \in 1..m + n : i < j /\ all[i].side = "BUY" => all[j].side = "BUY"
  BY <1>9, <1>12
<1>14. ASSUME NEW i \in 1..m + n, NEW j \in 1..m + n, i # j
       PROVE  all[i].sym # all[j].sym
  <2>1. CASE i \in 1..m /\ j \in 1..m
    BY <1>7, <1>9, <1>14, <2>1 DEF m
  <2>2. CASE i \notin 1..m /\ j \notin 1..m
    <3>1. /\ i - m \in 1..n /\ j - m \in 1..n /\ i - m # j - m
          /\ all[i] = q[i - m] /\ all[j] = q[j - m]
      BY <1>9, <1>10, <1>14, <2>2
    <3> QED
      BY <1>8, <3>1 DEF n
  <2>3. CASE ~ (i \in 1..m <=> j \in 1..m)
    BY <1>11, <1>12, <2>3
  <2> QED
    BY <2>1, <2>2, <2>3
<1>15. OnSide(all, "SELL") = Sells(rows', sigs)
  <2>1. OnSide(all, "SELL") \subseteq Sells(rows', sigs)
    BY <1>9, <1>12 DEF OnSide
  <2>2. ASSUME NEW s \in Sells(rows', sigs)
        PROVE  s \in OnSide(all, "SELL")
    <3>1. PICK i \in 1..m : p[i].sym = s
      BY <1>7 DEF m
    <3>2. i \in 1..m + n /\ all[i].sym = s /\ all[i].side = "SELL" /\ s \in Symbols
      BY <1>5, <1>9, <1>12, <3>1
    <3> QED
      BY <1>9, <3>2 DEF OnSide
  <2> QED
    BY <2>1, <2>2
<1>16. OnSide(all, "BUY") = OnSide(q, "BUY")
  <2>1. \A k \in 1..m + n : all[k].side = "BUY" => k - m \in 1..n /\ all[k] = q[k - m]
    BY <1>10, <1>12
  <2>2. \A k \in 1..n : m + k \in 1..m + n /\ all[m + k] = q[k]
    BY <1>9
  <2>3. \A s : (\E k \in 1..m + n : all[k].side = "BUY" /\ all[k].sym = s)
                <=> \E k \in 1..n : q[k].side = "BUY" /\ q[k].sym = s
    BY <2>1, <2>2
  <2>4. Len(all) = m + n /\ Len(q) = n
    BY <1>9 DEF n
  <2> QED
    BY <2>3, <2>4 DEF OnSide
<1>17. Cardinality(After(all)) <= slots
  <2> DEFINE B == OnSide(q, "BUY")
  <2>1. B \in SUBSET Symbols /\ Cardinality(B) <= Len(q) /\ IsFiniteSet(B)
    BY <1>8, FewSymbols, SymbolsAssumption, FS_Subset DEF OnSide
  <2>2. Cardinality(B) \in Nat /\ IsFiniteSet(keep \intersect B)
    BY <1>6, <2>1, FS_CardinalityType, FS_Subset
  <2>3. Cardinality(keep \intersect B) \in Nat
    BY <2>2, FS_CardinalityType
  <2>4. After(all) = keep \union B
    BY <1>15, <1>16 DEF After
  <2>5. Cardinality(keep \union B)
          = Cardinality(keep) + Cardinality(B) - Cardinality(keep \intersect B)
    BY <1>6, <2>1, FS_Union
  <2> HIDE DEF B, keep
  <2> QED
    BY <1>2, <1>6, <1>8, <1>9, <2>1, <2>2, <2>3, <2>4, <2>5 DEF n
<1>18. \E f : Path(f, all, cash)
  <2>1. PICK f : Path(f, p, cash) /\ f[Len(p)] = Available(rows', sigs)
    BY <1>7
  <2>2. PICK g : Path(g, q, Available(rows', sigs))
    BY <1>8
  <2> QED
    BY <1>7, <1>8, <2>1, <2>2, PathJoin DEF all
<1>19. /\ todo' = all /\ held' = held /\ cash' = cash /\ slots' = slots /\ Held' = Held
       /\ After(todo)' = After(all)
  <2>1. todo' = all /\ held' = held /\ cash' = cash /\ slots' = slots
    BY <1>1
  <2>2. Held' = Held
    BY <2>1 DEF Held
  <2> QED
    BY <2>1, <2>2 DEF After, OnSide
<1>20. Plannable(todo)'
  <2> DEFINE b == m + n
  <2>1. Len(all) = b /\ all \in Seq(Order)
    BY <1>9
  <2>2. \A i \in 1..b : /\ all[i].side = "SELL" => all[i].qty = held[all[i].sym]
                        /\ all[i].side = "BUY" => held[all[i].sym] = 0 /\ rows'[all[i].sym] # <<>>
    BY <1>11, <1>12
  <2> HIDE DEF b
  <2>3. \A i, j \in 1..b : i < j /\ all[i].side = "BUY" => all[j].side = "BUY"
    BY <1>13 DEF b
  <2>4. \A i, j \in 1..b : i # j => all[i].sym # all[j].sym
    BY <1>14 DEF b
  <2> QED
    BY <1>17, <1>18, <1>19, <2>1, <2>2, <2>3, <2>4 DEF Plannable
<1>21. Aligned(todo)'
  <2>1. \A s : Leaving(s)' <=> Leaves(s, rows', sigs[s])
    BY <1>1, AliveRests, LeavingRests DEF sigs
  <2>2. \A s \in Held : Leaves(s, rows', sigs[s]) => s \in OnSide(all, "SELL")
    BY <1>15 DEF Sells
  <2> QED
    BY <1>1, <1>19, <2>1, <2>2 DEF Aligned, OnSide, BoughtToday
<1> QED
  BY <1>1, <1>4, <1>20, <1>21 DEF Paper

LEMMA TailIs ==
  ASSUME NEW q \in Seq(Order), q # <<>>
  PROVE  /\ Len(q) \in Nat \ {0} /\ Head(q) = q[1] /\ q[1] \in Order
         /\ Tail(q) \in Seq(Order) /\ Len(Tail(q)) = Len(q) - 1
         /\ \A k \in 1..Len(q) - 1 : Tail(q)[k] = q[k + 1] /\ k + 1 \in 1..Len(q)
OBVIOUS

LEMMA PathTail ==
  ASSUME NEW q \in Seq(Order), q # <<>>, NEW c, NEW f, Path(f, q, c)
  PROVE  /\ c \in Nat /\ c + Amount(q[1]) \in Nat
         /\ \E g : Path(g, Tail(q), c + Amount(q[1]))
<1> DEFINE n == Len(q)
           t == Tail(q)
           g == [k \in 0..n - 1 |-> f[k + 1]]
<1>1. /\ n \in Nat \ {0} /\ Len(t) = n - 1
      /\ \A k \in 1..n - 1 : t[k] = q[k + 1] /\ k + 1 \in 1..n
  BY TailIs
<1>2. f \in [0..n -> Nat] /\ f[0] = c /\ \A k \in 1..n : f[k] = f[k - 1] + Amount(q[k])
  BY DEF Path
<1> HIDE DEF n, t
<1>3. f[1] = c + Amount(q[1]) /\ f[1] \in Nat /\ c \in Nat
  <2>1. 1 \in 1..n /\ 0 \in 0..n /\ 1 \in 0..n /\ 1 - 1 = 0
    BY <1>1
  <2> QED
    BY <1>2, <2>1
<1>4. g \in [0..n - 1 -> Nat] /\ g[0] = f[1]
  BY <1>1, <1>2
<1>5. ASSUME NEW k \in 1..n - 1
      PROVE  g[k] = g[k - 1] + Amount(t[k])
  <2>1. k + 1 \in 1..n /\ (k + 1) - 1 = k /\ k - 1 \in 0..n - 1 /\ k \in 0..n - 1 /\ (k - 1) + 1 = k
    BY <1>1
  <2>2. g[k] = f[k + 1] /\ g[k - 1] = f[k] /\ t[k] = q[k + 1]
    BY <1>1, <2>1
  <2>3. f[k + 1] = f[k] + Amount(q[k + 1])
    BY <1>2, <2>1
  <2> QED
    BY <2>2, <2>3
<1> HIDE DEF g
<1>6. Path(g, t, f[1])
  BY <1>1, <1>4, <1>5 DEF Path
<1> QED
  BY <1>3, <1>6 DEF t

\* The next order of a plan can be filled.
LEMMA NextIsCovered ==
  ASSUME Account, Plannable(todo), todo # <<>>
  PROVE  Fillable(Head(todo))
<1> DEFINE o == Head(todo)
<1>1. todo \in Seq(Order) /\ o = todo[1] /\ o \in Order /\ 1 \in 1..Len(todo)
  BY TailIs DEF Plannable
<1> HIDE DEF o
<1>2. CASE o.side = "SELL"
  <2>1. held[o.sym] = o.qty /\ o.qty \in Nat
    BY <1>1, <1>2, OrderType DEF Plannable, Pos
  <2> QED
    BY <1>2, <2>1 DEF Fillable, o
<1>3. CASE o.side # "SELL"
  <2>1. o.side = "BUY" /\ Amount(o) = - (o.qty * o.px * BuyCost)
    BY <1>1, <1>3, OrderType DEF Amount
  <2>2. cash \in Nat /\ cash + Amount(o) \in Nat
    BY <1>1, PathTail DEF Plannable
  <2>3. o.qty * o.px * BuyCost \in Nat
    <3>1. o.qty \in Nat /\ o.px \in Nat /\ BuyCost \in Nat
      BY <1>1, OrderType DEF Pos, BuyCost
    <3>2. o.qty * o.px \in Nat
      BY <3>1
    <3> QED
      BY <3>1, <3>2
  <2>4. cash >= o.qty * o.px * BuyCost
    BY <2>1, <2>2, <2>3
  <2> QED
    BY <2>1, <2>4 DEF Fillable, o
<1> QED
  BY <1>2, <1>3

LEMMA FillPaper ==
  ASSUME Market, Paper, Fill
  PROVE  /\ Paper'
         /\ \A s \in Symbols : held'[s] > held[s] => held[s] = 0
<1> DEFINE q == todo
           o == q[1]
           t == Tail(q)
           n == Len(q)
           a == o.sym
           sell == o.side = "SELL"
<1>1. /\ pc = "fill" /\ pc' = "fill" /\ q # <<>> /\ todo' = t
      /\ UNCHANGED <<rule, slots, day, rows>>
  BY DEF Fill, arguments
<1>2. Account /\ AccountType /\ Plannable(q) /\ Aligned(q) /\ slots \in Nat
  BY <1>1 DEF Paper, Account, Market, MarketType
<1>3. /\ q \in Seq(Order) /\ n \in Nat \ {0} /\ Head(q) = o /\ o \in Order
      /\ t \in Seq(Order) /\ Len(t) = n - 1
      /\ \A k \in 1..n - 1 : t[k] = q[k + 1] /\ k + 1 \in 1..n
  BY <1>1, <1>2, TailIs DEF Plannable
<1>4. /\ o.side \in {"BUY", "SELL"} /\ a \in Symbols /\ o.qty \in Nat /\ o.qty > 0
      /\ o.qty \in Pos /\ o.px \in Pos
  BY <1>3, OrderType DEF Pos
<1>5. Fillable(o)
  BY <1>1, <1>2, <1>3, NextIsCovered
<1>6. /\ \A i, j \in 1..n : i < j /\ q[i].side = "BUY" => q[j].side = "BUY"
      /\ \A i, j \in 1..n : i # j => q[i].sym # q[j].sym
      /\ \A i \in 1..n : q[i].side = "SELL" => q[i].qty = held[q[i].sym]
      /\ \A i \in 1..n :
           q[i].side = "BUY" => held[q[i].sym] = 0 /\ rows[q[i].sym] # <<>>
      /\ \E f : Path(f, q, cash)
      /\ Cardinality(After(q)) <= slots
  BY <1>2 DEF Plannable
<1>7. /\ cash' = cash + Amount(o)
      /\ held' = [held EXCEPT ![a] = IF sell THEN 0 ELSE o.qty]
      /\ \A p \in purchases : p \in purchases'
      /\ ~ sell => \E r \in purchases' : r.sym = a /\ r.day = day
  <2>1. cash \in Nat /\ held \in [Symbols -> Nat]
    BY <1>2 DEF AccountType
  <2>2. \/ /\ o.side = "BUY"
           /\ cash' = cash - o.qty * o.px * BuyCost
           /\ held' = [held EXCEPT ![a] = @ + o.qty]
           /\ purchases' = purchases \union {[sym |-> a, bar |-> Breakout(a), day |-> day]}
        \/ /\ o.side = "SELL"
           /\ cash' = cash + o.qty * o.px * SellKeep
           /\ held' = [held EXCEPT ![a] = @ - o.qty]
           /\ UNCHANGED purchases
    BY <1>3, <1>5 DEF Fill
  <2> HIDE DEF o, q
  <2>3. CASE sell
    <3>1. held[a] = o.qty
      <4>1. 1 \in 1..n
        BY <1>3
      <4> QED
        BY <1>6, <2>3, <4>1 DEF o
    <3>2. /\ cash' = cash + o.qty * o.px * SellKeep
          /\ held' = [held EXCEPT ![a] = @ - o.qty]
          /\ UNCHANGED purchases
      BY <2>2, <2>3
    <3>3. held[a] - o.qty = 0
      BY <1>4, <3>1
    <3>4. held' = [held EXCEPT ![a] = 0]
      BY <3>2, <3>3
    <3> QED
      BY <2>3, <3>2, <3>4 DEF Amount
  <2>4. CASE ~ sell
    <3>1. held[a] = 0
      <4>1. 1 \in 1..n
        BY <1>3
      <4> QED
        BY <1>4, <1>6, <2>4, <4>1 DEF o
    <3>2. /\ cash' = cash - o.qty * o.px * BuyCost
          /\ held' = [held EXCEPT ![a] = @ + o.qty]
          /\ purchases' = purchases \union {[sym |-> a, bar |-> Breakout(a), day |-> day]}
      BY <2>2, <2>4
    <3>3. held' = [held EXCEPT ![a] = o.qty]
      <4>1. held[a] + o.qty = o.qty
        BY <1>4, <3>1
      <4> QED
        BY <3>2, <4>1
    <3>4. cash' = cash + Amount(o)
      <4>1. o.qty * o.px * BuyCost \in Int
        <5>1. BuyCost \in Nat /\ o.qty \in Nat /\ o.px \in Nat
          BY <1>4 DEF BuyCost, Pos
        <5>2. o.qty * o.px \in Nat
          BY <5>1
        <5> QED
          BY <5>1, <5>2
      <4>2. Amount(o) = - (o.qty * o.px * BuyCost)
        BY <2>4 DEF Amount
      <4> QED
        BY <2>1, <3>2, <4>1, <4>2
    <3>5. \E r \in purchases' : r.sym = a /\ r.day = day
      <4> DEFINE p == [sym |-> a, bar |-> Breakout(a), day |-> day]
      <4>1. p.sym = a /\ p.day = day
        OBVIOUS
      <4>2. p \in purchases'
        BY <3>2
      <4> HIDE DEF p
      <4> QED
        BY <4>1, <4>2
    <3> QED
      BY <2>4, <3>2, <3>3, <3>4, <3>5
  <2> QED
    BY <2>3, <2>4
<1>8. held \in [Symbols -> Nat] /\ cash \in Nat
  BY <1>2 DEF AccountType
<1>9. /\ sell => held[a] = o.qty
      /\ ~ sell => held[a] = 0 /\ rows[a] # <<>>
  <2>1. 1 \in 1..n
    BY <1>3
  <2> QED
    BY <1>4, <1>6, <2>1
<1> HIDE DEF sell, a, o, t, n, q
<1>10. /\ held' \in [Symbols -> Nat] /\ \A s \in Symbols \ {a} : held'[s] = held[s]
       /\ held'[a] = IF sell THEN 0 ELSE o.qty
  BY <1>4, <1>7, <1>8
<1>11. /\ cash' \in Nat /\ \E f : Path(f, t, cash')
  <2>1. PICK f : Path(f, q, cash)
    BY <1>6
  <2>2. cash + Amount(o) \in Nat /\ \E g : Path(g, t, cash + Amount(o))
    BY <1>1, <1>3, <2>1, PathTail DEF o, t
  <2> QED
    BY <1>7, <2>2
<1>12. /\ sell => Held' = Held \ {a} /\ a \in Held
       /\ ~ sell => Held' = Held \union {a} /\ a \notin Held
  <2>1. Held' = {s \in Symbols : held'[s] > 0} /\ Held = {s \in Symbols : held[s] > 0}
    BY DEF Held
  <2> QED
    BY <1>4, <1>9, <1>10, <2>1
<1>13. /\ 1 \in 1..n /\ q[1] = o /\ o.sym = a
       /\ sell <=> (o.side = "SELL")
       /\ \A k \in 1..n : k = 1 \/ (k - 1 \in 1..n - 1 /\ t[k - 1] = q[k])
       /\ \A k \in 1..n - 1 : k + 1 # 1 /\ t[k] = q[k + 1] /\ k + 1 \in 1..n
  <2>1. \A k \in 1..n : k = 1 \/ (k - 1 \in 1..n - 1 /\ (k - 1) + 1 = k)
    BY <1>3
  <2> QED
    BY <1>3, <2>1 DEF o, a, sell
<1>14. \A k \in 1..n - 1 : t[k].sym # a
  BY <1>6, <1>13
<1>15. ASSUME NEW side
       PROVE  OnSide(q, side) = OnSide(t, side) \union (IF o.side = side THEN {a} ELSE {})
  <2>1. ASSUME NEW s
        PROVE  (\E k \in 1..n : q[k].side = side /\ q[k].sym = s)
                 <=> (\E k \in 1..n - 1 : t[k].side = side /\ t[k].sym = s)
                       \/ (o.side = side /\ s = a)
    BY <1>13
  <2>2. Len(q) = n /\ Len(t) = n - 1
    BY <1>3 DEF n
  <2> QED
    BY <1>4, <2>1, <2>2, ZenonT(40) DEF OnSide
<1>16. a \notin OnSide(t, "SELL") /\ a \notin OnSide(t, "BUY")
  BY <1>3, <1>14 DEF OnSide
<1>17. ~ sell => OnSide(q, "SELL") = {}
  <2> SUFFICES ASSUME ~ sell, NEW k \in 1..n PROVE q[k].side # "SELL"
    BY <1>3 DEF OnSide, n
  <2>1. o.side = "BUY"
    BY <1>4, <1>13
  <2>2. k = 1 \/ 1 < k
    BY <1>3
  <2> QED
    BY <1>6, <1>13, <2>1, <2>2
<1>18. After(todo)' = After(q)
  <2>1. After(todo)' = (Held' \ OnSide(t, "SELL")) \union OnSide(t, "BUY")
    BY <1>1 DEF After, OnSide, t
  <2>2. After(q) = (Held \ OnSide(q, "SELL")) \union OnSide(q, "BUY")
    BY DEF After
  <2>3. CASE sell
    <3>1. o.side = "SELL" /\ o.side # "BUY"
      BY <1>13, <2>3
    <3>2. OnSide(q, "SELL") = OnSide(t, "SELL") \union {a} /\ OnSide(q, "BUY") = OnSide(t, "BUY")
      BY <1>15, <3>1
    <3> QED
      BY <1>12, <1>16, <2>1, <2>2, <2>3, <3>2
  <2>4. CASE ~ sell
    <3>1. o.side = "BUY" /\ o.side # "SELL"
      BY <1>4, <1>13, <2>4
    <3>2. OnSide(q, "SELL") = OnSide(t, "SELL") /\ OnSide(q, "BUY") = OnSide(t, "BUY") \union {a}
      BY <1>15, <3>1
    <3>3. OnSide(q, "SELL") = {}
      BY <1>17, <2>4
    <3> QED
      BY <1>12, <2>1, <2>2, <2>4, <3>2, <3>3
  <2> QED
    BY <2>3, <2>4
<1>19. Cardinality(Held') <= slots
  <2>1. CASE sell
    <3>1. Held' \in SUBSET Held
      BY <1>12, <2>1
    <3>2. IsFiniteSet(Held) /\ Cardinality(Held) \in Nat /\ Cardinality(Held) <= slots
      BY <1>2, SetsFinite DEF Account
    <3>3. Cardinality(Held') <= Cardinality(Held) /\ IsFiniteSet(Held')
      BY <3>1, <3>2, FS_Subset
    <3>4. Cardinality(Held') \in Nat
      BY <3>3, FS_CardinalityType
    <3> QED
      BY <1>2, <3>2, <3>3, <3>4
  <2>2. CASE ~ sell
    <3>1. o.side = "BUY"
      BY <1>4, <1>13, <2>2
    <3>2. a \in OnSide(q, "BUY")
      BY <1>15, <3>1
    <3>3. Held' \in SUBSET After(q)
      BY <1>12, <1>17, <2>2, <3>2 DEF After
    <3>4. IsFiniteSet(After(q)) /\ Cardinality(After(q)) \in Nat
      BY SetsFinite
    <3>5. Cardinality(Held') <= Cardinality(After(q)) /\ IsFiniteSet(Held')
      BY <3>3, <3>4, FS_Subset
    <3>6. Cardinality(Held') \in Nat
      BY <3>5, FS_CardinalityType
    <3> QED
      BY <1>2, <1>6, <3>4, <3>5, <3>6
  <2> QED
    BY <2>1, <2>2
<1>20. \A s \in Held' : rows'[s] # <<>>
  <2>1. \A s \in Held : rows[s] # <<>>
    BY <1>2 DEF Account
  <2> QED
    BY <1>1, <1>9, <1>12, <2>1
<1>21. Account'
  BY <1>1, <1>10, <1>11, <1>19, <1>20 DEF Account, AccountType
<1>22. Plannable(todo)'
  <2>1. \A i, j \in 1..n - 1 : i < j /\ t[i].side = "BUY" => t[j].side = "BUY"
    <3> SUFFICES ASSUME NEW i \in 1..n - 1, NEW j \in 1..n - 1, i < j, t[i].side = "BUY"
                 PROVE  t[j].side = "BUY"
      OBVIOUS
    <3>1. i + 1 \in 1..n /\ j + 1 \in 1..n /\ i + 1 < j + 1
      BY <1>3
    <3> QED
      BY <1>6, <1>13, <3>1
  <2>2. \A i, j \in 1..n - 1 : i # j => t[i].sym # t[j].sym
    <3> SUFFICES ASSUME NEW i \in 1..n - 1, NEW j \in 1..n - 1, i # j
                 PROVE  t[i].sym # t[j].sym
      OBVIOUS
    <3>1. i + 1 \in 1..n /\ j + 1 \in 1..n /\ i + 1 # j + 1
      BY <1>3
    <3> QED
      BY <1>6, <1>13, <3>1
  <2>3. \A i \in 1..n - 1 : t[i].sym \in Symbols \ {a} /\ held'[t[i].sym] = held[t[i].sym]
    <3>1. \A i \in 1..n - 1 : t[i].sym \in Symbols
      BY <1>3, OrderType
    <3> QED
      BY <1>10, <1>14, <3>1
  <2>4. \A i \in 1..n - 1 : /\ t[i].side = "SELL" => t[i].qty = held[t[i].sym]
                            /\ t[i].side = "BUY" => held[t[i].sym] = 0 /\ rows[t[i].sym] # <<>>
    BY <1>6, <1>13
  <2>5. \A i \in 1..n - 1 : /\ t[i].side = "SELL" => t[i].qty = held'[t[i].sym]
                            /\ t[i].side = "BUY" => held'[t[i].sym] = 0 /\ rows'[t[i].sym] # <<>>
    BY <1>1, <2>3, <2>4
  <2>6. Len(t) = n - 1 /\ t \in Seq(Order) /\ todo' = t /\ slots' = slots
    BY <1>1, <1>3 DEF t
  <2>7. Cardinality(After(todo)') <= slots'
    BY <1>6, <1>18, <2>6
  <2> QED
    BY <1>11, <2>1, <2>2, <2>5, <2>6, <2>7 DEF Plannable
<1>23. Aligned(todo)'
  <2>1. \A s : Leaving(s)' <=> Leaving(s)
    BY <1>1 DEF Leaving, Leaves, Signals, Alive, Lag
  <2>2. \A s : BoughtToday(s) => BoughtToday(s)'
    BY <1>1, <1>7 DEF BoughtToday
  <2>3. OnSide(todo, "SELL")' = OnSide(t, "SELL")
    BY <1>1 DEF OnSide, t
  <2>4. ASSUME NEW s \in Held', Leaving(s)
        PROVE  BoughtToday(s)' \/ s \in OnSide(t, "SELL")
    <3>1. CASE s = a
      <4>1. ~ sell
        BY <1>12, <2>4, <3>1
      <4>2. \E r \in purchases' : r.sym = s /\ r.day = day
        BY <1>7, <3>1, <4>1
      <4> QED
        BY <1>1, <4>2 DEF BoughtToday
    <3>2. CASE s # a
      <4>1. s \in Held
        BY <1>12, <2>4, <3>2
      <4>2. BoughtToday(s) \/ s \in OnSide(q, "SELL")
        BY <1>2, <2>4, <4>1 DEF Aligned
      <4> QED
        BY <1>15, <2>2, <3>2, <4>2
    <3> QED
      BY <3>1, <3>2
  <2> QED
    BY <2>1, <2>3, <2>4 DEF Aligned
<1>24. \A s \in Symbols : held'[s] > held[s] => held[s] = 0
  <2> SUFFICES ASSUME NEW s \in Symbols, held'[s] > held[s]
               PROVE  held[s] = 0
    OBVIOUS
  <2>1. CASE s # a
    BY <1>8, <1>10, <2>1
  <2>2. CASE s = a
    BY <1>8, <1>9, <1>10, <2>2
  <2> QED
    BY <2>1, <2>2
<1> QED
  BY <1>1, <1>21, <1>22, <1>23, <1>24 DEF Paper

LEMMA StepPaper ==
  Market /\ Paper /\ [Next]_vars
    => Paper' /\ \A s \in Symbols : held'[s] > held[s] => held[s] = 0
<1> SUFFICES ASSUME Market, Paper, [Next]_vars
             PROVE  Paper' /\ \A s \in Symbols : held'[s] > held[s] => held[s] = 0
  OBVIOUS
<1>1. Account /\ slots \in Nat
  BY DEF Paper, Market, MarketType
<1>2. ASSUME UNCHANGED <<cash, held>>
      PROVE  \A s \in Symbols : held'[s] > held[s] => held[s] = 0
  BY <1>1, <1>2 DEF Account, AccountType
<1>3. CASE Skip \/ Fails
  <2>1. PICK S : Refresh(S)
    BY <1>3 DEF Skip, Fails
  <2>2. UNCHANGED <<cash, held, slots, todo, pc>> /\ pc = "idle"
    BY <1>3 DEF Skip, Fails, Starts, arguments, account
  <2>3. Account'
    BY <1>1, <2>1, <2>2, RowsQuote, AccountRests
  <2> QED
    BY <1>2, <2>2, <2>3 DEF Paper
<1>4. CASE NextDay \/ Mark \/ Dies
  <2>1. UNCHANGED <<cash, held, slots, rows>> /\ pc' = "idle" /\ todo' = <<>>
    BY <1>4 DEF NextDay, Mark, Dies, arguments, account, Paper
  <2>2. Account'
    BY <1>1, <2>1, AccountRests
  <2> QED
    BY <1>2, <2>1, <2>2 DEF Paper
<1>5. CASE Plan
  BY <1>2, <1>5, PlanPaper DEF Plan, account
<1>6. CASE Fill
  BY <1>6, FillPaper
<1>7. CASE UNCHANGED vars
  <2>1. UNCHANGED <<rule, slots, day, cash, held, purchases, rows, todo, pc>>
    BY <1>7 DEF vars, arguments, account
  <2>2. Paper'
    BY <2>1 DEF Paper, Account, AccountType, Held, Plannable, After, OnSide, Aligned,
                BoughtToday, Leaving, Leaves, Signals, Alive, Lag
  <2> QED
    BY <1>2, <2>1, <2>2
<1> QED
  BY <1>3, <1>4, <1>5, <1>6, <1>7 DEF Next

LEMMA PaperInvariant == Spec => []Paper
BY InitPaper, StepPaper, MarketInvariant, PTL DEF Spec

(***************************************************************************)
(* For any plan and however far it was filled before the run died: what is *)
(* bought is covered by the cash with its fee, the sales before it         *)
(* included, and what is sold is held.  plan_trades budgets against what   *)
(* remains; execute fills the sales first and does not look at the result  *)
(* of a fill (kr_ichimoku_trade_once.plan_trades, execute).                *)
(***************************************************************************)
THEOREM PlanStaysCovered == Spec => []PlanIsCovered
<1>1. Paper => PlanIsCovered
  BY NextIsCovered DEF Paper, PlanIsCovered
<1> QED
  BY <1>1, PaperInvariant, PTL

(***************************************************************************)
(* For any number of slots and runs: plan_trades counts the positions it   *)
(* keeps and buys only what is not held, so never more positions than      *)
(* slots, and nothing is added to one (kr_ichimoku_trade_once.plan_trades, *)
(* paper_ledger.simulate_fill).                                            *)
(***************************************************************************)
THEOREM SlotsAlwaysHold == Spec => SlotsHold
<1> DEFINE Fits ==
      /\ Cardinality({s \in Symbols : held'[s] > 0}) <= slots
      /\ \A s \in Symbols : held'[s] > held[s] => held[s] = 0
<1>1. Market /\ Paper /\ [Next]_vars => [Fits]_vars
  <2> SUFFICES ASSUME Market, Paper, [Next]_vars PROVE Fits
    OBVIOUS
  <2>1. Paper' /\ \A s \in Symbols : held'[s] > held[s] => held[s] = 0
    BY StepPaper
  <2>2. slots' = slots
    BY DEF Next, NextDay, Skip, Fails, Plan, Fill, Mark, Dies, vars, arguments
  <2>3. Cardinality(Held') <= slots
    BY <2>1, <2>2 DEF Paper, Account
  <2> QED
    BY <2>1, <2>3 DEF Held
<1> QED
  BY <1>1, MarketInvariant, PaperInvariant, PTL DEF Spec, SlotsHold

(***************************************************************************)
(* A week is marked when the plan has been filled to its end, and by then  *)
(* every holding the signals would sell is gone, but what was bought the   *)
(* same day (kr_ichimoku_trade_once.execute, weekly_marker.mark_week_done).*)
(***************************************************************************)
THEOREM MarkedIsAligned == Spec => AlignedWhenMarked
<1> DEFINE Done ==
      marker' # marker =>
        \A s \in Sells(rows, Signals(rows)) :
          \E p \in purchases : p.sym = s /\ p.day = day
<1>1. Paper /\ [Next]_vars => [Done]_vars
  <2> SUFFICES ASSUME Paper, [Next]_vars, marker' # marker,
                      NEW s \in Sells(rows, Signals(rows))
               PROVE  BoughtToday(s)
    BY DEF BoughtToday
  <2>1. Mark
    BY DEF Next, NextDay, Skip, Fails, Plan, Fill, Dies, vars
  <2>2. todo = <<>> /\ Aligned(todo)
    BY <2>1 DEF Mark, Paper
  <2>3. s \in Held /\ Leaving(s) /\ s \notin OnSide(todo, "SELL")
    BY <2>2 DEF Sells, Leaving, OnSide
  <2> QED
    BY <2>2, <2>3 DEF Aligned
<1> QED
  BY <1>1, PaperInvariant, PTL DEF Spec, AlignedWhenMarked

=============================================================================
