---------------------------- MODULE TradeVmProofs ----------------------------
(***************************************************************************)
(* Proofs about the trading VM, for any calendar, any migrations, any      *)
(* pages, prices and windows: what schema_migrations records is applied, a *)
(* failed maintenance is heard of, no membership outlives the list it was  *)
(* derived from, the books are what the recorded decisions make of the     *)
(* first cash, every day that decided is on the curve, and the stores of   *)
(* candles have no holes and closes of one adjustment.                     *)
(***************************************************************************)
EXTENDS TradeVm, WellFoundedInduction, FiniteSetTheorems, SequenceTheorems, TLAPS

-----------------------------------------------------------------------------
(* Sets of naturals and finite sets: the least, the greatest, the smallest.  *)

LEMMA MinOfNat ==
  ASSUME NEW S \in SUBSET Nat, S # {}
  PROVE  Min(S) \in S /\ \A y \in S : Min(S) <= y
<1>1. PICK x \in S : \A y \in S : ~ (<<y, x>> \in OpToRel(<, Nat))
  BY NatLessThanWellFounded, WFMin
<1>2. \A y \in S : x <= y
  <2> SUFFICES ASSUME NEW y \in S, y < x
               PROVE  FALSE
    OBVIOUS
  <2>1. <<y, x>> \in OpToRel(<, Nat)
    BY DEF OpToRel
  <2> QED
    BY <1>1, <2>1
<1> QED
  BY <1>2 DEF Min

LEMMA MaxOfInt ==
  ASSUME NEW S \in SUBSET Int, S # {}, NEW n \in Int, \A x \in S : x <= n
  PROVE  Max(S) \in S /\ \A y \in S : y <= Max(S)
<1>1. PICK x0 \in S : x0 \in Int
  OBVIOUS
<1> DEFINE U == {u \in Nat : \A x \in S : x <= x0 + u}
<1>2. U \in SUBSET Nat /\ U # {}
  <2>1. x0 <= n /\ n - x0 \in Nat /\ x0 + (n - x0) = n
    BY <1>1
  <2> QED
    BY <2>1
<1>3. Min(U) \in U /\ \A u \in U : Min(U) <= u
  BY <1>2, MinOfNat
<1>4. PICK k \in Nat : (\A x \in S : x <= x0 + k) /\ \A u \in U : k <= u
  BY <1>3
<1>5. x0 + k \in S
  <2> SUFFICES ASSUME x0 + k \notin S PROVE FALSE
    OBVIOUS
  <2>1. \A x \in S : x < x0 + k
    BY <1>1, <1>4
  <2>2. k # 0
    BY <1>1
  <2>3. k - 1 \in Nat /\ \A x \in S : x <= x0 + (k - 1)
    BY <1>1, <2>1, <2>2
  <2>4. k <= k - 1
    BY <1>4, <2>3
  <2> QED
    BY <2>4
<1>6. \E m \in S : \A y \in S : m >= y
  BY <1>1, <1>4, <1>5
<1>7. Max(S) \in S /\ \A y \in S : Max(S) >= y
  BY <1>6 DEF Max
<1> QED
  BY <1>7

LEMMA MaxOfNat ==
  ASSUME NEW S \in SUBSET Nat, S # {}, NEW n \in Nat, \A x \in S : x <= n
  PROVE  Max(S) \in S /\ \A y \in S : y <= Max(S)
<1>1. S \in SUBSET Int
  OBVIOUS
<1> QED
  BY <1>1, MaxOfInt

LEMMA Smallest ==
  ASSUME NEW F, F # {}, \A s \in F : IsFiniteSet(s)
  PROVE  \E s \in F : \A t \in F : Cardinality(s) <= Cardinality(t)
<1> DEFINE N == {Cardinality(s) : s \in F}
<1>1. N \subseteq Nat /\ N # {}
  BY FS_CardinalityType
<1>2. \E n \in N : \A m \in N : ~ (<<m, n>> \in OpToRel(<, Nat))
  BY <1>1, WFMin, NatLessThanWellFounded
<1> HIDE DEF N
<1>3. PICK n \in N : \A m \in N : n <= m
  <2>1. PICK n \in N : \A m \in N : ~ (<<m, n>> \in OpToRel(<, Nat))
    BY <1>2
  <2>2. \A m \in N : n <= m
    <3> SUFFICES ASSUME NEW m \in N, m < n PROVE FALSE
      BY <1>1
    <3>1. <<m, n>> \in OpToRel(<, Nat)
      BY <1>1 DEF OpToRel
    <3> QED
      BY <2>1, <3>1
  <2> QED
    BY <2>2
<1>4. \A s \in F : Cardinality(s) \in N
  BY DEF N
<1>5. PICK s \in F : Cardinality(s) = n
  BY DEF N
<1> QED
  BY <1>3, <1>4, <1>5

LEMMA OneLess ==
  ASSUME NEW S, IsFiniteSet(S), NEW x \in S
  PROVE  /\ IsFiniteSet(S \ {x})
         /\ Cardinality(S \ {x}) \in Nat
         /\ Cardinality(S) = Cardinality(S \ {x}) + 1
<1>1. /\ IsFiniteSet(S \ {x})
      /\ Cardinality(S \ {x}) = Cardinality(S) - 1
  BY FS_RemoveElement
<1>2. Cardinality(S) \in Nat /\ Cardinality(S \ {x}) \in Nat
  BY <1>1, FS_CardinalityType
<1> QED
  BY <1>1, <1>2

-----------------------------------------------------------------------------
(***************************************************************************)
(* Migrations.  The strengthening: the open transaction keeps what is      *)
(* committed, and of the version in hand the statements before the next    *)
(* one have run.                                                           *)
(***************************************************************************)
Applied(files, schema) ==
  \A v \in schema.rows : \A i \in 1..files[v] : <<v, i>> \in schema.ran

SchemaType ==
  /\ repo \in 1..Repo
  /\ ch \in [ran : SUBSET ((0..Repo) \X Nat), rows : SUBSET (0..Repo)]
  /\ at \in 0..Repo /\ stmt \in Nat

InHand == at # 0 => /\ stmt >= 1
                    /\ \A i \in 1..Clickhouse[at] : i < stmt => <<at, i>> \in ch.ran

SchemaInv ==
  /\ SchemaType
  /\ Applied(Postgres, pg) /\ Applied(Postgres, tx) /\ Applied(Clickhouse, ch)
  /\ InHand

LEMMA SchemaStepKeeps ==
  ASSUME SchemaInv, SchemaStep
  PROVE  SchemaInv'
<1> USE VmAssumption
<1>1. CASE Pull
  BY <1>1 DEF SchemaInv, SchemaType, InHand, Applied, Statements, Pull
<1>2. CASE ApplyPostgres
  BY <1>2 DEF SchemaInv, SchemaType, InHand, Applied, Statements, ApplyPostgres
<1>3. CASE CommitPostgres
  BY <1>3 DEF SchemaInv, SchemaType, InHand, Applied, Statements, CommitPostgres
<1>4. CASE FailInit
  BY <1>4 DEF SchemaInv, SchemaType, InHand, Applied, Statements, FailInit
<1>5. CASE ApplyClickhouse
  <2>1. repo' = repo /\ pg' = pg /\ tx' = tx
    BY <1>5 DEF ApplyClickhouse
  <2>2. Applied(Postgres, pg)' /\ Applied(Postgres, tx)'
    BY <2>1 DEF SchemaInv, Applied
  <2>3. CASE at = 0 /\ Pending(ch) = {}
    <3>1. ch' = ch /\ at' = at /\ stmt' = stmt
      BY <1>5, <2>3 DEF ApplyClickhouse
    <3> QED
      BY <2>1, <2>2, <3>1 DEF SchemaInv, SchemaType, InHand, Applied
  <2>4. CASE at = 0 /\ Pending(ch) # {}
    <3>1. Pending(ch) \in SUBSET Nat /\ Pending(ch) \subseteq 1..repo
      BY DEF Pending, SchemaInv, SchemaType
    <3>2. Min(Pending(ch)) \in 1..repo
      BY <2>4, <3>1, MinOfNat
    <3>3. ch' = ch /\ stmt' = 1 /\ at' \in 1..repo
      BY <1>5, <2>4, <3>2 DEF ApplyClickhouse
    <3>4. SchemaType'
      BY <2>1, <3>3 DEF SchemaInv, SchemaType
    <3>5. Applied(Clickhouse, ch)'
      BY <3>3 DEF SchemaInv, Applied
    <3>6. InHand'
      BY <3>3 DEF InHand
    <3> QED
      BY <2>2, <3>4, <3>5, <3>6 DEF SchemaInv
  <2>5. CASE at # 0 /\ stmt <= Clickhouse[at]
    <3>1. at' = at /\ stmt' = stmt + 1 /\ ch' = [ch EXCEPT !.ran = @ \union {<<at, stmt>>}]
      BY <1>5, <2>5 DEF ApplyClickhouse
    <3>2. ch'.rows = ch.rows /\ ch'.ran = ch.ran \union {<<at, stmt>>}
      BY <3>1 DEF SchemaInv, SchemaType
    <3>3. SchemaType'
      <4>1. /\ ch.ran \union {<<at, stmt>>} \in SUBSET ((0..Repo) \X Nat)
            /\ ch.rows \in SUBSET (0..Repo)
        BY DEF SchemaInv, SchemaType
      <4>2. ch' = [ran |-> ch.ran \union {<<at, stmt>>}, rows |-> ch.rows]
        BY <3>1 DEF SchemaInv, SchemaType
      <4>3. ch' \in [ran : SUBSET ((0..Repo) \X Nat), rows : SUBSET (0..Repo)]
        BY <4>1, <4>2
      <4>4. at' \in 0..Repo /\ stmt' \in Nat /\ repo' \in 1..Repo
        BY <2>1, <3>1 DEF SchemaInv, SchemaType
      <4> QED
        BY <4>3, <4>4 DEF SchemaType
    <3>4. Applied(Clickhouse, ch)'
      BY <3>2 DEF SchemaInv, Applied
    <3>5. InHand'
      <4>1. at \in 1..Repo /\ Clickhouse[at] \in Nat /\ stmt \in Nat /\ stmt >= 1
        BY <2>5 DEF SchemaInv, SchemaType, InHand
      <4>2. ASSUME NEW i \in 1..Clickhouse[at], i < stmt + 1
            PROVE  i = stmt \/ i < stmt
        BY <4>1, <4>2
      <4>3. \A i \in 1..Clickhouse[at] : i < stmt => <<at, i>> \in ch.ran
        BY <2>5 DEF SchemaInv, InHand
      <4>4. \A i \in 1..Clickhouse[at] : i < stmt + 1 => <<at, i>> \in ch'.ran
        BY <3>2, <4>2, <4>3
      <4> QED
        BY <3>1, <4>1, <4>4 DEF InHand
    <3> QED
      BY <2>2, <3>3, <3>4, <3>5 DEF SchemaInv
  <2>6. CASE at # 0 /\ ~ (stmt <= Clickhouse[at])
    <3>1. at' = 0 /\ stmt' = 0 /\ ch' = [ch EXCEPT !.rows = @ \union {at}]
      BY <1>5, <2>6 DEF ApplyClickhouse
    <3>2. ch'.ran = ch.ran /\ ch'.rows = ch.rows \union {at}
      BY <3>1 DEF SchemaInv, SchemaType
    <3>3. SchemaType'
      <4>1. /\ ch.ran \in SUBSET ((0..Repo) \X Nat)
            /\ ch.rows \union {at} \in SUBSET (0..Repo)
        BY DEF SchemaInv, SchemaType
      <4>2. ch' = [ran |-> ch.ran, rows |-> ch.rows \union {at}]
        BY <3>1 DEF SchemaInv, SchemaType
      <4>3. ch' \in [ran : SUBSET ((0..Repo) \X Nat), rows : SUBSET (0..Repo)]
        BY <4>1, <4>2
      <4>4. at' \in 0..Repo /\ stmt' \in Nat /\ repo' \in 1..Repo
        BY <2>1, <3>1 DEF SchemaInv, SchemaType
      <4> QED
        BY <4>3, <4>4 DEF SchemaType
    <3>4. \A i \in 1..Clickhouse[at] : <<at, i>> \in ch.ran
      BY <2>6 DEF SchemaInv, SchemaType, InHand
    <3>5. Applied(Clickhouse, ch)'
      BY <3>2, <3>4 DEF SchemaInv, Applied
    <3>6. InHand'
      BY <3>1 DEF InHand
    <3> QED
      BY <2>2, <3>3, <3>5, <3>6 DEF SchemaInv
  <2> QED
    BY <2>3, <2>4, <2>5, <2>6
<1> QED
  BY <1>1, <1>2, <1>3, <1>4, <1>5 DEF SchemaStep

LEMMA SchemaRests ==
  ASSUME SchemaInv, UNCHANGED schemaVars
  PROVE  SchemaInv'
BY DEF SchemaInv, SchemaType, InHand, Applied, schemaVars

(***************************************************************************)
(* Whatever statements fail and wherever boots end, schema_migrations      *)
(* records only what has been applied, in both databases (migrations.py).  *)
(***************************************************************************)
THEOREM RecordsAreTrue == Spec => []RecordedIsApplied
<1>1. Init => SchemaInv
  BY VmAssumption DEF Init, NoSchema, SchemaInv, SchemaType, InHand, Applied
<1>2. SchemaInv /\ [Next]_vmVars => SchemaInv'
  BY SchemaStepKeeps, SchemaRests DEF Next, vmVars, TradeStep, UpkeepStep
<1>3. SchemaInv => RecordedIsApplied
  BY DEF SchemaInv, Applied, RecordedIsApplied, Statements
<1> QED
  BY <1>1, <1>2, <1>3, PTL DEF Spec

-----------------------------------------------------------------------------
(***************************************************************************)
(* A maintenance that failed was heard of, whatever its steps came to,     *)
(* unless two messages got lost (maintenance_once.main).                   *)
(***************************************************************************)
THEOREM UpkeepHeard == Spec => []UpkeepIsHeard
<1>1. Init => UpkeepIsHeard
  <2>1. Init => report = NothingTold
    BY DEF Init
  <2>2. NothingTold.failed = FALSE
    BY DEF NothingTold
  <2> QED
    BY <2>1, <2>2, Zenon DEF UpkeepIsHeard
<1>2. ASSUME UpkeepIsHeard, EndUpkeep
      PROVE  UpkeepIsHeard'
  <2> DEFINE failed == failures > 0 \/ Breached # {}
  <2>1. PICK sent, answers \in Sent :
          report' = Told(failed, Exit(failed, sent), sent, answers)
    BY <1>2, Zenon DEF EndUpkeep
  <2>2. failed /\ ~ sent => ShellSpeaks(Exit(failed, sent))
    <3>1. ASSUME failed, ~ sent
          PROVE  Exit(failed, sent) = 1
      BY <3>1 DEF Exit
    <3>2. 1 \notin {0, 70}
      OBVIOUS
    <3> QED
      BY <3>1, <3>2, Zenon DEF ShellSpeaks
  <2>3. /\ report'.failed = failed
        /\ report'.heard = (sent \/ (ShellSpeaks(Exit(failed, sent)) /\ answers))
        /\ report'.lost = (ShellSpeaks(Exit(failed, sent)) /\ ~ sent /\ ~ answers)
    BY <2>1, Zenon DEF Told
  <2> QED
    BY <2>2, <2>3, Zenon DEF UpkeepIsHeard
<1>3. ASSUME UpkeepIsHeard, [Next]_vmVars
      PROVE  UpkeepIsHeard'
  <2>1. CASE UNCHANGED report
    BY <1>3, <2>1, Zenon DEF UpkeepIsHeard
  <2>2. EndUpkeep \/ UNCHANGED report
    BY <1>3, Zenon DEF Next, vmVars, upkeepVars, TradeStep, SchemaStep, UpkeepStep,
                       StartUpkeep, RunStep, KillUpkeep
  <2> QED
    BY <1>2, <1>3, <2>1, <2>2
<1> QED
  BY <1>1, <1>2, <1>3, PTL DEF Spec

-----------------------------------------------------------------------------
(***************************************************************************)
(* Index membership.  Looked is what a run on a day without trading looks  *)
(* at; while no list was empty that should not be, all that is stored was  *)
(* derived from it, as far as the last run.                                *)
(***************************************************************************)
Looked == {d \in GridDays : d <= now}

Derived ==
  /\ now \in Nat
  /\ source # "members" => membership = {}
  /\ blanked \in BOOLEAN
  /\ source = "members" /\ ~ blanked => membership \subseteq Intervals(Looked)

\* What lies before a day does not change with the days after it.
LEMMA JoinsStay ==
  ASSUME NEW t \in Nat, now \in Nat, now <= t, NEW s, NEW d \in Joins(s, Looked)
  PROVE  d \in Joins(s, {e \in GridDays : e <= t})
<1>1. d \in GridDays /\ d <= now
  BY DEF Joins, Looked
<1>2. GridDays \subseteq Nat
  BY CollectorAssumption
<1>3. Before(Looked, d) = Before({e \in GridDays : e <= t}, d)
  <2>1. \A e \in GridDays : e < d => e <= now /\ e <= t
    BY <1>1, <1>2
  <2> QED
    BY <2>1 DEF Before, Looked
<1>4. d \in {e \in GridDays : e <= t}
  BY <1>1, <1>2
<1> QED
  BY <1>3, <1>4 DEF Joins

\* Memberships are a function of the days looked at and the lists.
LEMMA SameLists ==
  ASSUME NEW CONSTANT D, joined' = joined
  PROVE  Intervals(D)' = Intervals(D)
<1>1. \A s : Joins(s, D)' = Joins(s, D)
  BY DEF Joins, In
<1>2. \A s : Leaves(s, D)' = Leaves(s, D)
  BY DEF Leaves, In
<1>3. \A s, d : MemberTo(s, d, D)' = MemberTo(s, d, D)
  BY <1>2 DEF MemberTo
<1>4. \A s \in Symbols : {<<s, d, MemberTo(s, d, D)>> : d \in Joins(s, D)}'
                         = {<<s, d, MemberTo(s, d, D)>> : d \in Joins(s, D)}
  BY <1>1, <1>3
<1> QED
  BY <1>4 DEF Intervals

LEMMA RunDerivesAll ==
  ASSUME RunDays \cap Weekdays \subseteq GridDays,
         Derived, source = "members",
         NEW t \in Nat, now < t, NEW empty, MemberRun(t, empty), ~ blanked'
  PROVE  membership' \subseteq Intervals({d \in GridDays : d <= t})
<1> DEFINE G == {d \in GridDays : d <= t}
<1>1. Snapshots(t) \ empty = G /\ ~ blanked
  <2>1. Snapshots(t) = G
    BY CollectorAssumption DEF MemberRun, Snapshots
  <2>2. blanked' = (blanked \/ empty # {})
    BY DEF MemberRun
  <2> QED
    BY <2>1, <2>2
<1>2. ASSUME NEW m \in membership
      PROVE  \E i \in Intervals(G) : <<i[1], i[2]>> = <<m[1], m[2]>>
  <2>1. m \in Intervals(Looked)
    BY <1>1, <1>2 DEF Derived
  <2>2. PICK s \in Symbols : \E d \in Joins(s, Looked) : m = <<s, d, MemberTo(s, d, Looked)>>
    BY <2>1 DEF Intervals
  <2>5. PICK d \in Joins(s, Looked) : m = <<s, d, MemberTo(s, d, Looked)>>
    BY <2>2
  <2>3. d \in Joins(s, G)
    BY <2>5, JoinsStay DEF Derived
  <2>4. <<s, d, MemberTo(s, d, G)>> \in Intervals(G)
    BY <2>3 DEF Intervals
  <2> QED
    BY <2>4, <2>5
<1>3. membership' = Intervals(G) \union
        {m \in membership : \A i \in Intervals(G) : <<i[1], i[2]>> # <<m[1], m[2]>>}
  BY <1>1 DEF MemberRun
<1> QED
  BY <1>2, <1>3

LEMMA CollectorKeeps ==
  ASSUME RunDays \cap Weekdays \subseteq GridDays, Derived, CollectorStep
  PROVE  Derived'
<1>1. PICK t \in now + 1..LastRun[source] :
        /\ now' = t /\ UNCHANGED source
        /\ \/ FinraStep(t) \/ KrxStep(t) \/ ZipStep(t) \/ DartStep(t) \/ LookUpStep
           \/ MemberStep(t)
  BY DEF CollectorStep
<1>2. t \in Nat /\ now < t
  BY <1>1 DEF Derived
<1>3. CASE MemberStep(t)
  <2> DEFINE G == {d \in GridDays : d <= t}
  <2>5. PICK empty : source = "members" /\ MemberRun(t, empty)
    BY <1>3 DEF MemberStep
  <2>6. joined' = joined /\ blanked' \in BOOLEAN
    BY <2>5 DEF MemberRun, Derived
  <2>1. ~ blanked' => membership' \subseteq Intervals(G)
    BY <1>2, <2>5, RunDerivesAll
  <2>2. Intervals(G)' = Intervals(G)
    BY <2>6, SameLists
  <2>3. Looked' = G
    BY <1>1 DEF Looked
  <2>4. ~ blanked' => membership' \subseteq Intervals(Looked)'
    BY <2>1, <2>2, <2>3
  <2> QED
    BY <1>1, <1>2, <2>4, <2>5, <2>6 DEF Derived
<1>4. CASE ~ MemberStep(t)
  BY <1>1, <1>2, <1>4
     DEF Derived, FinraStep, KrxStep, ZipStep, DartStep, LookUpStep, memberVars
<1> QED
  BY <1>3, <1>4

\* A membership without an end is one of the last day looked at.
LEMMA OpenIsCurrent ==
  ASSUME Derived, source = "members", ~ blanked, Far \notin GridDays,
         NEW m \in membership, m[3] = Far
  PROVE  In(m[1], Max(Looked))
<1>1. now \in Nat /\ Looked \in SUBSET Nat /\ \A e \in Looked : e <= now
  BY CollectorAssumption DEF Derived, Looked
<1>2. PICK s \in Symbols : \E d \in Joins(s, Looked) : m = <<s, d, MemberTo(s, d, Looked)>>
  BY DEF Derived, Intervals
<1>9. PICK d \in Joins(s, Looked) : m = <<s, d, MemberTo(s, d, Looked)>>
  BY <1>2
<1>3. d \in Looked /\ In(s, d)
  BY DEF Joins
<1>4. Max(Looked) \in Looked /\ \A e \in Looked : e <= Max(Looked)
  BY <1>1, <1>3, MaxOfNat
<1> DEFINE out == {e \in Leaves(s, Looked) : e > d}
           bad == {e \in Looked : e > d /\ ~ In(s, e)}
<1>5. ASSUME NEW e \in Looked, e > d
      PROVE  /\ Max(Before(Looked, e)) \in Before(Looked, e)
             /\ d <= Max(Before(Looked, e))
  <2>1. Before(Looked, e) \in SUBSET Nat /\ d \in Before(Looked, e)
    BY <1>1, <1>3, <1>5 DEF Before
  <2>2. \A x \in Before(Looked, e) : x <= now
    BY <1>1 DEF Before
  <2> QED
    BY <1>1, <2>1, <2>2, MaxOfNat
<1>6. out = {}
  <2> SUFFICES ASSUME out # {} PROVE FALSE
    OBVIOUS
  <2>1. m[3] = Max(Before(Looked, Min(out)))
    BY <1>9 DEF MemberTo
  <2>2. out \in SUBSET Nat
    BY <1>1 DEF Leaves
  <2>3. Min(out) \in Looked /\ Min(out) > d
    BY <2>2, MinOfNat DEF Leaves
  <2>4. m[3] \in GridDays
    BY <1>5, <2>1, <2>3 DEF Before, Looked
  <2> QED
    BY <2>4
<1>7. bad = {}
  <2> SUFFICES ASSUME bad # {} PROVE FALSE
    OBVIOUS
  <2>1. bad \in SUBSET Nat
    BY <1>1
  <2>2. PICK e \in bad : \A y \in bad : e <= y
    BY <2>1, MinOfNat
  <2>3. PICK p \in Before(Looked, e) : p = Max(Before(Looked, e)) /\ d <= p
    BY <1>5, <2>2
  <2>4. p \in Looked /\ p < e /\ p \in Nat /\ e \in Nat /\ d \in Nat
    BY <1>1, <1>3, <2>2, <2>3 DEF Before
  <2>5. In(s, p)
    BY <1>3, <2>2, <2>3, <2>4
  <2>6. e \in Leaves(s, Looked)
    BY <2>2, <2>3, <2>5 DEF Leaves
  <2> QED
    BY <1>6, <2>2, <2>6
<1>8. In(s, Max(Looked))
  <2>1. d \in Nat /\ Max(Looked) \in Nat /\ d <= Max(Looked)
    BY <1>1, <1>3, <1>4
  <2>2. CASE d = Max(Looked)
    BY <1>3, <2>2, Zenon
  <2>3. CASE d # Max(Looked)
    <3>1. Max(Looked) > d
      BY <2>1, <2>3
    <3> QED
      BY <1>4, <1>7, <3>1, Zenon
  <2> QED
    BY <2>2, <2>3
<1> QED
  BY <1>8, <1>9

(***************************************************************************)
(* On any grid, and for any index: as long as the collector is never run   *)
(* on a day of trading that is not of the grid, and is never answered      *)
(* there with an empty list, no membership is left without an end that the *)
(* last list does not have                                                 *)
(* (kr_index_membership.store_kr_membership).                              *)
(***************************************************************************)
THEOREM NoGhosts ==
  ASSUME RunDays \cap Weekdays \subseteq GridDays, Far \notin GridDays
  PROVE  Spec => []NoGhostMember
<1>1. Init => Derived
  <2>1. Init => now = 0 /\ membership = {} /\ blanked = FALSE
    BY DEF Init, InitCollectors
  <2>2. Init => now \in Nat
    BY <2>1
  <2>3. Init => membership \subseteq Intervals(Looked)
    BY <2>1
  <2>4. Init => blanked \in BOOLEAN
    BY <2>1, Zenon
  <2> QED
    BY <2>1, <2>2, <2>3, <2>4, Zenon DEF Derived
<1>2. Derived /\ [Next]_vmVars => Derived'
  <2>1. ASSUME Derived, UNCHANGED collectorVars
        PROVE  Derived'
    <3>1. PICK n \in Nat : n = now
      BY <2>1 DEF Derived
    <3> DEFINE G == {d \in GridDays : d <= n}
    <3>2. /\ joined' = joined /\ membership' = membership /\ blanked' = blanked
          /\ source' = source /\ now' = now
      BY <2>1 DEF collectorVars, memberVars
    <3>3. Looked = G /\ Looked' = G
      BY <3>1, <3>2 DEF Looked
    <3>4. Intervals(G)' = Intervals(G)
      BY <3>2, SameLists
    <3>5. Intervals(Looked)' = Intervals(Looked)
      BY <3>3, <3>4
    <3> QED
      BY <2>1, <3>2, <3>5 DEF Derived
  <2> QED
    BY <2>1, CollectorKeeps DEF Next, vmVars, TradeStep, SchemaStep, UpkeepStep
<1>3. Derived => NoGhostMember
  BY OpenIsCurrent DEF NoGhostMember, Looked, Derived
<1> QED
  BY <1>1, <1>2, <1>3, PTL DEF Spec

-----------------------------------------------------------------------------
(***************************************************************************)
(* What collectors miss.  The strengthening, for FINRA: one run at most    *)
(* lies between the last whole one and now, and what separates them is the *)
(* last gap; for KRX: nothing is stored before it is published; for DART:  *)
(* no run was answered before the company was looked up.                   *)
(***************************************************************************)
FinraKept ==
  /\ whole \in Nat
  /\ source # "finra" => whole = 0
  /\ source = "finra" =>
       /\ whole <= now /\ gap \in Gaps \union {0}
       /\ row \in Nat /\ misses \in Nat /\ row <= misses
       /\ row = 0 => whole = now
       /\ row = 1 => now - whole = gap
  /\ OneMissHeals

KrxKept ==
  /\ DOMAIN krx = Tables /\ \A b \in Tables : DOMAIN krx[b] = Symbols
  /\ \A b \in Tables : \A s \in Symbols : \A d \in krx[b][s] :
       d \in Nat \ {0} /\ d + Lag[b] <= now
  /\ KrxGapsAreFailures

ZipKept == \A t \in ended : Asked(t) \subseteq filings \union skipped

DartKept == (corp = "unasked" => complete = {}) /\ ColdCacheHeals

Caused == now \in Nat /\ FinraKept /\ (source = "krx" => KrxKept) /\ ZipKept /\ DartKept

\* Of two numbers.
LEMMA LargerOfTwo ==
  ASSUME NEW a \in Nat, NEW b \in Nat
  PROVE  Max({a, b}) \in {a, b} /\ a <= Max({a, b}) /\ b <= Max({a, b})
<1> DEFINE S == {a, b}
           n == a + b
<1>1. S \in SUBSET Nat /\ S # {} /\ n \in Nat /\ \A x \in S : x <= n
  OBVIOUS
<1> HIDE DEF S, n
<1>2. Max(S) \in S /\ \A y \in S : y <= Max(S)
  BY <1>1, MaxOfNat
<1> QED
  BY <1>2 DEF S

\* A window that is as long as two gaps and the lag of publication together.
WindowOutlasts ==
  \A g, h \in Gaps \union {0} :
    ~ (g = LongGap /\ h = LongGap) => g + h + ShortLag <= ShortDays + 1

LEMMA FinraKeeps ==
  ASSUME WindowOutlasts, now \in Nat, FinraKept, source = "finra", source' = source,
         NEW t \in Nat, now < t, now' = t, NEW n \in Stops, NEW refusals, FinraRun(t, n, refusals)
  PROVE  FinraKept'
<1>1. /\ Gaps \subseteq Nat \ {0} /\ LongGap \in Gaps /\ ShortLag \in Nat /\ ShortDays \in Nat
  BY CollectorAssumption
<1>2. /\ t - now \in Gaps /\ (gap = LongGap => t - now # LongGap)
      /\ gap' = t - now /\ phase' = phase
      /\ short' = short \union (Published(t, n) \ refusals)
      /\ refused' = refused \union refusals
      /\ misses' = Max({misses, row'})
      /\ \/ n = ShortDays + 1 /\ whole' = t /\ row' = 0
         \/ whole' = whole /\ row' = row + 1
  BY DEF FinraRun
<1>3. /\ whole \in Nat /\ whole <= now /\ gap \in Gaps \union {0}
      /\ row \in Nat /\ misses \in Nat /\ row <= misses
      /\ row = 0 => whole = now
      /\ row = 1 => now - whole = gap
  BY DEF FinraKept
<1>4. row' \in Nat /\ misses' \in Nat /\ row' <= misses' /\ misses <= misses'
  BY <1>2, <1>3, LargerOfTwo
<1>5. /\ whole' \in Nat /\ whole' <= t /\ gap' \in Gaps \union {0}
      /\ row' = 0 => whole' = t
      /\ row' = 1 => t - whole' = gap'
  BY <1>1, <1>2, <1>3
<1>6. \A d : Settles(d)' <=> Settles(d)
  BY <1>2 DEF Settles
<1>7. ASSUME misses' <= 1, NEW d \in 1..whole', Settles(d), d + ShortLag <= whole'
      PROVE  d \in short' \union refused'
  <2>1. misses <= 1 /\ row \in {0, 1}
    BY <1>3, <1>4, <1>7
  <2>2. CASE d + ShortLag <= whole
    <3>1. d \in 1..whole
      BY <1>1, <1>3, <1>5, <2>2
    <3> QED
      BY <1>2, <1>7, <2>1, <2>2, <3>1 DEF FinraKept, OneMissHeals
  <2>3. CASE ~ (d + ShortLag <= whole)
    <3>1. n = ShortDays + 1 /\ whole' = t
      BY <1>2, <1>7, <2>3
    <3>2. t - whole + ShortLag <= ShortDays + 1
      <4>1. CASE row = 0
        <5>1. (t - now) + 0 + ShortLag <= ShortDays + 1
          BY <1>1, <1>2 DEF WindowOutlasts
        <5> QED
          BY <1>1, <1>3, <4>1, <5>1
      <4>2. CASE row = 1
        <5>1. (t - now) + gap + ShortLag <= ShortDays + 1
          BY <1>1, <1>2, <1>3 DEF WindowOutlasts
        <5>2. gap \in Nat
          BY <1>1, <1>3
        <5> QED
          BY <1>1, <1>3, <4>2, <5>1, <5>2
      <4> QED
        BY <2>1, <4>1, <4>2
    <3>3. d \in 1..t /\ d > t - n
      BY <1>1, <1>3, <1>5, <2>3, <3>1, <3>2
    <3>4. d \in Published(t, n)
      BY <1>7, <3>1, <3>3 DEF Published, Scanned
    <3> QED
      BY <1>2, <3>4
  <2> QED
    BY <2>2, <2>3
<1>8. OneMissHeals'
  BY <1>6, <1>7 DEF OneMissHeals
<1> QED
  BY <1>4, <1>5, <1>8 DEF FinraKept

\* The last day stored of a table is one of its days, and of no later day than the last run.
LEMMA LastStored ==
  ASSUME KrxKept, now \in Nat, NEW b \in Tables, Stored(b) # {}
  PROVE  /\ Max(Stored(b)) \in Nat
         /\ Max(Stored(b)) + Lag[b] <= now
<1>1. Lag[b] \in Nat
  BY CollectorAssumption
<1>2. \A d \in Stored(b) : d \in Nat /\ d + Lag[b] <= now
  BY DEF Stored, KrxKept
<1>3. Stored(b) \in SUBSET Nat /\ \A d \in Stored(b) : d <= now
  BY <1>1, <1>2
<1>4. Max(Stored(b)) \in Stored(b)
  BY <1>3, MaxOfNat
<1> QED
  BY <1>2, <1>4

LEMMA KrxKeeps ==
  ASSUME KrxKept, source = "krx", now \in Nat, NEW t \in Nat, now < t, now' = t,
         NEW failed \in SUBSET Symbols, KrxRun(t, failed)
  PROVE  KrxKept'
<1>1. \A b \in Tables : Lag[b] \in Nat /\ BufferDays \in Nat
  BY CollectorAssumption
<1>2. /\ krx' = [b \in Tables |-> [s \in Symbols |->
                   IF s \in failed THEN krx[b][s] ELSE krx[b][s] \union Rows(b, AutoStart, t)]]
      /\ lost' = lost \union failed /\ dropped' = dropped
      /\ \A b \in Tables : Stored(b) # {}
  BY DEF KrxRun
<1>3. ASSUME NEW b \in Tables
      PROVE  AutoStart <= Max(Stored(b)) /\ AutoStart \in Int
  <2> DEFINE M == {Max(Stored(x)) : x \in Tables}
  <2>1. M \in SUBSET Nat /\ Max(Stored(b)) \in M
    BY <1>2, LastStored
  <2> HIDE DEF M
  <2>2. Min(M) \in Nat /\ Min(M) <= Max(Stored(b))
    BY <2>1, MinOfNat
  <2>3. AutoStart = Min(M) - BufferDays /\ Max(Stored(b)) \in Nat
    BY <2>1 DEF AutoStart, M
  <2> QED
    BY <1>1, <2>2, <2>3
<1>4. ASSUME NEW b \in Tables, NEW s \in Symbols, NEW d \in krx'[b][s]
      PROVE  d \in Nat \ {0} /\ d + Lag[b] <= t
  <2>1. d \in krx[b][s] \/ d \in Rows(b, AutoStart, t)
    BY <1>2
  <2>2. CASE d \in krx[b][s]
    BY <1>1, <2>2 DEF KrxKept
  <2>3. CASE d \in Rows(b, AutoStart, t)
    BY <2>3 DEF Rows
  <2> QED
    BY <2>1, <2>2, <2>3
<1>5. ASSUME NEW b \in Tables, NEW s \in Symbols, s \notin lost', NEW d \in 1..t - Lag[b],
             d \notin dropped
      PROVE  d \in krx'[b][s]
  <2>1. krx'[b][s] = krx[b][s] \union Rows(b, AutoStart, t) /\ s \in Symbols \ lost
    BY <1>2, <1>5
  <2>2. CASE d >= AutoStart
    <3>1. d \in 1..t /\ d + Lag[b] <= t
      BY <1>1
    <3>2. d \in Rows(b, AutoStart, t)
      BY <2>2, <3>1 DEF Rows
    <3> QED
      BY <2>1, <3>2
  <2>3. CASE ~ (d >= AutoStart)
    <3>1. /\ Max(Stored(b)) \in Nat /\ Max(Stored(b)) + Lag[b] <= now
          /\ AutoStart <= Max(Stored(b)) /\ AutoStart \in Int
      BY <1>2, <1>3, LastStored
    <3> HIDE DEF AutoStart
    <3>2. d \in 1..now - Lag[b]
      BY <1>1, <2>3, <3>1
    <3> QED
      BY <1>5, <2>1, <3>2 DEF KrxKept, KrxGapsAreFailures
  <2> QED
    BY <2>2, <2>3
<1>6. DOMAIN krx' = Tables /\ \A b \in Tables : DOMAIN krx'[b] = Symbols
  BY <1>2
<1>7. KrxGapsAreFailures'
  BY <1>2, <1>5 DEF KrxGapsAreFailures
<1> QED
  BY <1>4, <1>6, <1>7 DEF KrxKept

LEMMA BulkKeeps ==
  ASSUME NEW t \in Nat, now' = t, NEW failed, BulkLoad(t, failed)
  PROVE  KrxKept'
<1>1. \A b \in Tables : Lag[b] \in Nat
  BY CollectorAssumption
<1>2. /\ krx' = [b \in Tables |-> [s \in Symbols |-> Rows(b, 1, t) \ failed]]
      /\ dropped' = failed
  BY DEF BulkLoad
<1>3. \A b \in Tables : \A d : d \in Rows(b, 1, t) <=> d \in 1..t /\ d + Lag[b] <= t
  BY DEF Rows
<1>4. \A b \in Tables : \A s \in Symbols : krx'[b][s] = Rows(b, 1, t) \ failed
  BY <1>2
<1>5. \A b \in Tables : \A d \in 1..t - Lag[b] : d \in 1..t /\ d + Lag[b] <= t
  BY <1>1
<1>6. KrxGapsAreFailures'
  BY <1>2, <1>3, <1>4, <1>5 DEF KrxGapsAreFailures
<1>7. DOMAIN krx' = Tables /\ \A b \in Tables : DOMAIN krx'[b] = Symbols
  BY <1>2
<1> QED
  BY <1>3, <1>4, <1>6, <1>7 DEF KrxKept

LEMMA ZipsKeep ==
  ASSUME ZipKept, NEW t, ZipStep(t)
  PROVE  ZipKept'
<1>1. PICK upto, tear, none :
        \/ \E read : Quarterly(t, upto, tear, read, none)
        \/ UNCHANGED <<filings, skipped, ended>>
  BY DEF ZipStep, ZipRun, HoldingsRun
<1> DEFINE before == {q \in Asked(t) : q < upto}
<1>2. CASE UNCHANGED <<filings, skipped, ended>>
  BY <1>2 DEF ZipKept
<1>3. CASE \E read : Quarterly(t, upto, tear, read, none)
  <2>1. /\ filings' = filings \union {q \in before : q \notin none}
        /\ skipped' = skipped \union none
        /\ ended' = IF before = Asked(t) THEN ended \union {t} ELSE ended
    BY <1>3 DEF Quarterly, Readable
  <2> HIDE DEF before
  <2>2. ASSUME NEW u \in ended'
        PROVE  Asked(u) \subseteq filings' \union skipped'
    <3>1. u \in ended \/ (u = t /\ before = Asked(t))
      BY <2>1
    <3> QED
      BY <2>1, <3>1 DEF ZipKept
  <2> QED
    BY <2>2 DEF ZipKept
<1> QED
  BY <1>1, <1>2, <1>3

LEMMA QuotientAndRest ==
  ASSUME NEW a \in Nat, NEW n \in Nat \ {0}
  PROVE  \E k, r \in Nat : a \div n = k /\ a % n = r /\ r < n /\ a = k * n + r
<1> DEFINE k == a \div n
           r == a % n
<1>1. k \in Nat /\ r \in Nat /\ r < n /\ a = k * n + r
  OBVIOUS
<1> QED
  BY <1>1

\* The quarter before the last one of a year is of that year.
LEMMA SameYear ==
  ASSUME NEW q \in Nat \ {0}, YearEnd(q)
  PROVE  q - 1 \in Nat \ {0} /\ YearOf(q - 1) = YearOf(q)
<1>1. Quarters \in Nat \ {0, 1}
  BY CollectorAssumption
<1>2. PICK k \in Nat : \E r \in Nat : q % Quarters = r /\ q = k * Quarters + r
  BY <1>1, QuotientAndRest
<1>3. q = k * Quarters
  BY <1>1, <1>2 DEF YearEnd
<1>4. k # 0
  BY <1>1, <1>2, <1>3
<1>5. PICK j \in Nat : k = j + 1
  BY <1>2, <1>4
<1>6. q = j * Quarters + Quarters
  BY <1>1, <1>3, <1>5
<1>7. \A r \in 0..Quarters - 1 : (j * Quarters + r) \div Quarters = j
  <2> SUFFICES ASSUME NEW r \in 0..Quarters - 1
               PROVE  (j * Quarters + r) \div Quarters = j
    OBVIOUS
  <2> DEFINE n == j * Quarters + r
  <2>1. n \in Nat /\ j * Quarters \in Nat
    BY <1>1
  <2> HIDE DEF n
  <2>2. PICK i, x \in Nat : n \div Quarters = i /\ x < Quarters /\ n = i * Quarters + x
    BY <1>1, <2>1, QuotientAndRest
  <2>3. ~ (i < j) /\ ~ (j < i)
    <3>1. ASSUME NEW a \in Nat, NEW b \in Nat, a < b
          PROVE  a * Quarters + Quarters <= b * Quarters
      <4>1. PICK e \in Nat : b = a + 1 + e
        BY <3>1
      <4>2. (a + 1 + e) * Quarters = a * Quarters + Quarters + e * Quarters
        BY <1>1
      <4>3. e * Quarters \in Nat /\ a * Quarters \in Nat
        BY <1>1
      <4> QED
        BY <1>1, <4>1, <4>2, <4>3
    <3>2. i * Quarters \in Nat
      BY <1>1
    <3> QED
      BY <1>1, <2>1, <2>2, <3>1, <3>2 DEF n
  <2> QED
    BY <2>2, <2>3 DEF n
<1>8. /\ q - 1 = j * Quarters + (Quarters - 1) /\ q - 2 = j * Quarters + (Quarters - 2)
      /\ (q - 1) - 1 = q - 2
  BY <1>1, <1>6
<1>9. j * Quarters \in Nat
  BY <1>1
<1> QED
  BY <1>1, <1>6, <1>7, <1>8, <1>9 DEF YearOf

LEMMA DartKeeps ==
  ASSUME DartKept, NEW t \in Nat \ {0}, NEW start, NEW answered, DartRun(t, start, answered)
  PROVE  DartKept'
<1> DEFINE asked == DartAsked(t, start)
           due == asked \cap 1..QuarterOf(t) - 1
           got == {q \in asked : q \in answered}
<1>1. /\ answered \subseteq due
      /\ corp' \in IF corp = "unasked" THEN {"known", "unknown"} ELSE {corp}
      /\ reports' = IF corp' = "known"
                    THEN reports \union {q \in got : YearEnd(q) => q - 1 \in got}
                    ELSE reports
      /\ complete' = IF answered = due THEN complete \union due ELSE complete
  BY DEF DartRun, Fetched
<1>2. corp' # "unasked"
  BY <1>1
<1>3. corp' = "known" => complete \subseteq reports
  BY <1>1 DEF DartKept, ColdCacheHeals
<1>4. ASSUME corp' = "known", answered = due, NEW q \in due
      PROVE  q \in reports'
  <2>1. q \in got
    BY <1>4
  <2>2. YearEnd(q) => q - 1 \in got
    <3> SUFFICES ASSUME YearEnd(q) PROVE q - 1 \in got
      OBVIOUS
    <3> DEFINE top == Quarters * (YearOf(QuarterOf(t)) + 1)
    <3>1. q \in 1..top /\ YearOf(q) >= start /\ q \in 1..QuarterOf(t) - 1
      BY DEF DartAsked
    <3>2. q - 1 \in Nat \ {0} /\ YearOf(q - 1) = YearOf(q)
      BY <3>1, SameYear
    <3>3. q - 1 \in 1..top /\ q - 1 \in 1..QuarterOf(t) - 1
      <4>1. QuarterOf(t) \in Nat \ {0} /\ YearOf(QuarterOf(t)) \in Nat
        <5>1. Months \in Nat \ {0} /\ Quarters \in Nat \ {0}
          BY CollectorAssumption
        <5>2. \A a \in Nat, n \in Nat \ {0} : a \div n \in Nat
          BY QuotientAndRest
        <5>3. QuarterOf(t) \in Nat \ {0}
          BY <5>1, <5>2 DEF QuarterOf
        <5> QED
          BY <5>1, <5>2, <5>3 DEF YearOf
      <4>2. top \in Int
        BY <4>1, CollectorAssumption
      <4> HIDE DEF top
      <4>3. \A m \in Int : q \in 1..m => q - 1 \in 1..m
        BY <3>2
      <4> QED
        BY <3>1, <4>1, <4>2, <4>3
    <3>4. q - 1 \in due
      BY <3>1, <3>2, <3>3 DEF DartAsked
    <3> QED
      BY <1>4, <3>4
  <2> QED
    BY <1>1, <1>4, <2>1, <2>2
<1>5. ColdCacheHeals'
  BY <1>1, <1>3, <1>4 DEF ColdCacheHeals
<1> QED
  BY <1>2, <1>5 DEF DartKept

LEMMA InitCaused == Init => Caused
<1> SUFFICES ASSUME Init PROVE Caused
  OBVIOUS
<1>1. now = 0 /\ whole = 0 /\ row = 0 /\ misses = 0 /\ gap = 0 /\ ended = {} /\ complete = {}
  BY DEF Init, InitCollectors
<1>2. krx = [b \in Tables |-> [s \in Symbols |-> {}]]
  BY DEF Init, InitCollectors
<1>3. \A b \in Tables : Lag[b] \in Nat /\ 1..0 - Lag[b] = {}
  BY CollectorAssumption
<1>4. OneMissHeals
  BY <1>1 DEF OneMissHeals
<1>5. FinraKept
  BY <1>1, <1>4 DEF FinraKept
<1>6. KrxKept
  BY <1>1, <1>2, <1>3 DEF KrxKept, KrxGapsAreFailures
<1>7. ZipKept /\ DartKept
  BY <1>1 DEF ZipKept, DartKept, ColdCacheHeals
<1> QED
  BY <1>1, <1>5, <1>6, <1>7 DEF Caused

\* A collector that is not looked at keeps what it has.
LEMMA FinraRests ==
  ASSUME FinraKept, UNCHANGED <<source, finraVars>>, source # "finra" \/ now' = now
  PROVE  FinraKept'
<1>1. UNCHANGED <<source, short, refused, phase, whole, row, misses, gap>>
  BY DEF finraVars
<1>2. OneMissHeals'
  BY <1>1 DEF FinraKept, OneMissHeals, Settles
<1> QED
  BY <1>1, <1>2 DEF FinraKept

LEMMA KrxRests ==
  ASSUME KrxKept, UNCHANGED <<source, now, krxVars>>
  PROVE  KrxKept'
BY DEF KrxKept, KrxGapsAreFailures, krxVars

LEMMA ZipsRest ==
  ASSUME ZipKept, UNCHANGED zipVars
  PROVE  ZipKept'
BY DEF ZipKept, zipVars

LEMMA DartRests ==
  ASSUME DartKept, UNCHANGED dartVars
  PROVE  DartKept'
BY DEF DartKept, ColdCacheHeals, dartVars

LEMMA CausesKept ==
  ASSUME WindowOutlasts, Caused, CollectorStep
  PROVE  Caused'
<1>1. PICK t \in now + 1..LastRun[source] :
        /\ now' = t /\ UNCHANGED source
        /\ \/ FinraStep(t) \/ KrxStep(t) \/ ZipStep(t) \/ DartStep(t) \/ LookUpStep
           \/ MemberStep(t)
  BY DEF CollectorStep
<1>2. t \in Nat \ {0} /\ now < t /\ now \in Nat /\ now' = t /\ source' = source
  BY <1>1 DEF Caused
<1>3. CASE FinraStep(t)
  <2>1. FinraKept'
    BY <1>2, <1>3, FinraKeeps DEF FinraStep, Caused
  <2> QED
    BY <1>2, <1>3, <2>1, ZipsRest, DartRests DEF FinraStep, Caused
<1>4. CASE KrxStep(t)
  <2>1. KrxKept'
    BY <1>2, <1>4, KrxKeeps, BulkKeeps DEF KrxStep, Caused
  <2> QED
    BY <1>2, <1>4, <2>1, FinraRests, ZipsRest, DartRests DEF KrxStep, Caused
<1>5. CASE ZipStep(t)
  <2>1. source \in {"filings", "holdings"} /\ UNCHANGED <<finraVars, dartVars>>
    BY <1>5 DEF ZipStep
  <2> QED
    BY <1>2, <1>5, <2>1, FinraRests, ZipsKeep, DartRests DEF Caused
<1>6. CASE DartStep(t)
  <2>1. source = "dart" /\ UNCHANGED <<finraVars, zipVars>>
    BY <1>6 DEF DartStep
  <2>2. PICK start, answered : DartRun(t, start, answered)
    BY <1>6 DEF DartStep
  <2>3. DartKept'
    BY <1>2, <2>2, DartKeeps DEF Caused
  <2> QED
    BY <1>2, <2>1, <2>3, FinraRests, ZipsRest DEF Caused
<1>7. CASE LookUpStep \/ MemberStep(t)
  <2>1. source \in {"lookup", "members"} /\ UNCHANGED <<finraVars, zipVars, dartVars>>
    BY <1>7 DEF LookUpStep, MemberStep
  <2> QED
    BY <1>2, <2>1, FinraRests, ZipsRest, DartRests DEF Caused
<1> QED
  BY <1>1, <1>3, <1>4, <1>5, <1>6, <1>7

(***************************************************************************)
(* For any calendar on which FINRA's window outlasts two gaps between runs *)
(* and the lag of publication: a published period is missing only where    *)
(* failures explain it (finra_short.collect, krx._auto_start,              *)
(* insider._fetch_zip, kr_fundamentals' quarters out of annual reports).   *)
(***************************************************************************)
THEOREM GapsAreCaused ==
  ASSUME WindowOutlasts
  PROVE  Spec => []GapsHaveACause
<1>1. Caused /\ [Next]_vmVars => Caused'
  <2>1. ASSUME Caused, UNCHANGED collectorVars
        PROVE  Caused'
    BY <2>1, FinraRests, KrxRests, ZipsRest, DartRests DEF Caused, collectorVars
  <2> QED
    BY <2>1, CausesKept DEF Next, vmVars, TradeStep, SchemaStep, UpkeepStep
<1>2. Caused => GapsHaveACause
  BY DEF Caused, GapsHaveACause, FinraKept, KrxKept, DartKept, ZipKept, TornZipHeals, Asked,
         KrxGapsAreFailures
<1> QED
  BY InitCaused, <1>1, <1>2, PTL DEF Spec

-----------------------------------------------------------------------------
(* Folds over lists.  A fold is a CHOOSE of a function on the sets of      *)
(* places of a list, which satisfies an equation: that there is one, and   *)
(* what it gives, is shown by induction on the set of places, taking away  *)
(* the last one as the fold does.                                          *)

LEMMA LastPlace ==
  ASSUME NEW n \in Nat, NEW s \in SUBSET (1..n), s # {}
  PROVE  Max(s) \in s /\ \A y \in s : y <= Max(s)
<1>1. s \in SUBSET Nat /\ \A x \in s : x <= n
  OBVIOUS
<1> QED
  BY <1>1, MaxOfNat

LEMMA PlaceInduction ==
  ASSUME NEW n \in Nat, NEW P, {} \in P,
         \A s \in SUBSET (1..n) : s # {} /\ s \ {Max(s)} \in P => s \in P
  PROVE  \A s \in SUBSET (1..n) : s \in P
<1> DEFINE Bad == {s \in SUBSET (1..n) : s \notin P}
<1> SUFFICES ASSUME Bad # {} PROVE FALSE
  OBVIOUS
<1>1. \A s \in Bad : IsFiniteSet(s)
  <2>1. IsFiniteSet(1..n)
    BY FS_Interval
  <2> QED
    BY <2>1, FS_Subset
<1>2. PICK s \in Bad : \A t \in Bad : Cardinality(s) <= Cardinality(t)
  <2> HIDE DEF Bad
  <2> QED
    BY <1>1, Smallest
<1>3. s # {} /\ s \in SUBSET (1..n) /\ s \notin P
  OBVIOUS
<1>4. Max(s) \in s
  BY <1>3, LastPlace
<1>5. s \ {Max(s)} \in SUBSET (1..n)
  BY <1>3
<1>6. Cardinality(s \ {Max(s)}) \in Nat /\ Cardinality(s) \in Nat
  <2>1. IsFiniteSet(s)
    BY <1>1
  <2> HIDE DEF Bad
  <2>2. Cardinality(s) \in Nat
    BY <2>1, FS_CardinalityType
  <2>3. Cardinality(s \ {Max(s)}) \in Nat
    BY <1>4, <2>1, OneLess
  <2> QED
    BY <2>2, <2>3
<1>7. Cardinality(s \ {Max(s)}) < Cardinality(s)
  <2> HIDE DEF Bad
  <2>1. IsFiniteSet(s)
    BY <1>1
  <2>2. Cardinality(s) = Cardinality(s \ {Max(s)}) + 1
    BY <1>4, <2>1, OneLess
  <2> QED
    BY <1>6, <2>2
<1>8. s \ {Max(s)} \notin Bad
  <2> HIDE DEF Bad
  <2> QED
    BY <1>2, <1>6, <1>7
<1> QED
  BY <1>3, <1>5, <1>8

LEMMA SameLast ==
  ASSUME NEW n \in Nat, NEW s \in SUBSET (1..n), NEW t \in SUBSET s, s # {}, Max(s) \in t
  PROVE  Max(t) = Max(s)
<1>1. /\ Max(s) \in s /\ \A y \in s : y <= Max(s)
      /\ Max(t) \in t /\ \A y \in t : y <= Max(t)
  BY LastPlace
<1>2. s \subseteq 1..n /\ 1..n \subseteq Nat
  OBVIOUS
<1>3. Max(s) \in Nat /\ Max(t) \in Nat
  BY <1>1, <1>2, Zenon
<1>4. Max(t) <= Max(s) /\ Max(s) <= Max(t)
  BY <1>1
<1> QED
  BY <1>3, <1>4

LEMMA TopPlace ==
  ASSUME NEW n \in Nat
  PROVE  Max(1..n+1) = n + 1 /\ (1..n+1) \ {n + 1} = 1..n
<1>1. n + 1 \in 1..n+1 /\ \A y \in 1..n+1 : n + 1 >= y
  OBVIOUS
<1>2. \A x \in 1..n+1 : (\A y \in 1..n+1 : x >= y) => x = n + 1
  OBVIOUS
<1> QED
  BY <1>1, <1>2 DEF Max

-----------------------------------------------------------------------------
(* The books a list of decisions makes.                                    *)

Replays(g, q, D) ==
  g = [s \in D |-> IF s = {} THEN FirstBooks ELSE Booked(g[s \ {Max(s)}], q[Max(s)])]

LEMMA ReplayIsFold ==
  ASSUME NEW q
  PROVE  Replayed(q) = (CHOOSE g : Replays(g, q, SUBSET DOMAIN q))[DOMAIN q]
BY DEF Replayed, FoldLeft, MapThenFoldSet, Replays

LEMMA ReplayExists ==
  ASSUME NEW n \in Nat, NEW q
  PROVE  \E g : Replays(g, q, SUBSET (1..n))
<1> DEFINE P == {s \in SUBSET (1..n) : \E g : Replays(g, q, SUBSET s)}
<1>1. {} \in P
  <2>1. SUBSET {} = {{}}
    OBVIOUS
  <2>2. Replays([s \in {{}} |-> FirstBooks], q, {{}})
    BY DEF Replays
  <2> QED
    BY <2>1, <2>2
<1>2. ASSUME NEW s \in SUBSET (1..n), s # {}, s \ {Max(s)} \in P
      PROVE  s \in P
  <2> DEFINE m == Max(s)
  <2>1. PICK g : Replays(g, q, SUBSET (s \ {m}))
    BY <1>2
  <2> HIDE DEF m
  <2> DEFINE h == [t \in SUBSET s |-> IF m \in t THEN Booked(g[t \ {m}], q[m]) ELSE g[t]]
  <2>2. ASSUME NEW t \in SUBSET s
        PROVE  h[t] = IF t = {} THEN FirstBooks ELSE Booked(h[t \ {Max(t)}], q[Max(t)])
    <3>1. CASE m \in t
      <4>1. Max(t) = m
        BY <1>2, <3>1, SameLast DEF m
      <4>2. h[t \ {m}] = g[t \ {m}]
        OBVIOUS
      <4> QED
        BY <3>1, <4>1, <4>2
    <3>2. CASE m \notin t
      <4>1. t \in SUBSET (s \ {m}) /\ h[t] = g[t]
        BY <3>2
      <4>2. g[t] = IF t = {} THEN FirstBooks ELSE Booked(g[t \ {Max(t)}], q[Max(t)])
        BY <2>1, <4>1 DEF Replays
      <4>3. h[t \ {Max(t)}] = g[t \ {Max(t)}]
        BY <3>2
      <4> QED
        BY <4>1, <4>2, <4>3
    <3> QED
      BY <3>1, <3>2
  <2>3. Replays(h, q, SUBSET s)
    <3> HIDE DEF m
    <3>1. DOMAIN h = SUBSET s /\ h = [t \in SUBSET s |-> h[t]]
      OBVIOUS
    <3> HIDE DEF h
    <3> QED
      BY <2>2, <3>1 DEF Replays
  <2> QED
    BY <2>3
<1> HIDE DEF P
<1>3. \A s \in SUBSET (1..n) : s \in P
  BY <1>1, <1>2, PlaceInduction
<1> QED
  BY <1>3 DEF P

Agree(q, r, n) == \A i \in 1..n : q[i] = r[i]
Sets(n) == SUBSET (1..n)

LEMMA ReplaysAgree ==
  ASSUME NEW n \in Nat, NEW q, NEW r, Agree(q, r, n),
         NEW g, Replays(g, q, Sets(n)), NEW h, Replays(h, r, Sets(n + 1))
  PROVE  g[1..n] = h[1..n]
<1> DEFINE P == {s \in SUBSET (1..n) : g[s] = h[s]}
<1>1. ASSUME NEW s \in SUBSET (1..n)
      PROVE  /\ g[s] = IF s = {} THEN FirstBooks ELSE Booked(g[s \ {Max(s)}], q[Max(s)])
             /\ h[s] = IF s = {} THEN FirstBooks ELSE Booked(h[s \ {Max(s)}], r[Max(s)])
  <2>1. s \in SUBSET (1..n+1)
    OBVIOUS
  <2> QED
    BY <2>1 DEF Replays, Sets
<1>2. {} \in P
  BY <1>1
<1>3. ASSUME NEW s \in SUBSET (1..n), s # {}, s \ {Max(s)} \in P
      PROVE  s \in P
  <2>1. Max(s) \in 1..n
    BY <1>3, LastPlace
  <2>2. q[Max(s)] = r[Max(s)]
    BY <2>1 DEF Agree
  <2> QED
    BY <1>1, <1>3, <2>2
<1> HIDE DEF P
<1>4. \A s \in SUBSET (1..n) : s \in P
  BY <1>2, <1>3, PlaceInduction
<1> QED
  BY <1>4 DEF P

LEMMA ReplayOf ==
  ASSUME NEW S, NEW q \in Seq(S)
  PROVE  \E g : /\ Replays(g, q, SUBSET (1..Len(q)))
                /\ Replayed(q) = g[1..Len(q)]
<1>1. DOMAIN q = 1..Len(q) /\ Len(q) \in Nat
  OBVIOUS
<1>2. \E g : Replays(g, q, SUBSET (1..Len(q)))
  BY <1>1, ReplayExists
<1>3. Replays(CHOOSE g : Replays(g, q, SUBSET DOMAIN q), q, SUBSET (1..Len(q)))
  BY <1>1, <1>2, Zenon
<1> QED
  BY <1>1, <1>3, ReplayIsFold, Zenon

\* No decisions make the first books, one more is booked on what they make.
LEMMA ReplayOfNone == Replayed(<< >>) = FirstBooks
<1>1. PICK g : /\ Replays(g, << >>, SUBSET (1..Len(<< >>)))
               /\ Replayed(<< >>) = g[1..Len(<< >>)]
  <2>1. << >> \in Seq({})
    OBVIOUS
  <2> QED
    BY <2>1, ReplayOf, Zenon
<1>2. 1..Len(<< >>) = {}
  OBVIOUS
<1>3. Replays(g, << >>, SUBSET {}) /\ Replayed(<< >>) = g[{}]
  BY <1>1, <1>2, Zenon
<1> QED
  BY <1>3 DEF Replays

LEMMA ReplayOfAppend ==
  ASSUME NEW S, NEW q \in Seq(S), NEW x
  PROVE  Replayed(Append(q, x)) = Booked(Replayed(q), x)
<1> DEFINE n == Len(q)
           r == Append(q, x)
<1>1. n \in Nat /\ \A i \in 1..n : q[i] = r[i]
  <2>1. q \in Seq(S \union {x})
    BY SeqMonotonic
  <2> QED
    BY <2>1
<1>2. r \in Seq(S \union {x}) /\ Len(r) = n + 1 /\ r[n + 1] = x
  <2>1. q \in Seq(S \union {x})
    BY SeqMonotonic
  <2> QED
    BY <2>1
<1>3. PICK g : Replays(g, q, SUBSET (1..n)) /\ Replayed(q) = g[1..n]
  BY ReplayOf
<1> HIDE DEF r
<1>4. PICK h : Replays(h, r, SUBSET (1..n+1)) /\ Replayed(r) = h[1..n+1]
  <2>1. PICK h : Replays(h, r, SUBSET (1..Len(r))) /\ Replayed(r) = h[1..Len(r)]
    BY <1>2, ReplayOf
  <2> QED
    BY <1>2, <2>1
<1> HIDE DEF n
<1>5. g[1..n] = h[1..n]
  <2>1. Agree(q, r, n)
    BY <1>1 DEF Agree
  <2>2. Replays(g, q, Sets(n)) /\ Replays(h, r, Sets(n + 1))
    BY <1>3, <1>4, Zenon DEF Sets
  <2> QED
    BY <1>1, <2>1, <2>2, ReplaysAgree
<1>6. Max(1..n+1) = n + 1 /\ (1..n+1) \ {n + 1} = 1..n /\ 1..n+1 # {}
  <2>1. n + 1 \in 1..n+1
    BY <1>1
  <2> QED
    BY <1>1, <2>1, TopPlace
<1>7. h[1..n+1] = Booked(h[(1..n+1) \ {Max(1..n+1)}], r[Max(1..n+1)])
  BY <1>4, <1>6 DEF Replays
<1>8. h[1..n+1] = Booked(h[1..n], x)
  BY <1>2, <1>6, <1>7
<1> QED
  BY <1>3, <1>4, <1>5, <1>8 DEF r

-----------------------------------------------------------------------------
(* The decisions of a run: each account decides on each coin once.         *)

IsSeq(q) == \E S : q \in Seq(S)

\* What plan_decisions puts down, without what its transaction adds.
Item(d) ==
  DOMAIN d = {"account", "day", "bar", "sym", "action", "qty", "price", "equity"}

MadeOf(plan, a, coins) ==
  /\ IsSeq(plan.made)
  /\ \A i \in DOMAIN plan.made :
       /\ Item(plan.made[i])
       /\ plan.made[i].account = a /\ plan.made[i].day = today /\ plan.made[i].sym \in coins
  /\ \A i, j \in DOMAIN plan.made : i # j => plan.made[i].sym # plan.made[j].sym

LEMMA AppendFacts ==
  ASSUME NEW q, IsSeq(q), NEW x
  PROVE  /\ IsSeq(Append(q, x))
         /\ Len(q) \in Nat /\ DOMAIN q = 1..Len(q)
         /\ DOMAIN Append(q, x) = 1..Len(q) + 1
         /\ Append(q, x)[Len(q) + 1] = x
         /\ \A i \in DOMAIN q : Append(q, x)[i] = q[i]
<1>1. PICK S : q \in Seq(S)
  BY DEF IsSeq
<1>2. q \in Seq(S \union {x}) /\ x \in S \union {x}
  BY <1>1, SeqMonotonic
<1>3. Append(q, x) \in Seq(S \union {x})
  BY <1>2
<1> QED
  BY <1>2, <1>3 DEF IsSeq

LEMMA ConcatFacts ==
  ASSUME NEW q, IsSeq(q), NEW r, IsSeq(r)
  PROVE  /\ IsSeq(q \o r)
         /\ Len(q) \in Nat /\ DOMAIN q = 1..Len(q) /\ DOMAIN r = 1..Len(r)
         /\ \A k \in DOMAIN (q \o r) :
              \/ k \in DOMAIN q /\ (q \o r)[k] = q[k]
              \/ k - Len(q) \in DOMAIN r /\ k > Len(q) /\ (q \o r)[k] = r[k - Len(q)]
<1>1. PICK S : q \in Seq(S)
  BY DEF IsSeq
<1>2. PICK T : r \in Seq(T)
  BY DEF IsSeq
<1> DEFINE U == S \union T
<1>3. q \in Seq(U) /\ r \in Seq(U)
  BY <1>1, <1>2, SeqMonotonic
<1> HIDE DEF U
<1>4. q \o r \in Seq(U) /\ Len(q \o r) = Len(q) + Len(r)
  BY <1>3
<1>5. Len(q) \in Nat /\ Len(r) \in Nat /\ DOMAIN q = 1..Len(q) /\ DOMAIN r = 1..Len(r)
      /\ DOMAIN (q \o r) = 1..Len(q) + Len(r)
  BY <1>3, <1>4
<1>6. ASSUME NEW k \in DOMAIN (q \o r)
      PROVE  \/ k \in DOMAIN q /\ (q \o r)[k] = q[k]
             \/ k - Len(q) \in DOMAIN r /\ k > Len(q) /\ (q \o r)[k] = r[k - Len(q)]
  <2>1. CASE k <= Len(q)
    BY <1>3, <1>5, <2>1, ConcatProperties
  <2>2. CASE k > Len(q)
    BY <1>3, <1>5, <2>2, ConcatProperties
  <2> QED
    BY <1>5, <2>1, <2>2
<1> QED
  BY <1>4, <1>5, <1>6 DEF IsSeq

LEMMA DecidedMakes ==
  ASSUME NEW a, NEW targets, NEW quote, NEW plan, NEW c
  PROVE  \E e : /\ Item(e) /\ e.account = a /\ e.day = today /\ e.sym = c
                /\ Decided(a, targets, quote, plan, c).made = Append(plan.made, e)
<1>1. \A bar, action, qty, price, equity :
        LET e == [account |-> a, day |-> today, bar |-> bar, sym |-> c, action |-> action,
                  qty |-> qty, price |-> price, equity |-> equity]
        IN  Item(e) /\ e.account = a /\ e.day = today /\ e.sym = c
  BY DEF Item
<1> QED
  BY <1>1 DEF Decided

Plans(g, a, targets, quote, D) ==
  g = [s \in D |-> IF s = {} THEN [cash |-> cash[a], held |-> held[a], made |-> << >>]
                   ELSE Decided(a, targets, quote, g[s \ {Max(s)}], CoinList[Max(s)])]

LEMMA PlannedIsFold ==
  ASSUME NEW a, NEW targets, NEW quote
  PROVE  Planned(a, targets, quote)
           = (CHOOSE g : Plans(g, a, targets, quote, SUBSET DOMAIN CoinList))[DOMAIN CoinList].made
BY DEF Planned, FoldLeft, MapThenFoldSet, Plans

LEMMA PlanExists ==
  ASSUME NEW n \in Nat, NEW a, NEW targets, NEW quote
  PROVE  \E g : Plans(g, a, targets, quote, SUBSET (1..n))
<1> DEFINE base == [cash |-> cash[a], held |-> held[a], made |-> << >>]
           P == {s \in SUBSET (1..n) : \E g : Plans(g, a, targets, quote, SUBSET s)}
<1>1. {} \in P
  <2>1. SUBSET {} = {{}}
    OBVIOUS
  <2>2. Plans([s \in {{}} |-> base], a, targets, quote, {{}})
    BY DEF Plans
  <2> QED
    BY <2>1, <2>2
<1>2. ASSUME NEW s \in SUBSET (1..n), s # {}, s \ {Max(s)} \in P
      PROVE  s \in P
  <2> DEFINE m == Max(s)
  <2>1. PICK g : Plans(g, a, targets, quote, SUBSET (s \ {m}))
    BY <1>2
  <2> HIDE DEF m
  <2> DEFINE h == [t \in SUBSET s |->
                     IF m \in t THEN Decided(a, targets, quote, g[t \ {m}], CoinList[m]) ELSE g[t]]
  <2>2. ASSUME NEW t \in SUBSET s
        PROVE  h[t] = IF t = {} THEN base
                      ELSE Decided(a, targets, quote, h[t \ {Max(t)}], CoinList[Max(t)])
    <3>1. CASE m \in t
      <4>1. Max(t) = m
        BY <1>2, <3>1, SameLast DEF m
      <4>2. h[t \ {m}] = g[t \ {m}]
        OBVIOUS
      <4> QED
        BY <3>1, <4>1, <4>2
    <3>2. CASE m \notin t
      <4>1. t \in SUBSET (s \ {m}) /\ h[t] = g[t]
        BY <3>2
      <4>2. g[t] = IF t = {} THEN base
                   ELSE Decided(a, targets, quote, g[t \ {Max(t)}], CoinList[Max(t)])
        BY <2>1, <4>1 DEF Plans
      <4>3. h[t \ {Max(t)}] = g[t \ {Max(t)}]
        BY <3>2
      <4> QED
        BY <4>1, <4>2, <4>3
    <3> QED
      BY <3>1, <3>2
  <2>3. Plans(h, a, targets, quote, SUBSET s)
    <3> HIDE DEF m
    <3>1. DOMAIN h = SUBSET s /\ h = [t \in SUBSET s |-> h[t]]
      OBVIOUS
    <3> HIDE DEF h
    <3> QED
      BY <2>2, <3>1 DEF Plans
  <2> QED
    BY <2>3
<1> HIDE DEF P
<1>3. \A s \in SUBSET (1..n) : s \in P
  BY <1>1, <1>2, PlaceInduction
<1> QED
  BY <1>3 DEF P

LEMMA CoinsListed ==
  /\ DOMAIN CoinList = 1..Len(CoinList) /\ Len(CoinList) \in Nat
  /\ \A i, j \in DOMAIN CoinList : i # j => CoinList[i] # CoinList[j]
<1>1. /\ CoinList \in Seq(Coins) /\ ToSet(CoinList) = Coins
      /\ Len(CoinList) = Cardinality(Coins) /\ IsFiniteSet(Coins)
  BY TradeAssumption, CandleAssumption
<1>2. /\ DOMAIN CoinList = 1..Len(CoinList) /\ Len(CoinList) \in Nat
      /\ CoinList \in [1..Len(CoinList) -> Coins]
  BY <1>1
<1> DEFINE D == 1..Len(CoinList)
<1>3. IsFiniteSet(D) /\ Cardinality(D) = Cardinality(Coins)
  BY <1>1, <1>2, FS_Interval
<1>4. CoinList \in Surjection(D, Coins)
  BY <1>1, <1>2 DEF Surjection, ToSet
<1> HIDE DEF D
<1>5. CoinList \in Injection(D, Coins)
  BY <1>3, <1>4, FS_SurjSameCardinalityImpliesInj
<1> QED
  BY <1>2, <1>5 DEF Injection, IsInjective, D

LEMMA PlannedMakes ==
  ASSUME NEW a, NEW targets, NEW quote
  PROVE  \E plan : MadeOf(plan, a, Coins) /\ Planned(a, targets, quote) = plan.made
<1> DEFINE n == Len(CoinList)
<1>1. n \in Nat /\ DOMAIN CoinList = 1..n
  BY CoinsListed
<1>2. PICK g : /\ Plans(g, a, targets, quote, SUBSET (1..n))
               /\ Planned(a, targets, quote) = g[1..n].made
  <2>1. \E g : Plans(g, a, targets, quote, SUBSET (1..n))
    BY <1>1, PlanExists
  <2>2. Plans(CHOOSE g : Plans(g, a, targets, quote, SUBSET DOMAIN CoinList),
              a, targets, quote, SUBSET (1..n))
    BY <1>1, <2>1, Zenon
  <2> QED
    BY <1>1, <2>2, PlannedIsFold, Zenon
<1> DEFINE At(s) == {CoinList[i] : i \in s}
           P == {s \in SUBSET (1..n) : MadeOf(g[s], a, At(s))}
<1>3. ASSUME NEW s \in SUBSET (1..n)
      PROVE  g[s] = IF s = {} THEN [cash |-> cash[a], held |-> held[a], made |-> << >>]
                    ELSE Decided(a, targets, quote, g[s \ {Max(s)}], CoinList[Max(s)])
  BY <1>2 DEF Plans
<1>4. {} \in P
  <2>1. g[{}].made = << >>
    <3>1. g[{}] = [cash |-> cash[a], held |-> held[a], made |-> << >>]
      BY <1>3
    <3> QED
      BY <3>1
  <2>2. IsSeq(<< >>) /\ DOMAIN << >> = {}
    <3>1. << >> \in Seq({})
      OBVIOUS
    <3> QED
      BY <3>1 DEF IsSeq
  <2> QED
    BY <2>1, <2>2 DEF MadeOf
<1>5. ASSUME NEW s \in SUBSET (1..n), s # {}, s \ {Max(s)} \in P
      PROVE  s \in P
  <2> DEFINE m == Max(s)
             r == s \ {m}
             q == g[r].made
  <2>1. m \in s /\ m \in DOMAIN CoinList
    BY <1>1, <1>5, LastPlace
  <2>2. MadeOf(g[r], a, At(r))
    BY <1>5
  <2>3. PICK e : /\ Item(e) /\ e.account = a /\ e.day = today /\ e.sym = CoinList[m]
                 /\ g[s].made = Append(q, e)
    <3>1. g[s] = Decided(a, targets, quote, g[r], CoinList[m])
      BY <1>3, <1>5
    <3> HIDE DEF r, m
    <3> QED
      BY <3>1, DecidedMakes
  <2>4. /\ IsSeq(Append(q, e))
        /\ Len(q) \in Nat /\ DOMAIN q = 1..Len(q)
        /\ DOMAIN Append(q, e) = 1..Len(q) + 1
        /\ Append(q, e)[Len(q) + 1] = e
        /\ \A i \in DOMAIN q : Append(q, e)[i] = q[i]
    <3> HIDE DEF q
    <3>1. IsSeq(q)
      BY <2>2 DEF MadeOf, q
    <3> QED
      BY <3>1, AppendFacts
  <2>5. At(s) = At(r) \union {CoinList[m]} /\ CoinList[m] \notin At(r)
    BY <1>1, <2>1, CoinsListed
  <2>6. \A i \in DOMAIN q : /\ Item(q[i]) /\ q[i].account = a /\ q[i].day = today
                            /\ q[i].sym \in At(r)
    BY <2>2 DEF MadeOf
  <2>7. \A i, j \in DOMAIN q : i # j => q[i].sym # q[j].sym
    BY <2>2 DEF MadeOf
  <2> HIDE DEF m, r, q, At
  <2>8. ASSUME NEW i \in 1..Len(q) + 1
        PROVE  i \in DOMAIN q \/ i = Len(q) + 1
    BY <2>4
  <2>9. MadeOf(g[s], a, At(s))
    <3> DEFINE b == Append(q, e)
    <3> HIDE DEF b
    <3>1. DOMAIN b = 1..Len(q) + 1 /\ IsSeq(b) /\ g[s].made = b
      BY <2>3, <2>4 DEF b
    <3>2. \A i \in DOMAIN b : \/ i \in DOMAIN q /\ b[i] = q[i]
                              \/ i = Len(q) + 1 /\ b[i] = e
      <4>1. \A i \in DOMAIN q : b[i] = q[i]
        BY <2>4 DEF b
      <4>2. b[Len(q) + 1] = e
        BY <2>4 DEF b
      <4> TAKE i \in DOMAIN b
      <4>3. i \in 1..Len(q) + 1
        BY <3>1, Zenon
      <4>4. i \in DOMAIN q \/ i = Len(q) + 1
        BY <2>8, <4>3, Zenon
      <4> QED
        BY <4>1, <4>2, <4>4
    <3>3. \A i \in DOMAIN b : /\ Item(b[i]) /\ b[i].account = a /\ b[i].day = today
                              /\ b[i].sym \in At(s)
      BY <2>3, <2>5, <2>6, <3>2
    <3>4. \A i, j \in DOMAIN b : i # j => b[i].sym # b[j].sym
      BY <2>3, <2>5, <2>6, <2>7, <3>2
    <3> QED
      BY <3>1, <3>3, <3>4 DEF MadeOf
  <2> QED
    BY <2>9
<1>6. \A s \in SUBSET (1..n) : s \in P
  <2> HIDE DEF P
  <2> QED
    BY <1>1, <1>4, <1>5, PlaceInduction
<1>7. MadeOf(g[1..n], a, At(1..n))
  BY <1>6
<1>8. At(1..n) = Coins
  BY <1>1, TradeAssumption DEF ToSet
<1> QED
  BY <1>2, <1>7, <1>8

\* The decisions of the accounts, one after the other.
Joined(g, q, targets, quote, D) ==
  g = [s \in D |-> IF s = {} THEN << >>
                   ELSE g[s \ {Max(s)}] \o Planned(q[Max(s)], targets, quote)]

LEMMA PlanIsFold ==
  ASSUME NEW targets, NEW quote
  PROVE  LET q == SetToSeq(Accounts)
         IN  PlanDecisions(targets, quote)
               = (CHOOSE g : Joined(g, q, targets, quote, SUBSET DOMAIN q))[DOMAIN q]
BY DEF PlanDecisions, FoldLeft, MapThenFoldSet, Joined

LEMMA JoinExists ==
  ASSUME NEW n \in Nat, NEW q, NEW targets, NEW quote
  PROVE  \E g : Joined(g, q, targets, quote, SUBSET (1..n))
<1> DEFINE P == {s \in SUBSET (1..n) : \E g : Joined(g, q, targets, quote, SUBSET s)}
<1>1. {} \in P
  <2>1. SUBSET {} = {{}}
    OBVIOUS
  <2>2. Joined([s \in {{}} |-> << >>], q, targets, quote, {{}})
    BY DEF Joined
  <2> QED
    BY <2>1, <2>2
<1>2. ASSUME NEW s \in SUBSET (1..n), s # {}, s \ {Max(s)} \in P
      PROVE  s \in P
  <2> DEFINE m == Max(s)
  <2>1. PICK g : Joined(g, q, targets, quote, SUBSET (s \ {m}))
    BY <1>2
  <2> HIDE DEF m
  <2> DEFINE h == [t \in SUBSET s |->
                     IF m \in t THEN g[t \ {m}] \o Planned(q[m], targets, quote) ELSE g[t]]
  <2>2. ASSUME NEW t \in SUBSET s
        PROVE  h[t] = IF t = {} THEN << >>
                      ELSE h[t \ {Max(t)}] \o Planned(q[Max(t)], targets, quote)
    <3>1. CASE m \in t
      <4>1. Max(t) = m
        BY <1>2, <3>1, SameLast DEF m
      <4>2. h[t \ {m}] = g[t \ {m}]
        OBVIOUS
      <4> QED
        BY <3>1, <4>1, <4>2
    <3>2. CASE m \notin t
      <4>1. t \in SUBSET (s \ {m}) /\ h[t] = g[t]
        BY <3>2
      <4>2. g[t] = IF t = {} THEN << >> ELSE g[t \ {Max(t)}] \o Planned(q[Max(t)], targets, quote)
        BY <2>1, <4>1 DEF Joined
      <4>3. h[t \ {Max(t)}] = g[t \ {Max(t)}]
        BY <3>2
      <4> QED
        BY <4>1, <4>2, <4>3
    <3> QED
      BY <3>1, <3>2
  <2>3. Joined(h, q, targets, quote, SUBSET s)
    <3> HIDE DEF m
    <3>1. DOMAIN h = SUBSET s /\ h = [t \in SUBSET s |-> h[t]]
      OBVIOUS
    <3> HIDE DEF h
    <3> QED
      BY <2>2, <3>1 DEF Joined
  <2> QED
    BY <2>3
<1> HIDE DEF P
<1>3. \A s \in SUBSET (1..n) : s \in P
  BY <1>1, <1>2, PlaceInduction
<1> QED
  BY <1>3 DEF P

LEMMA AccountsListed ==
  LET q == SetToSeq(Accounts)
  IN  /\ DOMAIN q = 1..Cardinality(Accounts) /\ Cardinality(Accounts) \in Nat
      /\ \A i, j \in DOMAIN q : i # j => q[i] # q[j]
<1> DEFINE q == SetToSeq(Accounts)
           n == Cardinality(Accounts)
<1>1. n \in Nat /\ ExistsBijection(1..n, Accounts)
  BY TradeAssumption, FS_CardinalityType
<1>2. \E f \in [1..n -> Accounts] : IsInjective(f)
  BY <1>1 DEF ExistsBijection, Bijection, Injection
<1>3. q \in [1..n -> Accounts] /\ IsInjective(q)
  BY <1>2 DEF SetToSeq
<1> QED
  BY <1>1, <1>3 DEF IsInjective

\* Of the decisions of a run no two are of an account and a coin.
Fresh(q) ==
  /\ IsSeq(q)
  /\ \A i \in DOMAIN q : Item(q[i]) /\ q[i].day = today
  /\ \A i, j \in DOMAIN q : i # j => q[i].account # q[j].account \/ q[i].sym # q[j].sym

LEMMA PlanIsFresh ==
  ASSUME NEW targets, NEW quote
  PROVE  Fresh(PlanDecisions(targets, quote))
<1> DEFINE q == SetToSeq(Accounts)
           n == Cardinality(Accounts)
<1>1. n \in Nat /\ DOMAIN q = 1..n /\ \A i, j \in DOMAIN q : i # j => q[i] # q[j]
  BY AccountsListed
<1> HIDE DEF q, n
<1>2. PICK g : /\ Joined(g, q, targets, quote, SUBSET (1..n))
               /\ PlanDecisions(targets, quote) = g[1..n]
  <2>1. \E g : Joined(g, q, targets, quote, SUBSET (1..n))
    BY <1>1, JoinExists
  <2>2. Joined(CHOOSE g : Joined(g, q, targets, quote, SUBSET DOMAIN q),
               q, targets, quote, SUBSET (1..n))
    BY <1>1, <2>1, Zenon
  <2>3. PlanDecisions(targets, quote)
          = (CHOOSE g : Joined(g, q, targets, quote, SUBSET DOMAIN q))[DOMAIN q]
    BY PlanIsFold DEF q
  <2> QED
    BY <1>1, <2>2, <2>3, Zenon
<1> DEFINE At(s) == {q[i] : i \in s}
           Right(s) == Fresh(g[s]) /\ \A i \in DOMAIN g[s] : g[s][i].account \in At(s)
           P == {s \in SUBSET (1..n) : Right(s)}
<1>3. ASSUME NEW s \in SUBSET (1..n)
      PROVE  g[s] = IF s = {} THEN << >>
                    ELSE g[s \ {Max(s)}] \o Planned(q[Max(s)], targets, quote)
  BY <1>2 DEF Joined
<1>4. {} \in P
  <2>1. g[{}] = << >>
    BY <1>3
  <2>2. IsSeq(<< >>) /\ DOMAIN << >> = {}
    <3>1. << >> \in Seq({})
      OBVIOUS
    <3> QED
      BY <3>1 DEF IsSeq
  <2> QED
    BY <2>1, <2>2 DEF Fresh
<1>5. ASSUME NEW s \in SUBSET (1..n), s # {}, s \ {Max(s)} \in P
      PROVE  s \in P
  <2> DEFINE m == Max(s)
             r == s \ {m}
             v == g[r]
             b == g[s]
  <2>1. m \in s /\ m \in DOMAIN q
    BY <1>1, <1>5, LastPlace
  <2>2. Fresh(v) /\ \A i \in DOMAIN v : v[i].account \in At(r)
    BY <1>5
  <2>3. PICK plan : /\ MadeOf(plan, q[m], Coins)
                    /\ Planned(q[m], targets, quote) = plan.made
    BY PlannedMakes
  <2> DEFINE w == plan.made
  <2>4. b = v \o w
    BY <1>3, <1>5, <2>3
  <2>5. At(s) = At(r) \union {q[m]} /\ q[m] \notin At(r)
    BY <1>1, <2>1
  <2>6. /\ IsSeq(v) /\ IsSeq(w)
        /\ \A i \in DOMAIN v : Item(v[i]) /\ v[i].day = today /\ v[i].account \in At(r)
        /\ \A i \in DOMAIN w : Item(w[i]) /\ w[i].day = today /\ w[i].account = q[m]
    BY <2>2, <2>3 DEF Fresh, MadeOf
  <2>7. /\ \A i, j \in DOMAIN v : i # j => v[i].account # v[j].account \/ v[i].sym # v[j].sym
        /\ \A i, j \in DOMAIN w : i # j => w[i].sym # w[j].sym
    BY <2>2, <2>3 DEF Fresh, MadeOf
  <2> HIDE DEF m, r, v, w, b, At
  <2>8. /\ IsSeq(b) /\ Len(v) \in Nat /\ DOMAIN v = 1..Len(v)
        /\ \A k \in DOMAIN b : \/ k \in DOMAIN v /\ b[k] = v[k]
                               \/ k - Len(v) \in DOMAIN w /\ k > Len(v) /\ b[k] = w[k - Len(v)]
    BY <2>4, <2>6, ConcatFacts, ZenonT(40)
  <2>9. \A i \in DOMAIN b : Item(b[i]) /\ b[i].day = today /\ b[i].account \in At(s)
    BY <2>5, <2>6, <2>8
  <2>10. DOMAIN b \subseteq Int
    BY <2>8 DEF IsSeq
  <2>11. ASSUME NEW i \in DOMAIN b, NEW j \in DOMAIN b, i # j
         PROVE  b[i].account # b[j].account \/ b[i].sym # b[j].sym
    <3>1. CASE i \in DOMAIN v /\ b[i] = v[i] /\ j \in DOMAIN v /\ b[j] = v[j]
      BY <2>7, <2>11, <3>1
    <3>2. CASE \/ /\ i \in DOMAIN v /\ b[i] = v[i]
                  /\ j - Len(v) \in DOMAIN w /\ b[j] = w[j - Len(v)]
               \/ /\ j \in DOMAIN v /\ b[j] = v[j]
                  /\ i - Len(v) \in DOMAIN w /\ b[i] = w[i - Len(v)]
      BY <2>5, <2>6, <3>2
    <3>3. CASE /\ i - Len(v) \in DOMAIN w /\ b[i] = w[i - Len(v)]
               /\ j - Len(v) \in DOMAIN w /\ b[j] = w[j - Len(v)]
      <4>1. i - Len(v) # j - Len(v)
        BY <2>8, <2>10, <2>11
      <4> QED
        BY <2>7, <3>3, <4>1
    <3> QED
      BY <2>8, <3>1, <3>2, <3>3
  <2>12. Right(s)
    BY <2>8, <2>9, <2>11 DEF Fresh, b
  <2> QED
    BY <2>12
<1>6. \A s \in SUBSET (1..n) : s \in P
  <2> HIDE DEF P
  <2> QED
    BY <1>1, <1>4, <1>5, PlaceInduction
<1>7. Right(1..n)
  BY <1>6
<1> QED
  BY <1>2, <1>7

-----------------------------------------------------------------------------
(* The daily coin run.  The strengthening: what is planned and not yet     *)
(* committed is apart from what was decided, since a run that plans has    *)
(* seen no decision of its day, and a day that passes only makes them      *)
(* older.                                                                  *)

Apart(d, e) == d.day # e.day \/ d.account # e.account \/ d.sym # e.sym

Dated(q) ==
  /\ IsSeq(q)
  /\ \A i \in DOMAIN q : q[i].day \in Nat /\ q[i].day <= today

RunInv ==
  /\ today \in Nat
  /\ Dated(decisions) /\ Dated(work)
  /\ \A i \in DOMAIN work : Item(work[i])
  /\ \A i, j \in DOMAIN decisions : i # j => Apart(decisions[i], decisions[j])
  /\ \A i, j \in DOMAIN work : i # j => Apart(work[i], work[j])
  /\ \A i \in DOMAIN decisions, j \in DOMAIN work : Apart(decisions[i], work[j])
  /\ step = "plan" => \A i \in DOMAIN decisions : decisions[i].day # today

TradeInv == RunInv /\ BooksMatchDecisions /\ CurveHasEveryDay

LEMMA NoneDated == IsSeq(<< >>) /\ DOMAIN << >> = {}
<1>1. << >> \in Seq({})
  OBVIOUS
<1> QED
  BY <1>1 DEF IsSeq

LEMMA InitTradeInv == Init => TradeInv
<1> SUFFICES ASSUME Init PROVE TradeInv
  OBVIOUS
<1>1. /\ decisions = << >> /\ work = << >> /\ today = Seeded + 1 /\ step = "off"
      /\ cash = [a \in Accounts |-> Cash0]
      /\ held = [a \in Accounts |-> [c \in Coins |-> 0]]
      /\ mended = FALSE
  BY DEF Init, InitCandles, InitTrade
<1>2. RunInv
  BY <1>1, NoneDated, CandleAssumption DEF RunInv, Dated
<1>3. BooksMatchDecisions
  BY <1>1, ReplayOfNone DEF BooksMatchDecisions, FirstBooks
<1> QED
  BY <1>1, <1>2, <1>3 DEF TradeInv, CurveHasEveryDay

\* Days pass, or nothing does.
LEMMA OtherTradeInv ==
  ASSUME TradeInv, UNCHANGED tradeVars, today' \in Nat, today' >= today
  PROVE  TradeInv'
<1>1. /\ decisions' = decisions /\ work' = work /\ step' = step
      /\ cash' = cash /\ held' = held /\ snapshots' = snapshots /\ mended' = mended
  BY DEF tradeVars, runVars, bookVars
<1>2. RunInv'
  BY <1>1 DEF TradeInv, RunInv, Dated, Apart
<1>3. BooksMatchDecisions'
  BY <1>1 DEF TradeInv, BooksMatchDecisions
<1>4. CurveHasEveryDay'
  BY <1>1 DEF TradeInv, CurveHasEveryDay, Valued
<1> QED
  BY <1>2, <1>3, <1>4 DEF TradeInv

\* Nothing is decided, and nothing more is planned.
LEMMA QuietTradeInv ==
  ASSUME TradeInv, UNCHANGED <<today, decisions, cash, held>>,
         work' \in {work, << >>},
         step' = "plan" => step = "plan" \/ ~ AlreadyRanToday,
         CurveHasEveryDay'
  PROVE  TradeInv'
<1>1. \A i \in DOMAIN decisions : decisions[i] \in ToSet(decisions)
  BY DEF ToSet
<1>2. RunInv'
  <2>1. step' = "plan" => \A i \in DOMAIN decisions : decisions[i].day # today
    BY <1>1 DEF TradeInv, RunInv, AlreadyRanToday
  <2>2. CASE work' = work
    BY <2>1, <2>2 DEF TradeInv, RunInv, Dated, Apart
  <2>3. CASE work' = << >>
    BY <2>1, <2>3, NoneDated DEF TradeInv, RunInv, Dated, Apart
  <2> QED
    BY <2>2, <2>3
<1>3. BooksMatchDecisions'
  BY DEF TradeInv, BooksMatchDecisions
<1> QED
  BY <1>2, <1>3 DEF TradeInv

LEMMA PlanTradeInv ==
  ASSUME TradeInv, Plan
  PROVE  TradeInv'
<1>1. PICK targets, quote : work' = PlanDecisions(targets, quote)
  BY DEF Plan
<1>2. /\ UNCHANGED <<today, decisions, cash, held, snapshots, mended>>
      /\ step = "plan" /\ step' = "commit"
  BY DEF Plan, bookVars
<1>3. Fresh(work')
  BY <1>1, PlanIsFresh
<1>4. RunInv'
  <2> DEFINE w == work'
  <2>1. /\ IsSeq(w) /\ \A i \in DOMAIN w : Item(w[i]) /\ w[i].day = today
        /\ \A i, j \in DOMAIN w : i # j => w[i].account # w[j].account \/ w[i].sym # w[j].sym
    BY <1>3 DEF Fresh
  <2>2. /\ today \in Nat /\ Dated(decisions)
        /\ \A i, j \in DOMAIN decisions : i # j => Apart(decisions[i], decisions[j])
        /\ \A i \in DOMAIN decisions : decisions[i].day # today
    BY <1>2 DEF TradeInv, RunInv
  <2>3. Dated(decisions)' /\ today' \in Nat
    BY <1>2, <2>2 DEF Dated
  <2>4. Dated(work)'
    BY <1>2, <2>1, <2>2 DEF Dated
  <2>5. \A i, j \in DOMAIN w : i # j => Apart(w[i], w[j])
    BY <2>1 DEF Apart
  <2>6. \A i \in DOMAIN decisions, j \in DOMAIN w : Apart(decisions[i], w[j])
    BY <2>1, <2>2 DEF Apart
  <2>7. \A i, j \in DOMAIN decisions' : i # j => Apart(decisions[i], decisions[j])'
    BY <1>2, <2>2 DEF Apart
  <2>8. /\ \A i, j \in DOMAIN work' : i # j => Apart(work[i], work[j])'
        /\ \A i \in DOMAIN decisions', j \in DOMAIN work' : Apart(decisions[i], work[j])'
    BY <1>2, <2>5, <2>6 DEF Apart
  <2> QED
    BY <1>2, <2>1, <2>3, <2>4, <2>7, <2>8 DEF RunInv
<1>5. BooksMatchDecisions'
  BY <1>2 DEF TradeInv, BooksMatchDecisions
<1>6. CurveHasEveryDay'
  BY <1>2 DEF CurveHasEveryDay
<1> QED
  BY <1>4, <1>5, <1>6 DEF TradeInv

\* The record of a decision is the decision, and whether it was executed.
LEMMA RecordedFacts ==
  ASSUME NEW d, Item(d)
  PROVE  /\ Recorded(d).executed = Covered(d)
         /\ Recorded(d).day = d.day /\ Recorded(d).account = d.account
         /\ Recorded(d).sym = d.sym /\ Recorded(d).action = d.action
         /\ Recorded(d).price = d.price /\ Recorded(d).qty = d.qty
<1> DEFINE c == Covered(d)
           r == [executed |-> c]
           D == {"account", "day", "bar", "sym", "action", "qty", "price", "equity"}
<1>1. DOMAIN r = {"executed"} /\ r["executed"] = c
  OBVIOUS
<1>2. Recorded(d) = [f \in D \union {"executed"} |-> IF f \in D THEN d[f] ELSE r[f]]
  <2> HIDE DEF r
  <2> QED
    BY <1>1 DEF Item, Recorded, Over, r
<1> HIDE DEF c
<1>3. /\ Recorded(d)["executed"] = c
      /\ \A f \in D : Recorded(d)[f] = d[f]
  BY <1>1, <1>2
<1> QED
  BY <1>3 DEF c

LEMMA CommitTradeInv ==
  ASSUME TradeInv, Commit
  PROVE  TradeInv'
<1> DEFINE d == Head(work)
           x == Recorded(d)
           books == [cash |-> cash, held |-> held]
           n == Len(decisions)
<1>1. /\ step = "commit" /\ work # << >> /\ UNCHANGED <<today, step, snapshots, mended>>
      /\ decisions' = Append(decisions, x) /\ work' = Tail(work)
  BY DEF Commit
<1>2. PICK S : work \in Seq(S)
  BY DEF TradeInv, RunInv, Dated, IsSeq
<1>3. /\ Len(work) \in Nat /\ DOMAIN work = 1..Len(work) /\ 1 \in DOMAIN work /\ d = work[1]
      /\ Tail(work) \in Seq(S) /\ DOMAIN Tail(work) = 1..Len(work) - 1
      /\ \A i \in DOMAIN Tail(work) : Tail(work)[i] = work[i + 1] /\ i + 1 \in DOMAIN work
  BY <1>1, <1>2
<1>4. /\ IsSeq(decisions) /\ IsSeq(work) /\ today \in Nat
      /\ \A i \in DOMAIN decisions : decisions[i].day \in Nat /\ decisions[i].day <= today
      /\ \A i \in DOMAIN work : work[i].day \in Nat /\ work[i].day <= today
      /\ \A i \in DOMAIN work : Item(work[i])
      /\ \A i, j \in DOMAIN decisions : i # j => Apart(decisions[i], decisions[j])
      /\ \A i, j \in DOMAIN work : i # j => Apart(work[i], work[j])
      /\ \A i \in DOMAIN decisions, j \in DOMAIN work : Apart(decisions[i], work[j])
  BY DEF TradeInv, RunInv, Dated
<1>5. Item(d)
  BY <1>3, <1>4
<1>6. /\ x.executed = Covered(d)
      /\ x.day = d.day /\ x.account = d.account /\ x.sym = d.sym
      /\ x.action = d.action /\ x.price = d.price /\ x.qty = d.qty
  BY <1>5, RecordedFacts
<1>7. /\ IsSeq(decisions') /\ n \in Nat /\ DOMAIN decisions = 1..n
      /\ DOMAIN decisions' = 1..n + 1 /\ decisions'[n + 1] = x
      /\ \A i \in DOMAIN decisions : decisions'[i] = decisions[i]
  <2> HIDE DEF x
  <2> QED
    BY <1>1, <1>4, AppendFacts
<1>8. BooksMatchDecisions'
  <2>1. [cash |-> cash', held |-> held'] = IF Covered(d) THEN Settled(books, d) ELSE books
    <3>1. Settled(books, d) = [cash |-> Settled(books, d).cash, held |-> Settled(books, d).held]
      BY DEF Settled
    <3> DEFINE after == IF Covered(d) THEN Settled(books, d) ELSE books
    <3>2. cash' = after.cash /\ held' = after.held
      BY DEF Commit
    <3>3. after = [cash |-> after.cash, held |-> after.held]
      BY <3>1, Zenon
    <3> HIDE DEF after
    <3>4. [cash |-> cash', held |-> held'] = after
      BY <3>2, <3>3, Zenon
    <3> QED
      BY <3>4 DEF after
  <2>2. Settled(books, x) = Settled(books, d)
    <3> HIDE DEF x, d, books
    <3> QED
      BY <1>6, Zenon DEF Settled
  <2>3. Booked(books, x) = [cash |-> cash', held |-> held']
    <3> HIDE DEF x, d, books
    <3> QED
      BY <1>6, <2>1, <2>2, Zenon DEF Booked
  <2>4. PICK T : decisions \in Seq(T)
    BY <1>4 DEF IsSeq
  <2>5. Replayed(decisions') = Booked(Replayed(decisions), x)
    <3> HIDE DEF x
    <3> QED
      BY <1>1, <2>4, ReplayOfAppend
  <2>6. books = Replayed(decisions)
    BY DEF TradeInv, BooksMatchDecisions
  <2> HIDE DEF x, d, books
  <2>7. [cash |-> cash', held |-> held'] = Replayed(decisions')
    BY <2>3, <2>5, <2>6, Zenon
  <2> QED
    BY <2>7 DEF BooksMatchDecisions, Replayed, FirstBooks
<1>9. \A e : Apart(e, d) => Apart(e, x) /\ Apart(x, e)
  <2> HIDE DEF x, d
  <2> QED
    BY <1>6 DEF Apart
<1>10. \A i \in DOMAIN decisions' : i \in DOMAIN decisions \/ i = n + 1
  BY <1>7
<1>11. Dated(decisions)'
  <2> HIDE DEF x, n
  <2>1. x.day \in Nat /\ x.day <= today
    BY <1>3, <1>4, <1>6
  <2>2. \A i \in DOMAIN decisions' : decisions'[i].day \in Nat /\ decisions'[i].day <= today
    BY <1>4, <1>7, <1>10, <2>1
  <2> QED
    BY <1>1, <1>7, <2>2 DEF Dated
<1>12. \A i, j \in DOMAIN decisions' : i # j => Apart(decisions'[i], decisions'[j])
  <2> HIDE DEF x, n, d
  <2> TAKE i \in DOMAIN decisions', j \in DOMAIN decisions'
  <2> HAVE i # j
  <2>1. \A k \in DOMAIN decisions : Apart(decisions'[k], d)
    BY <1>3, <1>4, <1>7
  <2>2. CASE i \in DOMAIN decisions /\ j \in DOMAIN decisions
    BY <1>4, <1>7, <2>2
  <2>3. CASE i = n + 1 \/ j = n + 1
    BY <1>7, <1>9, <1>10, <2>1, <2>3
  <2> QED
    BY <1>10, <2>2, <2>3
<1>13. /\ IsSeq(work')
       /\ \A i \in DOMAIN work' : /\ Item(work'[i])
                                  /\ work'[i].day \in Nat /\ work'[i].day <= today
       /\ \A i, j \in DOMAIN work' : i # j => Apart(work'[i], work'[j])
  <2> DEFINE w == Tail(work)
  <2>1. \A i \in DOMAIN w : w[i] = work[i + 1] /\ i + 1 \in DOMAIN work /\ i \in Int
    BY <1>3
  <2>2. IsSeq(w) /\ work' = w
    BY <1>1, <1>3 DEF IsSeq
  <2> HIDE DEF w, d, x, n
  <2>3. \A i \in DOMAIN w : Item(w[i]) /\ w[i].day \in Nat /\ w[i].day <= today
    BY <1>4, <2>1
  <2>4. \A i, j \in DOMAIN w : i # j => Apart(w[i], w[j])
    BY <1>4, <2>1
  <2> QED
    BY <2>2, <2>3, <2>4
<1>14. \A i \in DOMAIN decisions', j \in DOMAIN work' : Apart(decisions'[i], work'[j])
  <2> HIDE DEF x, n
  <2> TAKE i \in DOMAIN decisions', j \in DOMAIN work'
  <2>1. work'[j] = work[j + 1] /\ j + 1 \in DOMAIN work /\ j + 1 # 1
    BY <1>1, <1>3
  <2>2. CASE i \in DOMAIN decisions
    BY <1>4, <1>7, <2>1, <2>2
  <2>3. CASE i = n + 1
    <3>1. Apart(work[j + 1], d)
      BY <1>3, <1>4, <2>1
    <3> QED
      BY <1>7, <1>9, <2>1, <2>3, <3>1
  <2> QED
    BY <1>10, <2>2, <2>3
<1>15. RunInv'
  <2> HIDE DEF x, n, d
  <2>1. Dated(work)'
    BY <1>1, <1>13 DEF Dated
  <2>2. /\ \A i, j \in DOMAIN decisions' : i # j => Apart(decisions[i], decisions[j])'
        /\ \A i, j \in DOMAIN work' : i # j => Apart(work[i], work[j])'
        /\ \A i \in DOMAIN decisions', j \in DOMAIN work' : Apart(decisions[i], work[j])'
    BY <1>12, <1>13, <1>14 DEF Apart
  <2>3. \A i \in DOMAIN work' : Item(work[i])'
    BY <1>13 DEF Item
  <2> QED
    BY <1>1, <1>4, <1>11, <2>1, <2>2, <2>3 DEF RunInv
<1>16. CurveHasEveryDay'
  BY <1>1 DEF CurveHasEveryDay
<1> QED
  BY <1>8, <1>15, <1>16 DEF TradeInv

LEMMA BootTradeInv ==
  ASSUME TradeInv, Boot
  PROVE  TradeInv'
<1>1. /\ UNCHANGED <<today, decisions, cash, held>> /\ work' = work /\ step' = "backfill"
      /\ snapshots' = IF mended' THEN Repair ELSE snapshots
  BY DEF Boot, bookVars
<1>2. \A d \in Valued : <<d.account, d.day>> \in DOMAIN Repair
  <2> DEFINE K == {<<d.account, d.day>> : d \in Valued}
             f == [k \in K |-> Max({d.equity : d \in {e \in Valued : <<e.account, e.day>> = k}})]
  <2>1. Repair = Over(snapshots, f) /\ DOMAIN f = K
    BY DEF Repair
  <2> HIDE DEF f
  <2>2. K \subseteq DOMAIN Repair
    BY <2>1 DEF Over
  <2> QED
    BY <2>2
<1>3. Valued' = Valued
  BY <1>1 DEF Valued
<1>4. CurveHasEveryDay'
  <2> SUFFICES ASSUME mended', NEW d \in Valued
               PROVE  <<d.account, d.day>> \in DOMAIN snapshots'
    BY <1>3 DEF CurveHasEveryDay
  <2> QED
    BY <1>1, <1>2
<1> QED
  BY <1>1, <1>4, QuietTradeInv

LEMMA TradeStepKeeps ==
  ASSUME TradeInv, TradeStep
  PROVE  TradeInv'
<1>1. CASE Boot
  BY <1>1, BootTradeInv
<1>2. CASE BackfillCoins
  <2>1. /\ UNCHANGED <<today, decisions, cash, held, snapshots, mended>> /\ work' = work
        /\ step = "backfill" /\ step' = "trade"
    BY <1>2 DEF BackfillCoins, bookVars
  <2>2. CurveHasEveryDay'
    BY <2>1 DEF TradeInv, CurveHasEveryDay, Valued
  <2> QED
    BY <2>1, <2>2, QuietTradeInv
<1>3. CASE Start
  <2>1. /\ UNCHANGED <<today, decisions, cash, held, snapshots, mended>> /\ work' = work
        /\ step = "trade" /\ step' = IF AlreadyRanToday THEN "off" ELSE "plan"
    BY <1>3 DEF Start, bookVars
  <2>2. CurveHasEveryDay'
    BY <2>1 DEF TradeInv, CurveHasEveryDay, Valued
  <2> QED
    BY <2>1, <2>2, QuietTradeInv
<1>4. CASE Plan
  BY <1>4, PlanTradeInv
<1>5. CASE Commit
  BY <1>5, CommitTradeInv
<1>6. CASE Fail \/ Snapshot \/ Report \/ PowerOff
  <2>1. /\ UNCHANGED <<today, decisions, cash, held>> /\ work' \in {work, << >>}
        /\ step' \in {"off", "report"}
    BY <1>6 DEF Fail, Snapshot, Report, PowerOff, bookVars
  <2>2. CurveHasEveryDay'
    BY <2>1 DEF CurveHasEveryDay
  <2> QED
    BY <2>1, <2>2, QuietTradeInv
<1> QED
  BY <1>1, <1>2, <1>3, <1>4, <1>5, <1>6 DEF TradeStep

LEMMA StepTradeInv ==
  ASSUME TradeInv, [Next]_vmVars
  PROVE  TradeInv'
<1>1. today \in Nat
  BY DEF TradeInv, RunInv
<1>2. CASE TradeStep
  BY <1>2, TradeStepKeeps
<1>3. CASE ~ TradeStep
  <2>1. UNCHANGED tradeVars /\ today' \in {today, today + 1}
    BY <1>3 DEF Next, vmVars, candleVars, NextDay, FillStep, CacheStep, StockStep,
                SchemaStep, UpkeepStep
  <2> QED
    BY <1>1, <2>1, OtherTradeInv
<1> QED
  BY <1>2, <1>3

LEMMA TradeInvariant == Spec => []TradeInv
BY InitTradeInv, StepTradeInv, PTL DEF Spec

(***************************************************************************)
(* For any accounts, coins, prices, targets and number of boots: the books *)
(* are what the recorded decisions make of the first ones, and an account  *)
(* decides once a day on a coin, wherever boots are cut short and whenever *)
(* midnight passes (trade_once.run, one transaction per decision;          *)
(* _already_ran_today).                                                    *)
(***************************************************************************)
THEOREM TradedIsRecorded == Spec => []TradesAreRecorded
<1>1. TradeInv => TradesAreRecorded
  <2> SUFFICES ASSUME TradeInv PROVE TradesAreRecorded
    OBVIOUS
  <2>1. PICK S : decisions \in Seq(S)
    BY DEF TradeInv, RunInv, Dated, IsSeq
  <2>2. DOMAIN decisions = 1..Len(decisions)
    BY <2>1
  <2>3. OncePerDay
    BY <2>2 DEF TradeInv, RunInv, Apart, OncePerDay
  <2> QED
    BY <2>3 DEF TradeInv, TradesAreRecorded
<1> QED
  BY <1>1, TradeInvariant, PTL

(***************************************************************************)
(* After a db-init that went through, every day that decided at a price is *)
(* on the equity curve, until the run commits what it decides              *)
(* (postgres_repair.sql, scripts/init_db.py).                              *)
(***************************************************************************)
THEOREM EveryDayOnCurve == Spec => []CurveHasEveryDay
<1>1. TradeInv => CurveHasEveryDay
  BY DEF TradeInv
<1> QED
  BY <1>1, TradeInvariant, PTL

-----------------------------------------------------------------------------
(* The stores of candles.  The strengthening, for a coin: nothing is       *)
(* stored past the last backfill, and from any stored day on all days up   *)
(* to it are; for the cache of minutes: it has no hole, as long as no fill *)
(* towards the newest minute was cut short.                                *)

\* Pages back from top until bound or the first candle is met reach below it.
LEMMA PagesReach ==
  ASSUME NEW top \in Int, NEW bound \in Int, NEW first \in Int, bound <= top, first <= top
  PROVE  /\ PagesTo(top, bound, first) \in Nat \ {0}
         /\ PagesTo(top, bound, first) * Page \in Nat
         /\ \/ top - PagesTo(top, bound, first) * Page < bound
            \/ top - PagesTo(top, bound, first) * Page < first
<1>1. Page \in Nat \ {0}
  BY CandleAssumption
<1> DEFINE M == {bound, first}
<1>2. Max(M) \in M /\ \A y \in M : y <= Max(M)
  <2>1. M \in SUBSET Int /\ M # {} /\ \A x \in M : x <= top
    OBVIOUS
  <2> HIDE DEF M
  <2> QED
    BY <2>1, MaxOfInt
<1>3. PICK m \in Int : m = Max(M) /\ m <= top /\ (m = bound \/ m = first)
  BY <1>2
<1> DEFINE n == top - m
           k == n \div Page
           r == n % Page
<1>4. n \in Nat
  BY <1>3
<1> HIDE DEF n
<1>5. k \in Nat /\ r \in Nat /\ r < Page /\ n = k * Page + r
  BY <1>1, <1>4
<1>6. PagesTo(top, bound, first) = k + 1
  BY <1>3 DEF PagesTo, n
<1> HIDE DEF k, r
<1>7. (k + 1) * Page = k * Page + Page /\ k * Page \in Nat
  BY <1>1, <1>5
<1>8. top - (k + 1) * Page < m
  BY <1>1, <1>3, <1>5, <1>7 DEF n
<1> QED
  BY <1>1, <1>3, <1>5, <1>6, <1>7, <1>8

CoinKept(c) ==
  /\ daily[c] \subseteq Listed[c]..backfilled[c] - 1
  /\ backfilled[c] \in Nat /\ backfilled[c] <= today /\ apart[c] \in Nat
  /\ apart[c] <= Days => \A d \in daily[c] : d..backfilled[c] - 1 \subseteq daily[c]

CacheKept ==
  /\ file \subseteq 1..today - 1
  /\ torn \in BOOLEAN
  /\ done.from \in Int /\ done.to \in Int /\ done.to < today
  /\ ~ torn => /\ \A d, e \in file : d..e \subseteq file
               /\ \A d \in 1..done.to : d >= done.from => d \in file

CandleType ==
  /\ today \in Nat \ {0}
  /\ DOMAIN daily = Coins /\ DOMAIN backfilled = Coins /\ DOMAIN apart = Coins

StoreInv == CandleType /\ (\A c \in Coins : CoinKept(c)) /\ CacheKept

LEMMA InitStoreInv == InitCandles => StoreInv
<1> SUFFICES ASSUME InitCandles PROVE StoreInv
  OBVIOUS
<1>1. Seeded \in Nat \ {0}
  BY CandleAssumption
<1>2. CandleType
  BY <1>1 DEF InitCandles, CandleType
<1>3. \A c \in Coins : CoinKept(c)
  BY <1>1 DEF InitCandles, CoinKept
<1>4. CacheKept
  <2>1. file = {} /\ torn = FALSE /\ done = [from |-> 1, to |-> 0] /\ today = Seeded + 1
    BY DEF InitCandles
  <2>2. done.from = 1 /\ done.to = 0 /\ 0 < today /\ 1..0 = {}
    BY <1>1, <2>1
  <2>3. \A d \in 1..done.to : d \in file
    BY <2>2, Zenon
  <2>4. file \subseteq 1..today - 1 /\ torn \in BOOLEAN
    BY <2>1
  <2>5. done.from \in Int /\ done.to \in Int /\ done.to < today
    BY <2>2
  <2>6. \A d, e \in file : d..e \subseteq file
    BY <2>1
  <2> QED
    BY <2>3, <2>4, <2>5, <2>6 DEF CacheKept
<1> QED
  BY <1>2, <1>3, <1>4 DEF StoreInv

\* What an incremental fetch brings: all days back to the last stored one, or
\* to the start of the window, if the coin was listed by then.
LEMMA FetchReaches ==
  ASSUME NEW c \in Coins, CandleType, CoinKept(c)
  PROVE  \E low \in Int :
           /\ FetchDaily(c) = {d \in 1..today - 1 : d > low /\ d >= Listed[c]}
           /\ \A d \in Listed[c]..today - 1 :
                d >= today - Days /\ (\A e \in daily[c] : d >= e) => d > low
<1> DEFINE first == Listed[c]
           S == daily[c] \union {today - Days}
           bound == Max(S)
           p == PagesTo(today, bound, first)
<1>1. /\ first \in Nat \ {0} /\ Days \in Nat \ {0} /\ Page \in Nat \ {0}
      /\ today \in Nat \ {0} /\ backfilled[c] \in Nat /\ backfilled[c] <= today
      /\ daily[c] \subseteq first..backfilled[c] - 1
  BY CandleAssumption DEF CandleType, CoinKept
<1>2. bound \in S /\ \A y \in S : y <= bound
  <2>1. S \in SUBSET Int /\ S # {} /\ today \in Int /\ \A x \in S : x <= today
    BY <1>1
  <2> HIDE DEF S
  <2>2. Max(S) \in S /\ \A y \in S : y <= Max(S)
    BY <2>1, MaxOfInt
  <2> QED
    BY <2>2
<1>3. bound \in Int /\ bound <= today /\ today - Days <= bound
  BY <1>1, <1>2
<1>4. FetchDaily(c) = {d \in 1..today - 1 : d <= today /\ d > today - p * Page /\ d >= first}
  BY DEF FetchDaily, Candles
<1>5. CASE today < first
  <2>1. FetchDaily(c) = {d \in 1..today - 1 : d > 0 /\ d >= first}
    BY <1>1, <1>4, <1>5
  <2>2. first..today - 1 = {}
    BY <1>1, <1>5
  <2> QED
    BY <2>1, <2>2
<1>6. CASE first <= today
  <2> HIDE DEF bound
  <2>1. p * Page \in Nat /\ (today - p * Page < bound \/ today - p * Page < first)
    <3>1. today \in Int /\ bound \in Int /\ first \in Int
      BY <1>1, <1>3
    <3> HIDE DEF first, S
    <3> QED
      BY <1>3, <1>6, <3>1, PagesReach
  <2> DEFINE low == today - p * Page
  <2>2. low \in Int /\ (low < bound \/ low < first)
    BY <1>1, <2>1
  <2>3. FetchDaily(c) = {d \in 1..today - 1 : d > low /\ d >= first}
    BY <1>1, <1>4
  <2> HIDE DEF low
  <2>4. ASSUME NEW d \in first..today - 1, d >= today - Days, \A e \in daily[c] : d >= e
        PROVE  d > low
    <3>1. d >= bound /\ d >= first
      BY <1>1, <1>2, <2>4 DEF bound
    <3> QED
      BY <1>1, <1>3, <2>2, <3>1
  <2> QED
    BY <2>2, <2>3, <2>4
<1> QED
  BY <1>1, <1>5, <1>6

LEMMA FillKeeps ==
  ASSUME CandleType, \A c \in Coins : CoinKept(c), NEW failed, BackfillDaily(failed),
         today' = today
  PROVE  CandleType' /\ \A c \in Coins : CoinKept(c)'
<1>1. CandleType'
  BY DEF CandleType, BackfillDaily
<1>2. ASSUME NEW c \in Coins
      PROVE  CoinKept(c)'
  <2>1. /\ Listed[c] \in Nat \ {0} /\ Days \in Nat \ {0} /\ today \in Nat \ {0}
        /\ daily[c] \subseteq Listed[c]..backfilled[c] - 1
        /\ backfilled[c] \in Nat /\ backfilled[c] <= today /\ apart[c] \in Nat
        /\ apart[c] <= Days => \A d \in daily[c] : d..backfilled[c] - 1 \subseteq daily[c]
    BY CandleAssumption DEF CandleType, CoinKept
  <2>2. CASE c \in failed
    <3>1. daily'[c] = daily[c] /\ backfilled'[c] = backfilled[c] /\ apart'[c] = apart[c]
      BY <2>2 DEF BackfillDaily
    <3> QED
      BY <2>1, <3>1 DEF CoinKept
  <2>3. CASE c \notin failed
    <3> DEFINE F == FetchDaily(c)
               new == daily[c] \union F
    <3>1. /\ daily'[c] = new /\ backfilled'[c] = today
          /\ apart'[c] = IF backfilled[c] = 0 THEN apart[c]
                         ELSE Max({apart[c], today - backfilled[c]})
      BY <2>3 DEF BackfillDaily
    <3>2. PICK low \in Int :
            /\ F = {d \in 1..today - 1 : d > low /\ d >= Listed[c]}
            /\ \A d \in Listed[c]..today - 1 :
                 d >= today - Days /\ (\A e \in daily[c] : d >= e) => d > low
      BY FetchReaches
    <3> HIDE DEF F
    <3>3. new \subseteq Listed[c]..today - 1
      BY <2>1, <3>2
    <3>4. /\ apart'[c] \in Nat /\ apart[c] <= apart'[c]
          /\ backfilled[c] # 0 => today - backfilled[c] <= apart'[c]
      <4>1. CASE backfilled[c] = 0
        BY <2>1, <3>1, <4>1
      <4>2. CASE backfilled[c] # 0
        <5> DEFINE M == {apart[c], today - backfilled[c]}
        <5>1. M \in SUBSET Nat /\ M # {} /\ today + apart[c] \in Nat
              /\ \A x \in M : x <= today + apart[c]
          BY <2>1
        <5>2. apart'[c] = Max(M)
          BY <3>1, <4>2
        <5>3. apart[c] \in M /\ today - backfilled[c] \in M
          OBVIOUS
        <5> HIDE DEF M
        <5>4. Max(M) \in M /\ \A y \in M : y <= Max(M)
          BY <5>1, MaxOfNat
        <5> QED
          BY <5>1, <5>2, <5>3, <5>4
      <4> QED
        BY <4>1, <4>2
    <3>5. ASSUME apart'[c] <= Days, NEW d \in new, NEW e \in d..today - 1
          PROVE  e \in new
      <4>1. d \in Int /\ e \in Int /\ d <= e /\ e < today /\ Listed[c] <= d
        BY <2>1, <3>3, <3>5
      <4>2. CASE d \in F
        BY <2>1, <3>2, <4>1, <4>2
      <4>3. CASE d \in daily[c] /\ e <= backfilled[c] - 1
        <5>1. apart[c] <= Days
          BY <2>1, <3>4, <3>5
        <5>2. e \in d..backfilled[c] - 1
          BY <2>1, <4>1, <4>3
        <5> QED
          BY <2>1, <4>3, <5>1, <5>2
      <4>4. CASE d \in daily[c] /\ e > backfilled[c] - 1
        <5>1. backfilled[c] # 0 /\ today - backfilled[c] <= Days
          BY <2>1, <3>4, <3>5, <4>4
        <5>2. e >= today - Days /\ \A x \in daily[c] : e >= x
          BY <2>1, <4>1, <4>4, <5>1
        <5>3. e > low
          BY <2>1, <3>2, <4>1, <5>2
        <5> QED
          BY <2>1, <3>2, <4>1, <5>3
      <4> QED
        BY <2>1, <4>1, <4>2, <4>3, <4>4
    <3> HIDE DEF new
    <3> QED
      <4>1. apart'[c] <= Days => \A d \in new : d..today - 1 \subseteq new
        BY <3>5
      <4>2. today' \in Nat /\ today <= today' /\ today \in Nat
        BY <2>1
      <4> QED
        BY <3>1, <3>3, <3>4, <4>1, <4>2 DEF CoinKept
  <2> QED
    BY <2>2, <2>3
<1> QED
  BY <1>1, <1>2

LEMMA CacheKeeps ==
  ASSUME CandleType, CacheKept, NEW depth \in Depths, NEW stop \in Nat, Backfill(depth, stop),
         today' = today
  PROVE  CacheKept'
<1> DEFINE lo == Min(file)
           hi == Max(file)
           forward == IF file = {} THEN 0 ELSE PagesTo(today, hi, 1)
           top == IF file = {} THEN today ELSE lo - 1
           back == IF top < today - depth THEN 0 ELSE PagesTo(top, today - depth, 1)
           A == Candles(today, Min({stop, forward}))
           B == Candles(top, Max({0, stop - forward}))
<1>1. /\ stop \in 0..forward + back
      /\ file' = file \union A \union B
      /\ torn' = (torn \/ stop \in 1..forward - 1)
      /\ done' = IF stop = forward + back THEN [from |-> today - depth, to |-> today - 1]
                                          ELSE done
  BY Zenon DEF Backfill
<1>2. /\ today \in Nat \ {0} /\ depth \in Nat \ {0} /\ Page \in Nat \ {0}
      /\ file \subseteq 1..today - 1 /\ torn \in BOOLEAN
      /\ done.from \in Int /\ done.to \in Int /\ done.to < today
  BY CandleAssumption DEF CandleType, CacheKept
\* The ends of the file, and how far it reaches from them.
<1>3. file # {} =>
        /\ lo \in file /\ hi \in file /\ lo \in 1..today - 1 /\ hi \in 1..today - 1
        /\ \A d \in file : d \in Int /\ lo <= d /\ d <= hi
  <2> HIDE DEF lo, hi
  <2>5. \A d \in file : d \in Int /\ d \in 1..today - 1
    BY <1>2
  <2> SUFFICES ASSUME file # {}
               PROVE  /\ lo \in file /\ hi \in file
                      /\ \A d \in file : lo <= d /\ d <= hi
    BY <2>5
  <2>1. file \in SUBSET Nat /\ \A d \in file : d <= today
    BY <1>2
  <2>2. today \in Nat
    BY <1>2
  <2>3. lo \in file /\ \A d \in file : lo <= d
    BY <2>1, MinOfNat DEF lo
  <2>4. hi \in file /\ \A d \in file : d <= hi
    BY <2>1, <2>2, MaxOfNat DEF hi
  <2> QED
    BY <2>3, <2>4
<1> HIDE DEF lo, hi
<1>4. top \in Int /\ top <= today /\ (file # {} => top = lo - 1)
  BY <1>2, <1>3
<1>5. /\ forward \in Nat
      /\ file # {} => forward # 0 /\ \A d \in 1..today - 1 :
           d >= hi => d > today - forward * Page
  <2>1. CASE file = {}
    BY <2>1
  <2>2. CASE file # {}
    <3> DEFINE p == PagesTo(today, hi, 1)
    <3>1. hi \in Int /\ today \in Int /\ 1 \in Int /\ hi <= today /\ 1 <= today
      BY <1>2, <1>3, <2>2
    <3>2. /\ p \in Nat \ {0} /\ p * Page \in Nat
          /\ today - p * Page < hi \/ today - p * Page < 1
      BY <3>1, PagesReach
    <3>3. forward = p
      BY <2>2
    <3> HIDE DEF p, forward
    <3>4. ASSUME NEW d \in 1..today - 1, d >= hi
          PROVE  d > today - p * Page
      <4>1. d \in Int /\ d >= 1 /\ p * Page \in Int
        BY <1>2, <3>2, <3>4
      <4> QED
        BY <3>1, <3>2, <3>4, <4>1
    <3> QED
      BY <3>2, <3>3, <3>4
  <2> QED
    BY <2>1, <2>2
<1>6. /\ back \in Nat
      /\ \A d \in 1..today - 1 : d <= top /\ d >= today - depth => d > top - back * Page
      /\ file = {} => back # 0
  <2>1. CASE top < today - depth
    BY <1>2, <1>4, <2>1
  <2>2. CASE top >= today - depth /\ top >= 1
    <3> DEFINE far == today - depth
               p == PagesTo(top, far, 1)
    <3>1. far \in Int /\ far <= top /\ 1 \in Int
      BY <1>2, <1>4, <2>2
    <3>2. back = p
      BY <1>2, <1>4, <2>2
    <3> HIDE DEF far, top
    <3>3. /\ p \in Nat \ {0} /\ p * Page \in Nat
          /\ top - p * Page < far \/ top - p * Page < 1
      BY <1>4, <2>2, <3>1, PagesReach
    <3> HIDE DEF p, back
    <3>4. ASSUME NEW d \in 1..today - 1, d <= top, d >= far
          PROVE  d > top - p * Page
      <4>1. d \in Int /\ d >= 1 /\ p * Page \in Int
        BY <1>2, <3>3, <3>4
      <4> QED
        BY <1>4, <3>1, <3>3, <3>4, <4>1
    <3> QED
      BY <3>2, <3>3, <3>4 DEF far
  <2>3. CASE top >= today - depth /\ top < 1
    <3>1. back = 0
      BY <1>2, <1>4, <2>3 DEF PagesTo
    <3>2. file # {}
      BY <1>2, <2>3
    <3> HIDE DEF back, top
    <3>3. \A d \in 1..today - 1 : ~ (d <= top)
      BY <1>2, <1>4, <2>3
    <3> QED
      BY <3>1, <3>2, <3>3
  <2> QED
    BY <1>2, <1>4, <2>1, <2>2, <2>3
<1> HIDE DEF forward, back, top
<1>7. /\ file' \subseteq 1..today - 1
      /\ torn' \in BOOLEAN
      /\ done'.from \in Int /\ done'.to \in Int /\ done'.to < today
  <2>1. A \subseteq 1..today - 1 /\ B \subseteq 1..today - 1
    BY DEF Candles
  <2>2. CASE stop = forward + back
    <3>1. done' = [from |-> today - depth, to |-> today - 1]
      BY <1>1, <2>2, Zenon
    <3>2. done'.from = today - depth /\ done'.to = today - 1
      BY <3>1
    <3> HIDE DEF A, B
    <3> QED
      BY <1>1, <1>2, <2>1, <3>2
  <2>3. CASE stop # forward + back
    <3>1. done' = done
      BY <1>1, <2>3, Zenon
    <3> HIDE DEF A, B
    <3> QED
      BY <1>1, <1>2, <2>1, <3>1
  <2> QED
    BY <2>2, <2>3
<1>8. ASSUME ~ torn'
      PROVE  /\ \A d, e \in file' : d..e \subseteq file'
             /\ \A d \in 1..done'.to : d >= done'.from => d \in file'
  <2>1. /\ ~ torn
        /\ \A d, e \in file : d..e \subseteq file
        /\ \A d \in 1..done.to : d >= done.from => d \in file
        /\ stop \notin 1..forward - 1
    BY <1>1, <1>8, Zenon DEF CacheKept
  \* Nothing is fetched, and that was not all there was to fetch.
  <2>2. CASE stop < forward
    <3>1. stop = 0
      BY <1>5, <2>1, <2>2
    <3>2. Min({stop, forward}) = 0 /\ Max({0, stop - forward}) = 0
      <4>1. \A x \in {stop, forward} : (\A y \in {stop, forward} : x <= y) => x = 0
        BY <1>5, <2>2, <3>1
      <4>2. 0 \in {stop, forward} /\ \A y \in {stop, forward} : 0 <= y
        BY <1>5, <3>1
      <4>3. Min({stop, forward}) = 0
        BY <4>1, <4>2 DEF Min
      <4>4. \A x \in {0, stop - forward} : (\A y \in {0, stop - forward} : x >= y) => x = 0
        BY <1>5, <2>2, <3>1
      <4>5. 0 \in {0, stop - forward} /\ \A y \in {0, stop - forward} : 0 >= y
        BY <1>5, <2>2, <3>1
      <4>6. Max({0, stop - forward}) = 0
        BY <4>4, <4>5 DEF Max
      <4> QED
        BY <4>3, <4>6
    <3>3. A = {} /\ B = {}
      <4>1. 0 * Page = 0
        BY <1>2
      <4> QED
        BY <1>2, <1>4, <3>2, <4>1 DEF Candles
    <3>4. file' = file /\ done' = done
      <4>1. stop # forward + back
        BY <1>5, <1>6, <2>2, <3>1
      <4> QED
        BY <1>1, <3>3, <4>1
    <3> QED
      BY <2>1, <3>4
  <2>3. CASE stop >= forward
    <3> DEFINE k == stop - forward
    <3>1. Min({stop, forward}) = forward /\ Max({0, stop - forward}) = k /\ k \in Nat
      <4>1. \A x \in {stop, forward} : (\A y \in {stop, forward} : x <= y) => x = forward
        BY <1>5, <2>3
      <4>2. forward \in {stop, forward} /\ \A y \in {stop, forward} : forward <= y
        BY <1>5, <2>3
      <4>3. Min({stop, forward}) = forward
        BY <4>1, <4>2 DEF Min
      <4>4. \A x \in {0, k} : (\A y \in {0, k} : x >= y) => x = k
        BY <1>5, <2>3
      <4>5. k \in {0, k} /\ \A y \in {0, k} : k >= y
        BY <1>5, <2>3
      <4>6. Max({0, k}) = k
        BY <4>4, <4>5 DEF Max
      <4> QED
        BY <1>5, <2>3, <4>3, <4>6
    <3> HIDE DEF k
    <3> DEFINE lowA == today - forward * Page
               lowB == top - k * Page
    <3>2. lowA \in Int /\ lowB \in Int
      BY <1>2, <1>4, <1>5, <3>1
    <3>3. /\ A = {d \in 1..today - 1 : d > lowA}
          /\ B = {d \in 1..today - 1 : d <= top /\ d > lowB}
      BY <1>2, <3>1 DEF Candles
    <3>4. /\ file # {} => \A d \in 1..today - 1 : d >= hi => d > lowA
          /\ stop = forward + back =>
               \A d \in 1..today - 1 : d <= top /\ d >= today - depth => d > lowB
      <4>1. stop = forward + back => k = back
        BY <1>5, <1>6 DEF k
      <4> QED
        BY <1>5, <1>6, <4>1
    <3> HIDE DEF lowA, lowB, A, B
    \* What is stored now, from a day on that was or is reached.
    <3>5. ASSUME file # {}, NEW d \in 1..today - 1, d >= lo
          PROVE  d \in file'
      <4>1. lo \in Int /\ hi \in Int /\ lo..hi \subseteq file
        BY <1>2, <1>3, <2>1, <3>5
      <4>2. CASE d <= hi
        BY <1>1, <3>5, <4>1, <4>2
      <4>3. CASE d > hi
        BY <1>1, <3>3, <3>4, <3>5, <4>1, <4>3
      <4> QED
        BY <4>1, <4>2, <4>3
    <3>6. ASSUME NEW d \in file', NEW e \in file', NEW x \in d..e
          PROVE  x \in file'
      <4>1. /\ d \in 1..today - 1 /\ e \in 1..today - 1 /\ x \in 1..today - 1 /\ d <= x
        BY <1>2, <1>7, <3>6
      <4>2. CASE d \in A
        BY <1>1, <3>2, <3>3, <4>1, <4>2
      <4>3. CASE file # {} /\ x >= lo
        BY <3>5, <4>1, <4>3
      <4>4. CASE d \in B /\ (file = {} \/ x < lo)
        <5>1. x <= top
          BY <1>2, <1>3, <1>4, <4>1, <4>4 DEF top
        <5> QED
          BY <1>1, <3>2, <3>3, <4>1, <4>4, <5>1
      <4>5. CASE d \in file
        BY <1>2, <1>3, <4>1, <4>3, <4>5
      <4> QED
        BY <1>1, <1>2, <1>3, <4>1, <4>2, <4>3, <4>4, <4>5
    <3>7. ASSUME NEW d \in 1..done'.to, d >= done'.from
          PROVE  d \in file'
      <4>1. CASE stop # forward + back
        <5>1. done' = done
          BY <1>1, <4>1, Zenon
        <5> QED
          BY <1>1, <2>1, <3>7, <5>1
      <4>2. CASE stop = forward + back
        <5>1. done' = [from |-> today - depth, to |-> today - 1]
          BY <1>1, <4>2, Zenon
        <5>2. done'.from = today - depth /\ done'.to = today - 1
          BY <5>1
        <5>3. d \in 1..today - 1 /\ d >= today - depth
          BY <3>7, <5>2
        <5>4. CASE file # {} /\ d >= lo
          BY <3>5, <5>3, <5>4
        <5>5. CASE file = {} \/ d < lo
          <6>1. d <= top
            BY <1>2, <1>3, <1>4, <5>3, <5>5 DEF top
          <6> QED
            BY <1>1, <3>3, <3>4, <4>2, <5>3, <6>1
        <5> QED
          BY <1>2, <1>3, <5>3, <5>4, <5>5
      <4> QED
        BY <4>1, <4>2
    <3> QED
      BY <3>6, <3>7
  <2> QED
    BY <1>5, <2>2, <2>3
<1> HIDE DEF A, B
<1> QED
  BY <1>2, <1>7, <1>8 DEF CacheKept

(***************************************************************************)
(* Stock closes.  The strengthening: a hole between stored days lies where *)
(* no refresh reaches any more, and the closes that none has written since *)
(* the last selective pass are of one adjustment.                          *)
(***************************************************************************)
NoHole == \A d \in DOMAIN closes : \A g \in 1..d : g \in DOMAIN closes

StockKept ==
  /\ flow \in Flows /\ today \in Nat \ {0} /\ today <= LastDay[flow]
  /\ DOMAIN closes \subseteq 1..today - 1
  /\ passed \in Nat /\ passed <= today /\ regular \in BOOLEAN
  /\ \A d \in DOMAIN closes : \A g \in 1..d : g \in DOMAIN closes \/ g <= today - RefreshDays
  /\ regular /\ NoHole =>
       \A d, e \in DOMAIN closes :
         d <= passed - RefreshDays /\ e <= passed - RefreshDays => closes[d] = closes[e]

LEMMA OverFacts ==
  ASSUME NEW f, NEW g
  PROVE  /\ DOMAIN Over(f, g) = DOMAIN f \union DOMAIN g
         /\ \A k \in DOMAIN Over(f, g) :
              Over(f, g)[k] = IF k \in DOMAIN f THEN f[k] ELSE g[k]
BY DEF Over

LEMMA ServedFacts ==
  ASSUME NEW n, today \in Nat
  PROVE  /\ DOMAIN Served(n) = {d \in 1..today - 1 : d > today - n}
         /\ \A d \in DOMAIN Served(n) : Served(n)[d] = splits
BY DEF Served

LEMMA InitStockKept == InitCandles => StockKept
<1> SUFFICES ASSUME InitCandles PROVE StockKept
  OBVIOUS
<1>1. /\ flow \in Flows /\ today = Seeded + 1 /\ closes = [d \in 1..Seeded |-> 0]
      /\ passed = Seeded + 1 /\ regular = TRUE
  BY DEF InitCandles
<1>2. Seeded \in Nat \ {0} /\ LastDay[flow] \in Nat /\ Seeded < LastDay[flow]
  BY <1>1, CandleAssumption
<1>3. DOMAIN closes = 1..Seeded /\ \A d \in DOMAIN closes : closes[d] = 0
  BY <1>1
<1> QED
  BY <1>1, <1>2, <1>3 DEF StockKept

LEMMA RefreshKeeps ==
  ASSUME StockKept, Refresh, UNCHANGED <<flow, today>>
  PROVE  StockKept'
<1> DEFINE new == Served(RefreshDays)
           W == {d \in 1..today - 1 : d > today - RefreshDays}
           D == DOMAIN closes
           E == DOMAIN closes'
<1>1. /\ closes' = Over(new, closes) /\ passed' = passed /\ regular' = regular
      /\ flow' = flow /\ today' = today
  BY DEF Refresh
<1>2. /\ flow \in Flows /\ today \in Nat \ {0} /\ today <= LastDay[flow]
      /\ D \subseteq 1..today - 1
      /\ passed \in Nat /\ passed <= today /\ regular \in BOOLEAN
      /\ \A d \in D : \A g \in 1..d : g \in D \/ g <= today - RefreshDays
      /\ RefreshDays \in Nat \ {0}
  BY CandleAssumption DEF StockKept
<1>3. DOMAIN new = W
  BY <1>2, ServedFacts
<1>4. E = W \union D /\ \A d \in D : d \notin W => closes'[d] = closes[d]
  <2>1. E = W \union D
    BY <1>1, <1>3, OverFacts
  <2>2. \A d \in E : closes'[d] = IF d \in W THEN new[d] ELSE closes[d]
    <3> HIDE DEF new
    <3> QED
      BY <1>1, <1>3, OverFacts, ZenonT(40)
  <2> QED
    BY <2>1, <2>2
<1> HIDE DEF new, E, D
<1>5. E \subseteq 1..today - 1
  BY <1>2, <1>4
<1>6. \A d \in E : \A g \in 1..d : g \in E \/ g <= today - RefreshDays
  <2> SUFFICES ASSUME NEW d \in E, NEW g \in 1..d, g > today - RefreshDays
               PROVE  g \in E
    BY <1>2, <1>5
  <2>1. g \in 1..today - 1
    BY <1>2, <1>5
  <2> QED
    BY <1>4, <2>1
<1>7. ASSUME regular', NoHole', NEW d \in E, NEW e \in E,
             d <= passed - RefreshDays, e <= passed - RefreshDays
      PROVE  closes'[d] = closes'[e]
  <2>1. ASSUME NEW x \in D, NEW g \in 1..x
        PROVE  g \in D
    <3>1. g \in E
      BY <1>4, <1>7, <2>1 DEF NoHole, E
    <3>2. CASE g <= today - RefreshDays
      <4>1. g \notin W
        BY <1>2, <3>2
      <4> QED
        BY <1>4, <3>1, <4>1
    <3>3. CASE ~ (g <= today - RefreshDays)
      BY <1>2, <3>3
    <3> QED
      BY <3>2, <3>3
  <2>2. NoHole
    BY <2>1 DEF NoHole, D
  <2>3. d \in Int /\ e \in Int /\ d \notin W /\ e \notin W
    BY <1>2, <1>5, <1>7
  <2>4. d \in D /\ e \in D
    BY <1>4, <2>3
  <2>5. closes[d] = closes[e]
    BY <1>1, <1>7, <2>2, <2>4 DEF StockKept, D
  <2> QED
    BY <1>4, <2>3, <2>4, <2>5
<1> QED
  BY <1>1, <1>2, <1>5, <1>6, <1>7 DEF StockKept, E

\* A pass that did its work in time leaves closes of one adjustment: where it
\* found nothing to mend, it has seen a close of each day written since the
\* pass before, and one of those before it.
LEMMA PassIsUniform ==
  ASSUME StockKept, SelectiveBackfill
  PROVE  /\ NeedsFull => /\ DOMAIN closes' = 1..today - 1
                         /\ \A d \in DOMAIN closes' : closes'[d] = splits
         /\ ~ NeedsFull /\ regular' /\ NoHole => \A d \in DOMAIN closes : closes[d] = splits
<1> DEFINE D == DOMAIN closes
           recent == {d \in D : d > today - ProbeDays}
<1>1. /\ closes' = IF NeedsFull THEN Refilled ELSE closes
      /\ regular' = (regular /\ today - passed < ProbeDays - RefreshDays)
  BY DEF SelectiveBackfill
<1>2. /\ flow \in Flows /\ today \in Nat \ {0} /\ today <= LastDay[flow]
      /\ D \subseteq 1..today - 1
      /\ passed \in Nat /\ passed <= today
      /\ RefreshDays \in Nat \ {0} /\ ProbeDays \in Nat \ {0} /\ LastDay[flow] \in Nat
  BY CandleAssumption DEF StockKept
<1>3. ASSUME NeedsFull
      PROVE  /\ DOMAIN closes' = 1..today - 1
             /\ \A d \in DOMAIN closes' : closes'[d] = splits
  <2> DEFINE new == Served(LastDay[flow])
  <2>1. closes' = Over(new, closes)
    BY <1>1, <1>3 DEF Refilled
  <2>2. /\ DOMAIN new = {d \in 1..today - 1 : d > today - LastDay[flow]}
        /\ \A d \in DOMAIN new : new[d] = splits
    BY <1>2, ServedFacts
  <2>3. DOMAIN new = 1..today - 1
    BY <1>2, <2>2
  <2> HIDE DEF new
  <2>4. DOMAIN closes' = 1..today - 1
    BY <1>2, <2>1, <2>3, OverFacts
  <2>5. \A d \in DOMAIN closes' : closes'[d] = new[d]
    BY <2>1, <2>3, <2>4, OverFacts
  <2> QED
    BY <2>2, <2>3, <2>4, <2>5
<1>4. ASSUME ~ NeedsFull, regular', NoHole, NEW d \in D
      PROVE  closes[d] = splits
  <2>1. recent # {} /\ \A x \in recent : closes[x] = splits
    BY <1>4 DEF NeedsFull
  <2>2. regular /\ today - passed < ProbeDays - RefreshDays
    BY <1>1, <1>4
  <2>3. \A x, y \in D :
          x <= passed - RefreshDays /\ y <= passed - RefreshDays => closes[x] = closes[y]
    BY <1>4, <2>2 DEF StockKept
  <2> DEFINE old == passed - RefreshDays
  <2>4. old \in Int /\ old > today - ProbeDays
    BY <1>2, <2>2
  <2>5. CASE d > today - ProbeDays
    BY <2>1, <2>5
  <2>6. CASE ~ (d > today - ProbeDays)
    <3>1. d \in Nat /\ d >= 1 /\ d <= old
      BY <1>2, <2>4, <2>6
    <3>2. PICK x \in recent : TRUE
      BY <2>1
    <3>3. x \in D /\ x \in Nat /\ x > today - ProbeDays
      BY <1>2, <3>2
    <3>4. CASE x <= old
      <4>1. closes[d] = closes[x]
        BY <2>3, <3>1, <3>3, <3>4
      <4> QED
        BY <2>1, <3>2, <4>1
    <3>5. CASE x > old
      <4>1. old \in 1..x
        BY <2>4, <3>1, <3>3, <3>5
      <4>2. old \in D
        BY <1>4, <3>3, <4>1 DEF NoHole
      <4>3. old \in recent
        BY <2>4, <4>2
      <4>4. closes[d] = closes[old]
        BY <1>2, <2>3, <2>4, <3>1, <4>2
      <4> QED
        BY <2>1, <4>3, <4>4
    <3> QED
      BY <2>4, <3>3, <3>4, <3>5
  <2> QED
    BY <2>5, <2>6
<1> QED
  BY <1>3, <1>4

LEMMA SelectiveKeeps ==
  ASSUME StockKept, SelectiveBackfill, UNCHANGED <<flow, today>>
  PROVE  StockKept'
<1>1. /\ closes' = IF NeedsFull THEN Refilled ELSE closes
      /\ regular' = (regular /\ today - passed < ProbeDays - RefreshDays)
      /\ passed' = today
  BY DEF SelectiveBackfill
<1>2. regular' \in BOOLEAN
  BY <1>1, Zenon
<1>3. /\ flow' \in Flows /\ today' \in Nat \ {0} /\ today' <= LastDay[flow']
      /\ passed' \in Nat /\ passed' <= today' /\ RefreshDays \in Nat \ {0}
  BY <1>1, CandleAssumption DEF StockKept
<1>4. CASE NeedsFull
  <2>1. /\ DOMAIN closes' = 1..today - 1
        /\ \A d \in DOMAIN closes' : closes'[d] = splits
    BY <1>4, PassIsUniform
  <2>2. /\ DOMAIN closes' \subseteq 1..today' - 1
        /\ \A d \in DOMAIN closes' : \A g \in 1..d : g \in DOMAIN closes'
    BY <2>1, <1>3
  <2>3. \A d, e \in DOMAIN closes' : closes'[d] = closes'[e]
    BY <2>1
  <2> QED
    BY <1>2, <1>3, <2>2, <2>3 DEF StockKept
<1>5. CASE ~ NeedsFull
  <2>1. closes' = closes
    BY <1>1, <1>5
  <2>2. ASSUME regular', NoHole' PROVE \A d \in DOMAIN closes : closes[d] = splits
    <3>1. NoHole
      BY <2>1, <2>2 DEF NoHole
    <3> QED
      BY <1>5, <2>2, <3>1, PassIsUniform
  <2>3. /\ DOMAIN closes' \subseteq 1..today' - 1
        /\ \A d \in DOMAIN closes' : \A g \in 1..d :
             g \in DOMAIN closes' \/ g <= today' - RefreshDays
    BY <2>1 DEF StockKept
  <2>4. regular' /\ NoHole' => \A d, e \in DOMAIN closes' : closes'[d] = closes'[e]
    BY <2>1, <2>2
  <2> QED
    BY <1>2, <1>3, <2>3, <2>4 DEF StockKept
<1> QED
  BY <1>4, <1>5

LEMMA StockTimePasses ==
  ASSUME StockKept, NextDay
  PROVE  StockKept'
<1>1. RefreshDays \in Nat \ {0}
  BY CandleAssumption
<1> DEFINE D == DOMAIN closes
<1>2. /\ D \subseteq 1..today - 1 /\ today \in Nat \ {0}
      /\ \A d \in D : \A g \in 1..d : g \in D \/ g <= today - RefreshDays
  BY DEF StockKept
<1>3. /\ today' = today + 1 /\ today < LastDay[flow] /\ flow' = flow /\ closes' = closes
      /\ passed' = passed /\ regular' = regular
  BY DEF NextDay, stockVars
<1>4. flow \in Flows /\ LastDay[flow] \in Nat
  BY CandleAssumption DEF StockKept
<1> HIDE DEF D
<1>5. D \subseteq 1..today' - 1
  BY <1>2, <1>3
<1>6. \A d \in D : \A g \in 1..d : g \in D \/ g <= today' - RefreshDays
  <2> SUFFICES ASSUME NEW d \in D, NEW g \in 1..d, g \notin D
               PROVE  g <= today' - RefreshDays
    OBVIOUS
  <2>1. g <= today - RefreshDays /\ g \in Int
    BY <1>2
  <2> QED
    BY <1>1, <1>2, <1>3, <2>1
<1>7. NoHole' <=> NoHole
  BY <1>3 DEF NoHole
<1>8. /\ flow' \in Flows /\ today' \in Nat \ {0} /\ today' <= LastDay[flow']
      /\ passed' \in Nat /\ passed' <= today' /\ regular' \in BOOLEAN
  BY <1>2, <1>3, <1>4 DEF StockKept
<1>9. regular' /\ NoHole' =>
        \A d, e \in DOMAIN closes' : d <= passed' - RefreshDays /\ e <= passed' - RefreshDays
                                     => closes'[d] = closes'[e]
  BY <1>3, <1>7 DEF StockKept
<1>10. /\ DOMAIN closes' \subseteq 1..today' - 1
       /\ \A d \in DOMAIN closes' : \A g \in 1..d :
            g \in DOMAIN closes' \/ g <= today' - RefreshDays
  BY <1>3, <1>5, <1>6 DEF D
<1> QED
  BY <1>8, <1>9, <1>10 DEF StockKept

LEMMA StoresTimePasses ==
  ASSUME StoreInv, NextDay
  PROVE  StoreInv'
<1>1. /\ today \in Nat \ {0} /\ today' = today + 1
      /\ daily' = daily /\ backfilled' = backfilled /\ apart' = apart
      /\ file' = file /\ torn' = torn /\ done' = done
  BY DEF StoreInv, CandleType, NextDay, coinVars, cacheVars
<1>2. CandleType'
  BY <1>1 DEF StoreInv, CandleType
<1>3. ASSUME NEW c \in Coins
      PROVE  CoinKept(c)'
  <2>1. CoinKept(c)
    BY DEF StoreInv
  <2>2. backfilled[c] \in Nat /\ backfilled[c] <= today + 1
    BY <1>1, <2>1 DEF CoinKept
  <2> QED
    BY <1>1, <2>1, <2>2 DEF CoinKept
<1>4. CacheKept'
  <2>1. CacheKept
    BY DEF StoreInv
  <2>2. file \subseteq 1..(today + 1) - 1 /\ done.to \in Int /\ done.to < today + 1
    BY <1>1, <2>1 DEF CacheKept
  <2> QED
    BY <1>1, <2>1, <2>2 DEF CacheKept
<1> QED
  BY <1>2, <1>3, <1>4 DEF StoreInv

LEMMA StoresRest ==
  ASSUME UNCHANGED <<today, coinVars, cacheVars>>, StoreInv
  PROVE  StoreInv'
BY DEF StoreInv, CandleType, CoinKept, CacheKept, coinVars, cacheVars

LEMMA ClosesRest ==
  ASSUME UNCHANGED <<flow, today, closes, passed, regular>>, StockKept
  PROVE  StockKept'
BY DEF StockKept, NoHole

\* A coin's backfill leaves the other stores as they were.
LEMMA OtherStoresRest ==
  ASSUME UNCHANGED <<today, cacheVars>>, CandleType', \A c \in Coins : CoinKept(c)', StoreInv
  PROVE  StoreInv'
BY DEF StoreInv, CacheKept, cacheVars

StoresKept == StoreInv /\ StockKept

LEMMA TradeLeavesStores ==
  ASSUME StoresKept, TradeStep
  PROVE  StoresKept'
<1>1. UNCHANGED <<flow, today, cacheVars, stockVars>>
  BY DEF TradeStep, Boot, BackfillCoins, Start, Plan, Fail, Commit, Snapshot, Report, PowerOff
<1>2. StockKept'
  BY <1>1, ClosesRest DEF StoresKept, stockVars
<1>3. CASE BackfillCoins
  <2>1. PICK failed \in SUBSET Coins : BackfillDaily(failed)
    BY <1>3 DEF BackfillCoins
  <2>2. CandleType' /\ \A c \in Coins : CoinKept(c)'
    BY <1>1, <2>1, FillKeeps DEF StoresKept, StoreInv
  <2> QED
    BY <1>1, <1>2, <2>2, OtherStoresRest DEF StoresKept
<1>4. CASE ~ BackfillCoins
  <2>1. UNCHANGED coinVars
    BY <1>4 DEF TradeStep, Boot, Start, Plan, Fail, Commit, Snapshot, Report, PowerOff
  <2> QED
    BY <1>1, <1>2, <2>1, StoresRest DEF StoresKept
<1> QED
  BY <1>3, <1>4

LEMMA StoresStep ==
  ASSUME StoresKept, [Next]_vmVars
  PROVE  StoresKept'
<1>1. CASE NextDay
  BY <1>1, StoresTimePasses, StockTimePasses DEF StoresKept
<1>2. CASE FillStep
  <2>1. PICK failed \in SUBSET Coins : BackfillDaily(failed)
    BY <1>2 DEF FillStep
  <2>2. UNCHANGED <<flow, today, cacheVars, stockVars>>
    BY <1>2 DEF FillStep
  <2>3. CandleType' /\ \A c \in Coins : CoinKept(c)'
    BY <2>1, <2>2, FillKeeps DEF StoresKept, StoreInv
  <2> QED
    BY <2>2, <2>3, OtherStoresRest, ClosesRest DEF StoresKept, stockVars
<1>3. CASE CacheStep
  <2>1. UNCHANGED <<flow, today, coinVars, stockVars>> /\ LastDay[flow] \in Nat
    BY <1>3, CandleAssumption DEF CacheStep, StoresKept, StockKept
  <2>2. PICK depth \in Depths, stop \in Nat : Backfill(depth, stop)
    BY <1>3, <2>1 DEF CacheStep
  <2>3. CacheKept'
    BY <2>1, <2>2, CacheKeeps DEF StoresKept, StoreInv
  <2>4. StoreInv'
    BY <2>1, <2>3 DEF StoresKept, StoreInv, CandleType, CoinKept, coinVars
  <2> QED
    BY <2>1, <2>4, ClosesRest DEF StoresKept, stockVars
<1>4. CASE StockStep
  <2>1. UNCHANGED <<flow, today, coinVars, cacheVars>>
    BY <1>4 DEF StockStep
  <2>2. StoreInv'
    BY <2>1, StoresRest DEF StoresKept
  <2>3. CASE Split
    BY <2>1, <2>2, <2>3, ClosesRest DEF StoresKept, Split
  <2>4. CASE Refresh
    BY <2>1, <2>2, <2>4, RefreshKeeps DEF StoresKept
  <2>5. CASE SelectiveBackfill
    BY <2>1, <2>2, <2>5, SelectiveKeeps DEF StoresKept
  <2> QED
    BY <1>4, <2>3, <2>4, <2>5 DEF StockStep
<1>5. CASE TradeStep
  BY <1>5, TradeLeavesStores
<1>6. CASE UNCHANGED candleVars
  BY <1>6, StoresRest, ClosesRest DEF StoresKept, candleVars, stockVars
<1> QED
  BY <1>1, <1>2, <1>3, <1>4, <1>5, <1>6 DEF Next, SchemaStep, UpkeepStep, vmVars

LEMMA StoresInvariant == Spec => []StoresKept
<1>1. Init => StoresKept
  BY InitStoreInv, InitStockKept DEF Init, StoresKept
<1> QED
  BY <1>1, StoresStep, PTL DEF Spec

(***************************************************************************)
(* For any pages, windows, listings and requests that fail: candles_1d has *)
(* no hole up to a coin's last backfill, and the cache of minutes none in  *)
(* what a completed backfill was asked for (backfill_daily.py,             *)
(* upbit_daily.fetch_daily, upbit_candles._backfill_one).                  *)
(***************************************************************************)
THEOREM StoresHaveNoHole == Spec => []StoresAreWhole
<1>1. StoresKept => CoinDaysAreWhole
  <2> SUFFICES ASSUME StoresKept, NEW c \in Coins, daily[c] # {}, apart[c] <= Days
               PROVE  Gapless(daily[c], Min(daily[c]), backfilled[c] - 1)
    BY DEF CoinDaysAreWhole
  <2>1. Listed[c] \in Nat \ {0}
    BY CandleAssumption
  <2>2. CoinKept(c)
    BY DEF StoresKept, StoreInv
  <2>3. daily[c] \in SUBSET Nat
    BY <2>1, <2>2 DEF CoinKept
  <2>4. Min(daily[c]) \in daily[c]
    BY <2>3, MinOfNat
  <2>5. Min(daily[c])..backfilled[c] - 1 \subseteq daily[c]
    BY <2>2, <2>4 DEF CoinKept
  <2> QED
    BY <2>5 DEF Gapless
<1>2. StoresKept => CacheResumes
  <2> SUFFICES ASSUME StoresKept, ~ torn,
                      NEW d \in Max({1, done.from})..done.to
               PROVE  d \in file
    BY DEF CacheResumes, Gapless
  <2>1. /\ done.from \in Int /\ done.to \in Int
        /\ \A x \in 1..done.to : x >= done.from => x \in file
    BY DEF StoresKept, StoreInv, CacheKept
  <2> DEFINE S == {1, done.from}
             n == IF done.from < 1 THEN 1 ELSE done.from
  <2>2. S \in SUBSET Int /\ S # {} /\ n \in Int /\ \A x \in S : x <= n
    BY <2>1
  <2> HIDE DEF S, n
  <2>3. Max(S) \in S /\ \A y \in S : y <= Max(S)
    BY <2>2, MaxOfInt
  <2>4. Max(S) \in Int /\ 1 <= Max(S) /\ done.from <= Max(S)
    BY <2>2, <2>3 DEF S
  <2>5. d \in Max(S)..done.to
    BY DEF S
  <2>6. d \in 1..done.to /\ d >= done.from
    BY <2>1, <2>4, <2>5
  <2> QED
    BY <2>1, <2>6
<1>3. StoresKept => StoresAreWhole
  BY <1>1, <1>2 DEF StoresAreWhole
<1> QED
  BY <1>3, StoresInvariant, PTL

(***************************************************************************)
(* For any windows and any splits: a selective pass leaves closes of one   *)
(* adjustment, if the passes were never further apart than the probe       *)
(* reaches beyond the daily refresh and the store has no hole              *)
(* (selective_stock_backfill._needs_full, refresh_stock_daily.refresh).    *)
(***************************************************************************)
THEOREM OneFactorAfterPass == Spec => OneFactor
<1>1. StoresKept /\ [Next]_vmVars => OneAdjustment
  <2> SUFFICES ASSUME StoresKept, SelectiveBackfill, regular',
                      Gapless(DOMAIN closes, 1, Max(DOMAIN closes))
               PROVE  \A d \in DOMAIN closes' : closes'[d] = splits
    BY DEF OneAdjustment
  <2>1. StockKept
    BY DEF StoresKept
  <2>2. CASE NeedsFull
    BY <2>1, <2>2, PassIsUniform
  <2>3. CASE ~ NeedsFull
    <3> DEFINE D == DOMAIN closes
    <3>1. today \in Nat \ {0} /\ D \subseteq 1..today - 1
      BY <2>1 DEF StockKept
    <3>2. closes' = closes
      BY <2>3 DEF SelectiveBackfill
    <3>3. ASSUME NEW d \in D, NEW g \in 1..d
          PROVE  g \in D
      <4>1. D \in SUBSET Nat /\ D # {} /\ today \in Nat /\ \A x \in D : x <= today
        BY <3>1
      <4> HIDE DEF D
      <4>2. Max(D) \in Nat /\ d \in Nat /\ d <= Max(D)
        BY <4>1, MaxOfNat
      <4>3. g \in 1..Max(D)
        BY <4>2
      <4> QED
        BY <4>3 DEF Gapless, D
    <3>4. NoHole
      BY <3>3 DEF NoHole
    <3> QED
      BY <2>1, <2>3, <3>2, <3>4, PassIsUniform
  <2> QED
    BY <2>2, <2>3
<1>2. StoresKept /\ [Next]_vmVars => [OneAdjustment]_candleVars
  BY <1>1
<1> QED
  BY <1>2, StoresInvariant, PTL DEF Spec, OneFactor
=============================================================================
