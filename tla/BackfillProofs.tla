--------------------------- MODULE BackfillProofs ---------------------------
(***************************************************************************)
(* Theorems about Backfill, for any bucket sizes, windows and number of    *)
(* runs: what the tables hold, and what the queries make of it.            *)
(*                                                                         *)
(* The inductive invariant says that every bucket is what it would be if   *)
(* it were computed anew from the rows.                                    *)
(***************************************************************************)
EXTENDS Backfill, SetLemmas, FunctionTheorems

-----------------------------------------------------------------------------
(* Buckets.                                                                *)

\* The bucket of a second is one of the table's, and later seconds have later
\* buckets.
LEMMA BucketType ==
  ASSUME NEW z \in Sizes, NEW ts \in Times
  PROVE  Bucket(ts, z) \in Times
BY RollupsAssumption DEF Bucket, Times, Sizes

LEMMA BucketMonotonic ==
  ASSUME NEW z \in Sizes, NEW a \in Times, NEW b \in Times, a <= b
  PROVE  Bucket(a, z) <= Bucket(b, z)
BY RollupsAssumption DEF Bucket, Times, Sizes

-----------------------------------------------------------------------------
(* The least and the greatest of a finite set.                             *)

LEMMA MinExists ==
  ASSUME NEW S \in SUBSET Int, IsFiniteSet(S), S # {}
  PROVE  Min(S) \in S /\ \A y \in S : Min(S) <= y
<1> DEFINE B == {s \in SUBSET S : s # {} => \E m \in s : \A y \in s : m <= y}
<1>1. ASSUME NEW A \in SUBSET S, \A U \in SUBSET A : U # A => U \in B
      PROVE  A \in B
  <2> SUFFICES ASSUME NEW x \in A PROVE \E m \in A : \A y \in A : m <= y
    OBVIOUS
  <2>1. CASE A = {x}
    BY <2>1
  <2>2. CASE A \ {x} # {}
    <3>1. A \ {x} \in B
      BY <1>1
    <3>2. PICK m \in A \ {x} : \A y \in A \ {x} : m <= y
      BY <2>2, <3>1
    <3>3. CASE m <= x
      BY <3>2, <3>3
    <3>4. CASE x < m
      <4>1. \A y \in A : x <= y
        BY <3>2, <3>4
      <4> QED
        BY <4>1
    <3> QED
      BY <3>3, <3>4
  <2> QED
    BY <2>1, <2>2
<1>2. S \in B
  <2>1. \A A \in SUBSET S : A \in B
    <3> HIDE DEF B
    <3> QED
      BY <1>1, SetInduction
  <2> QED
    BY <2>1
<1>3. \E m \in S : \A y \in S : m <= y
  BY <1>2
<1> QED
  BY <1>3 DEF Min

LEMMA MaxExists ==
  ASSUME NEW S \in SUBSET Int, IsFiniteSet(S), S # {}
  PROVE  Max(S) \in S /\ \A y \in S : y <= Max(S)
<1> DEFINE B == {s \in SUBSET S : s # {} => \E m \in s : \A y \in s : y <= m}
<1>1. ASSUME NEW A \in SUBSET S, \A U \in SUBSET A : U # A => U \in B
      PROVE  A \in B
  <2> SUFFICES ASSUME NEW x \in A PROVE \E m \in A : \A y \in A : y <= m
    OBVIOUS
  <2>1. CASE A = {x}
    BY <2>1
  <2>2. CASE A \ {x} # {}
    <3>1. A \ {x} \in B
      BY <1>1
    <3>2. PICK m \in A \ {x} : \A y \in A \ {x} : y <= m
      BY <2>2, <3>1
    <3>3. CASE x <= m
      BY <3>2, <3>3
    <3>4. CASE m < x
      <4>1. \A y \in A : y <= x
        BY <3>2, <3>4
      <4> QED
        BY <4>1
    <3> QED
      BY <3>3, <3>4
  <2> QED
    BY <2>1, <2>2
<1>2. S \in B
  <2>1. \A A \in SUBSET S : A \in B
    <3> HIDE DEF B
    <3> QED
      BY <1>1, SetInduction
  <2> QED
    BY <2>1
<1>3. \E m \in S : \A y \in S : y <= m
  BY <1>2
<1> QED
  BY <1>3 DEF Max

LEMMA PairFinite == ASSUME NEW a, NEW b PROVE IsFiniteSet({a, b})
<1>1. IsFiniteSet({a})
  BY FS_Singleton
<1>2. IsFiniteSet({a} \cup {b})
  BY <1>1, FS_AddElement
<1>3. {a} \cup {b} = {a, b}
  OBVIOUS
<1> QED
  BY <1>2, <1>3

\* They can be kept as elements come in, as the upsert does.
LEMMA MinAdd ==
  ASSUME NEW S \in SUBSET Int, IsFiniteSet(S), S # {}, NEW x \in Int
  PROVE  Min(S \cup {x}) = Min({Min(S), x})
<1> DEFINE m == Min(S)
           n == Min(S \cup {x})
           k == Min({m, x})
<1>1. m \in S /\ \A y \in S : m <= y
  BY MinExists
<1>2. n \in S \cup {x} /\ \A y \in S \cup {x} : n <= y
  BY FS_AddElement, MinExists
<1>3. k \in {m, x} /\ k <= m /\ k <= x
  <2> DEFINE U == {m, x}
  <2>1. U = {m} \cup {x} /\ U \in SUBSET Int /\ m \in U /\ x \in U
    BY <1>1
  <2>2. IsFiniteSet(U)
    BY PairFinite
  <2>3. k = Min(U)
    OBVIOUS
  <2> HIDE DEF U, m, k
  <2>4. Min(U) \in U /\ \A y \in U : Min(U) <= y
    BY <2>1, <2>2, MinExists
  <2> QED
    BY <2>1, <2>3, <2>4 DEF U
<1> HIDE DEF m, n, k
<1>4. m \in Int /\ n \in Int /\ k \in Int
  BY <1>1, <1>2, <1>3
<1>5. n <= k
  BY <1>1, <1>2, <1>3
<1>6. k <= n
  BY <1>1, <1>2, <1>3, <1>4
<1>7. n = k
  BY <1>4, <1>5, <1>6
<1> QED
  BY <1>7 DEF m, n, k

LEMMA MaxAdd ==
  ASSUME NEW S \in SUBSET Int, IsFiniteSet(S), S # {}, NEW x \in Int
  PROVE  Max(S \cup {x}) = Max({Max(S), x})
<1> DEFINE m == Max(S)
           n == Max(S \cup {x})
           k == Max({m, x})
<1>1. m \in S /\ \A y \in S : y <= m
  BY MaxExists
<1>2. n \in S \cup {x} /\ \A y \in S \cup {x} : y <= n
  BY FS_AddElement, MaxExists
<1>3. k \in {m, x} /\ m <= k /\ x <= k
  <2> DEFINE U == {m, x}
  <2>1. U = {m} \cup {x} /\ U \in SUBSET Int /\ m \in U /\ x \in U
    BY <1>1
  <2>2. IsFiniteSet(U)
    BY PairFinite
  <2>3. k = Max(U)
    OBVIOUS
  <2> HIDE DEF U, m, k
  <2>4. Max(U) \in U /\ \A y \in U : y <= Max(U)
    BY <2>1, <2>2, MaxExists
  <2> QED
    BY <2>1, <2>3, <2>4 DEF U
<1> HIDE DEF m, n, k
<1>4. m \in Int /\ n \in Int /\ k \in Int
  BY <1>1, <1>2, <1>3
<1>5. k <= n
  BY <1>1, <1>2, <1>3
<1>6. n <= k
  BY <1>1, <1>2, <1>3, <1>4
<1>7. n = k
  BY <1>4, <1>5, <1>6
<1> QED
  BY <1>7 DEF m, n, k

-----------------------------------------------------------------------------
(* What rows stand for: seconds, and power.                                *)

\* Rows are split into the live and the reconstructed ones.
LEMMA CountType ==
  ASSUME NEW S, IsFiniteSet(S)
  PROVE  SampleCount(S) \in Nat
<1>1. IsFiniteSet(LiveRows(S)) /\ IsFiniteSet(S \ LiveRows(S))
  BY FS_Subset DEF LiveRows
<1>2. Cardinality(LiveRows(S)) \in Nat /\ Cardinality(S \ LiveRows(S)) \in Nat
  BY <1>1, FS_CardinalityType
<1>3. QED
  BY <1>2, RollupsAssumption DEF SampleCount

\* A new live row adds one second.
LEMMA CountLive ==
  ASSUME NEW S, IsFiniteSet(S), NEW r, r \notin S, r.source = "live"
  PROVE  SampleCount(S \cup {r}) = SampleCount(S) + 1
<1>1. LiveRows(S \cup {r}) = LiveRows(S) \cup {r}
  BY DEF LiveRows
<1>2. (S \cup {r}) \ LiveRows(S \cup {r}) = S \ LiveRows(S)
  BY DEF LiveRows
<1>3. IsFiniteSet(LiveRows(S)) /\ IsFiniteSet(S \ LiveRows(S))
  BY FS_Subset DEF LiveRows
<1>4. Cardinality(LiveRows(S) \cup {r}) = Cardinality(LiveRows(S)) + 1
  BY <1>3, FS_AddElement DEF LiveRows
<1>5. Cardinality(LiveRows(S)) \in Nat /\ Cardinality(S \ LiveRows(S)) \in Nat
  BY <1>3, FS_CardinalityType
<1>6. MeterWeight * Cardinality(S \ LiveRows(S)) \in Nat
  BY <1>5, RollupsAssumption
<1>7. SampleCount(S \cup {r}) = (Cardinality(LiveRows(S)) + 1)
                                  + MeterWeight * Cardinality(S \ LiveRows(S))
  BY <1>1, <1>2, <1>4, Zenon DEF SampleCount
<1>8. QED
  BY <1>5, <1>6, <1>7 DEF SampleCount

LEMMA DisjointUnion ==
  ASSUME NEW S, NEW T, IsFiniteSet(S), IsFiniteSet(T), S \cap T = {}
  PROVE  Cardinality(S \cup T) = Cardinality(S) + Cardinality(T)
<1>1. Cardinality(S) \in Nat /\ Cardinality(T) \in Nat
  BY FS_CardinalityType
<1>2. Cardinality(S \cap T) = 0
  BY FS_EmptySet
<1>3. Cardinality(S \cup T) = Cardinality(S) + Cardinality(T) - Cardinality(S \cap T)
  BY FS_Union
<1> QED
  BY <1>1, <1>2, <1>3

\* Seconds add up over rows that are not the same.
LEMMA CountUnion ==
  ASSUME NEW S, NEW T, IsFiniteSet(S), IsFiniteSet(T), S \cap T = {}
  PROVE  SampleCount(S \cup T) = SampleCount(S) + SampleCount(T)
<1> DEFINE ls == Cardinality(LiveRows(S))
           lt == Cardinality(LiveRows(T))
           ms == Cardinality(S \ LiveRows(S))
           mt == Cardinality(T \ LiveRows(T))
<1>1. /\ LiveRows(S \cup T) = LiveRows(S) \cup LiveRows(T)
      /\ (S \cup T) \ LiveRows(S \cup T) = (S \ LiveRows(S)) \cup (T \ LiveRows(T))
      /\ LiveRows(S) \cap LiveRows(T) = {}
      /\ (S \ LiveRows(S)) \cap (T \ LiveRows(T)) = {}
  BY DEF LiveRows
<1>2. /\ IsFiniteSet(LiveRows(S)) /\ IsFiniteSet(S \ LiveRows(S))
      /\ IsFiniteSet(LiveRows(T)) /\ IsFiniteSet(T \ LiveRows(T))
  BY FS_Subset DEF LiveRows
<1>3. ls \in Nat /\ lt \in Nat /\ ms \in Nat /\ mt \in Nat
  BY <1>2, FS_CardinalityType
<1>5. Cardinality(LiveRows(S \cup T)) = ls + lt
  BY <1>1, <1>2, DisjointUnion
<1>6. Cardinality((S \cup T) \ LiveRows(S \cup T)) = ms + mt
  BY <1>1, <1>2, DisjointUnion
<1>7. /\ SampleCount(S \cup T) = (ls + lt) + MeterWeight * (ms + mt)
      /\ SampleCount(S) = ls + MeterWeight * ms
      /\ SampleCount(T) = lt + MeterWeight * mt
  BY <1>5, <1>6, Zenon DEF SampleCount
<1> HIDE DEF ls, lt, ms, mt
<1>8. MeterWeight * (ms + mt) = MeterWeight * ms + MeterWeight * mt
      /\ MeterWeight * ms \in Nat /\ MeterWeight * mt \in Nat
  BY <1>3, RollupsAssumption
<1> QED
  BY <1>3, <1>7, <1>8

\* Every row stands for some time.
LEMMA CountPositive ==
  ASSUME NEW S, IsFiniteSet(S), S # {}
  PROVE  SampleCount(S) > 0
<1> DEFINE l == Cardinality(LiveRows(S))
           m == Cardinality(S \ LiveRows(S))
<1>1. IsFiniteSet(LiveRows(S)) /\ IsFiniteSet(S \ LiveRows(S))
  BY FS_Subset DEF LiveRows
<1>2. l \in Nat /\ m \in Nat
  BY <1>1, FS_CardinalityType
<1>3. l # 0 \/ m # 0
  BY <1>1, FS_EmptySet DEF LiveRows
<1>4. SampleCount(S) = l + MeterWeight * m
  BY DEF SampleCount
<1> HIDE DEF l, m
<1>5. MeterWeight * m \in Nat /\ (m # 0 => MeterWeight * m > 0)
  BY <1>2, RollupsAssumption
<1> QED
  BY <1>2, <1>3, <1>4, <1>5

\* A row's power in the sum.
Weighed(R) == [r \in R |-> IF r.source = "live" THEN r.kw ELSE r.kw * MeterWeight]

LEMMA PowerSumIs ==
  ASSUME NEW R, IsFiniteSet(R)
  PROVE  PowerSum(R) = Total(Weighed(R), R)
<1> DEFINE f(r) == IF r.source = "live" THEN r.kw ELSE r.kw * MeterWeight
           P(g) == g = [s \in SUBSET R |->
                          IF s = {} THEN 0
                          ELSE f(CHOOSE x \in s : TRUE) + g[s \ {CHOOSE x \in s : TRUE}]]
           iter == CHOOSE g : P(g)
<1>1. PowerSum(R) = iter[R]
  BY DEF PowerSum, MapThenSumSet, MapThenFoldSet
<1>2. \A s \in SUBSET R : s # {} => Weighed(R)[Pick(s)] = f(Pick(s))
  BY PickType DEF Weighed
<1> HIDE DEF f
<1>3. ASSUME NEW g PROVE P(g) <=> IsSum(Weighed(R), R, g)
  BY <1>2 DEF IsSum, Pick
<1> HIDE DEF P
<1>4. P(iter)
  BY <1>3, SumExists
<1> QED
  BY <1>1, <1>3, <1>4, TotalIs

LEMMA WeighedType ==
  ASSUME NEW R \in SUBSET Rows
  PROVE  \A r \in R : Weighed(R)[r] \in Int
BY RollupsAssumption DEF Weighed, Rows

LEMMA PowerSumType ==
  ASSUME NEW R \in SUBSET Rows, IsFiniteSet(R)
  PROVE  PowerSum(R) \in Int
BY PowerSumIs, WeighedType, TotalType

\* Power adds up as well.
LEMMA PowerSumUnion ==
  ASSUME NEW S \in SUBSET Rows, NEW T \in SUBSET Rows, IsFiniteSet(S), IsFiniteSet(T),
         S \cap T = {}
  PROVE  PowerSum(S \cup T) = PowerSum(S) + PowerSum(T)
<1> DEFINE w == Weighed(S \cup T)
<1>1. IsFiniteSet(S \cup T) /\ S \cup T \in SUBSET Rows
  BY FS_Union
<1>2. \A r \in S \cup T : w[r] \in Int
  BY <1>1, WeighedType
<1>3. \A r \in S : Weighed(S)[r] = w[r]
  BY DEF Weighed
<1>4. \A r \in T : Weighed(T)[r] = w[r]
  BY DEF Weighed
<1> HIDE DEF w
<1>5. PowerSum(S) = Total(w, S) /\ PowerSum(T) = Total(w, T)
  BY <1>3, <1>4, PowerSumIs, TotalSame
<1>6. Total(w, S \cup T) = Total(w, S) + Total(w, T)
  BY <1>2, TotalUnion
<1> QED
  BY <1>1, <1>5, <1>6, PowerSumIs DEF w

LEMMA PowerSumEmpty == PowerSum({}) = 0
BY PowerSumIs, TotalEmpty, FS_EmptySet

\* A new live row adds its power.
LEMMA PowerSumLive ==
  ASSUME NEW S \in SUBSET Rows, IsFiniteSet(S), NEW r \in Rows, r \notin S, r.source = "live"
  PROVE  PowerSum(S \cup {r}) = PowerSum(S) + r.kw
<1> DEFINE w == Weighed({r})
<1>1. IsFiniteSet({r})
  BY FS_Singleton
<1>2. w[r] = r.kw /\ r.kw \in Int
  BY DEF Weighed, Rows
<1>3. Total(w, {r}) = w[r] + Total(w, {})
  <2>1. {r} \ {r} = {} /\ \A x \in {r} : w[x] \in Int
    BY <1>2
  <2> HIDE DEF w
  <2> QED
    BY <1>1, <2>1, TotalRemove
<1>4. PowerSum({r}) = r.kw
  BY <1>1, <1>2, <1>3, TotalEmpty, PowerSumIs
<1> QED
  BY <1>1, <1>4, PowerSumUnion

-----------------------------------------------------------------------------
(* A bucket.                                                               *)

\* What a table holds of the rows of a bucket.
Bucketed(S) ==
  IF S = {} THEN NoBucket
  ELSE [n   |-> SampleCount(S),
        sum |-> PowerSum(S),
        lo  |-> Min({r.kwh : r \in S}),
        hi  |-> Max({r.kwh : r \in S})]

LEMMA RecomputeIs ==
  ASSUME NEW R, NEW z, NEW b
  PROVE  Recompute(R, z, b) = Bucketed(InBucket(R, z, b))
BY DEF Recompute, Bucketed

\* The counters of finitely many rows.
LEMMA Counters ==
  ASSUME NEW S \in SUBSET Rows, IsFiniteSet(S)
  PROVE  {r.kwh : r \in S} \in SUBSET Int /\ IsFiniteSet({r.kwh : r \in S})
<1> DEFINE K == {r.kwh : r \in S}
           f == [r \in S |-> r.kwh]
<1>1. f \in Surjection(S, K)
  BY Fun_IsSurj
<1>2. IsFiniteSet(K)
  BY <1>1, FS_Surjection
<1> QED
  BY <1>2 DEF Rows

LEMMA BucketedType ==
  ASSUME NEW S \in SUBSET Rows, IsFiniteSet(S)
  PROVE  Bucketed(S) \in Buckets
<1>1. CASE S = {}
  BY <1>1 DEF Bucketed, NoBucket, Buckets
<1>2. CASE S # {}
  <2>1. SampleCount(S) \in Nat /\ PowerSum(S) \in Int
    BY CountType, PowerSumType
  <2>2. Min({r.kwh : r \in S}) \in Int /\ Max({r.kwh : r \in S}) \in Int
    BY <1>2, Counters, MinExists, MaxExists
  <2> QED
    BY <1>2, <2>1, <2>2 DEF Bucketed, Buckets
<1> QED
  BY <1>1, <1>2

\* The bucket is there if it has rows.
LEMMA BucketedEmpty ==
  ASSUME NEW S, IsFiniteSet(S)
  PROVE  /\ Bucketed(S) = NoBucket <=> S = {}
         /\ Bucketed(S).n = SampleCount(S)
         /\ Bucketed(S).sum = PowerSum(S)
<1>1. CASE S = {}
  <2>1. LiveRows({}) = {} /\ {} \ LiveRows({}) = {} /\ Cardinality({}) = 0
    BY FS_EmptySet DEF LiveRows
  <2>2. SampleCount({}) = 0 + MeterWeight * 0
    BY <2>1, Zenon DEF SampleCount
  <2>3. MeterWeight * 0 = 0
    BY RollupsAssumption
  <2> QED
    BY <1>1, <2>2, <2>3, PowerSumEmpty DEF Bucketed, NoBucket
<1>2. CASE S # {}
  BY <1>2, CountPositive DEF Bucketed, NoBucket
<1> QED
  BY <1>1, <1>2

\* The upsert makes of a bucket what the rebuild makes of it with the new row.
LEMMA UpsertIsRebuild ==
  ASSUME NEW S \in SUBSET Rows, IsFiniteSet(S), NEW r \in Rows, r \notin S,
         r.source = "live"
  PROVE  Upsert(Bucketed(S), r) = Bucketed(S \cup {r})
<1> DEFINE K == {q.kwh : q \in S}
<1>1. {q.kwh : q \in S \cup {r}} = K \cup {r.kwh}
  OBVIOUS
<1>2. SampleCount(S \cup {r}) = SampleCount(S) + 1 /\ PowerSum(S \cup {r}) = PowerSum(S) + r.kw
  BY CountLive, PowerSumLive
<1>3. CASE S = {}
  <2>1. SampleCount(S) = 0 /\ PowerSum(S) = 0 /\ r.kw \in Int /\ r.kwh \in Int
    BY <1>3, BucketedEmpty DEF Bucketed, NoBucket, Rows
  <2>2. Min({r.kwh}) = r.kwh /\ Max({r.kwh}) = r.kwh
    <3>1. IsFiniteSet({r.kwh}) /\ {r.kwh} \in SUBSET Int
      BY <2>1, FS_Singleton
    <3> QED
      BY <3>1, MinExists, MaxExists
  <2>3. {q.kwh : q \in S \cup {r}} = {r.kwh}
    BY <1>3
  <2>4. SampleCount(S \cup {r}) = 1 /\ PowerSum(S \cup {r}) = r.kw
    BY <1>2, <2>1
  <2> QED
    BY <1>3, <2>2, <2>3, <2>4 DEF Bucketed, Upsert
<1>4. CASE S # {}
  <2>1. Bucketed(S) # NoBucket
    BY <1>4, BucketedEmpty
  <2>2. K \in SUBSET Int /\ IsFiniteSet(K) /\ K # {} /\ r.kwh \in Int
    BY <1>4, Counters DEF Rows
  <2>3. Min(K \cup {r.kwh}) = Min({Min(K), r.kwh}) /\ Max(K \cup {r.kwh}) = Max({Max(K), r.kwh})
    <3> HIDE DEF K
    <3> QED
      BY <2>2, MinAdd, MaxAdd
  <2>4. Bucketed(S) = [n |-> SampleCount(S), sum |-> PowerSum(S), lo |-> Min(K), hi |-> Max(K)]
    BY <1>4 DEF Bucketed
  <2>5. Bucketed(S \cup {r}) = [n |-> SampleCount(S) + 1, sum |-> PowerSum(S) + r.kw,
                                lo |-> Min({Min(K), r.kwh}), hi |-> Max({Max(K), r.kwh})]
    BY <1>1, <1>2, <2>3 DEF Bucketed
  <2> HIDE DEF K
  <2> QED
    BY <2>1, <2>4, <2>5 DEF Upsert
<1> QED
  BY <1>3, <1>4

-----------------------------------------------------------------------------
(* The invariant.                                                          *)

\* The clock, the tables and the numbers of the rows.
TablesInv ==
  /\ now \in Times
  /\ live \in Nat
  /\ fills \in Nat
  /\ rows \subseteq Rows
  /\ IsFiniteSet(rows)
  /\ \A r \in rows : r.source = "live" => r.tx < live
  /\ meters \subseteq Meters
  /\ IsFiniteSet(meters)

\* A rollup table has a place for every bucket.
ShapeInv ==
  /\ rollup = [z \in Sizes |-> rollup[z]]
  /\ \A z \in Sizes : rollup[z] = [b \in Times |-> rollup[z][b]]

\* What a run holds: the gap that it is about to fill, and samples inside it.
ToolInv ==
  /\ pc \in [Tools -> {"idle", "next", "fill", "done"}]
  /\ queue \in [Tools -> SUBSET GapRecords]
  /\ gap \in [Tools -> GapRecords]
  /\ samples \in [Tools -> SUBSET Meters]
  /\ upto \in [Tools -> Times]
  /\ window \in [Tools -> Windows \cup {NoWindow}]
  /\ alone \in BOOLEAN
  /\ \A t \in Tools :
       /\ IsFiniteSet(samples[t])
       /\ \A m \in samples[t] : gap[t].lo <= m.ts /\ m.ts < gap[t].hi

\* Every bucket is what its rows make it.
BucketsFollow ==
  \A z \in Sizes, b \in Times : rollup[z][b] = Bucketed(InBucket(rows, z, b))

Inv == TablesInv /\ ShapeInv /\ ToolInv /\ BucketsFollow

\* The rows of a bucket are finitely many.
LEMMA BucketRows ==
  ASSUME TablesInv, NEW z, NEW b
  PROVE  InBucket(rows, z, b) \in SUBSET Rows /\ IsFiniteSet(InBucket(rows, z, b))
BY FS_Subset DEF TablesInv, InBucket

\* Where the run's window ends, at the last row if that is earlier.
LEMMA LastSeen ==
  ASSUME TablesInv, rows # {}, NEW e \in Times
  PROVE  LET T == {r.ts : r \in rows}
             u == Min({e, Max(T)})
         IN  u \in Times /\ u <= e /\ \E r \in rows : u <= r.ts
<1> DEFINE T == {r.ts : r \in rows}
           m == Max(T)
           U == {e, m}
           u == Min(U)
<1>1. T \in SUBSET Times /\ T # {}
  BY DEF TablesInv, Rows
<1>2. IsFiniteSet(T)
  <2>1. T \in SUBSET Nat /\ MaxTime \in Nat /\ \A x \in T : x <= MaxTime
    BY <1>1, RollupsAssumption DEF Times
  <2> HIDE DEF T
  <2> QED
    BY <2>1, FS_BoundedSetOfNaturals
<1> HIDE DEF T
<1>3. m \in T
  <2>1. T \in SUBSET Int
    BY <1>1 DEF Times
  <2> QED
    BY <1>1, <1>2, <2>1, MaxExists
<1> HIDE DEF m
<1>4. m \in Times /\ \E r \in rows : r.ts = m
  BY <1>1, <1>3 DEF T
<1>5. U \in SUBSET Int /\ IsFiniteSet(U) /\ U # {} /\ e \in U /\ m \in U
  BY <1>4, PairFinite DEF Times
<1>6. u \in U /\ u <= e /\ u <= m
  <2> HIDE DEF U
  <2> QED
    BY <1>5, MinExists
<1>7. u \in Times /\ u <= e /\ \E r \in rows : u <= r.ts
  BY <1>4, <1>6
<1> QED
  BY <1>7 DEF T, m

LEMMA InitInv == Init => Inv
<1> SUFFICES ASSUME Init PROVE Inv
  OBVIOUS
<1> USE RollupsAssumption DEF Init
<1>1. TablesInv
  BY FS_EmptySet DEF TablesInv, Times
<1>2. ShapeInv
  BY DEF ShapeInv
<1>3. ToolInv
  BY FS_EmptySet DEF ToolInv, GapRecords, NoGap, Times
<1>4. ASSUME NEW z \in Sizes, NEW b \in Times
      PROVE  rollup[z][b] = Bucketed(InBucket(rows, z, b))
  BY DEF InBucket, Bucketed
<1>5. QED
  BY <1>1, <1>2, <1>3, <1>4 DEF Inv, BucketsFollow

-----------------------------------------------------------------------------
(* The steps that write.                                                   *)

\* A rebuild makes the buckets in its range from their rows, and the others are
\* as they were.
LEMMA RebuildFollows ==
  ASSUME NEW R, NEW since, NEW until, ShapeInv,
         \A z \in Sizes, b \in Times :
           b \notin Bucket(since, z) .. Bucket(until, z) =>
             rollup[z][b] = Bucketed(InBucket(R, z, b)),
         rollup' = RebuildRange(rollup, R, since, until)
  PROVE  /\ ShapeInv'
         /\ \A z \in Sizes, b \in Times :
              rollup'[z][b] = Bucketed(InBucket(R, z, b))
<1>1. ShapeInv'
  BY DEF RebuildRange, ShapeInv
<1>2. ASSUME NEW z \in Sizes, NEW b \in Times
      PROVE  rollup'[z][b] = Bucketed(InBucket(R, z, b))
  <2>1. rollup'[z][b] = IF b \in Bucket(since, z) .. Bucket(until, z)
                        THEN Recompute(R, z, b) ELSE rollup[z][b]
    BY DEF RebuildRange
  <2>2. QED
    BY <2>1, RecomputeIs
<1>3. QED
  BY <1>1, <1>2

LEMMA SaveReadingInv ==
  ASSUME Inv, NEW p \in Payloads, SaveReading(p)
  PROVE  Inv'
<1> DEFINE r == [tx |-> live, ts |-> now, kw |-> p.kw, kwh |-> p.kwh, source |-> "live"]
<1>1. /\ rows' = rows \cup {r}
      /\ rollup' = [z \in Sizes |->
                      [rollup[z] EXCEPT ![Bucket(now, z)] = Upsert(@, r)]]
      /\ live' = live + 1
      /\ UNCHANGED <<now, meters, fills, tool>>
  BY DEF SaveReading
<1>2. r \in Rows /\ r.source = "live" /\ r.tx = live /\ r.ts = now
  BY BackfillAssumption DEF Inv, TablesInv, Rows
<1>3. r \notin rows
  BY <1>2 DEF Inv, TablesInv
<1> HIDE DEF r
<1>4. TablesInv'
  <2>1. rows' \subseteq Rows /\ IsFiniteSet(rows')
    BY <1>1, <1>2, FS_AddElement DEF Inv, TablesInv
  <2>2. \A q \in rows' : q.source = "live" => q.tx < live'
    BY <1>1, <1>2, <2>1 DEF Inv, TablesInv, Rows
  <2>3. QED
    BY <1>1, <2>1, <2>2 DEF Inv, TablesInv
<1>5. ToolInv'
  BY <1>1 DEF Inv, ToolInv, tool
<1>6. ShapeInv'
  BY <1>1 DEF Inv, ShapeInv
<1>7. ASSUME NEW z \in Sizes, NEW b \in Times
      PROVE  rollup'[z][b] = Bucketed(InBucket(rows, z, b)')
  <2>1. rollup[z][b] = Bucketed(InBucket(rows, z, b))
    BY DEF Inv, BucketsFollow
  <2>2. CASE b = Bucket(now, z)
    <3>1. rollup'[z][b] = Upsert(rollup[z][b], r)
      BY <1>1, <2>2 DEF Inv, ShapeInv
    <3>2. InBucket(rows, z, b)' = InBucket(rows, z, b) \cup {r}
      BY <1>1, <1>2, <2>2 DEF InBucket
    <3>3. /\ InBucket(rows, z, b) \in SUBSET Rows /\ IsFiniteSet(InBucket(rows, z, b))
          /\ r \notin InBucket(rows, z, b)
      BY <1>3, BucketRows DEF InBucket, Inv
    <3>4. Upsert(Bucketed(InBucket(rows, z, b)), r) = Bucketed(InBucket(rows, z, b) \cup {r})
      BY <1>2, <3>3, UpsertIsRebuild
    <3>5. QED
      BY <2>1, <3>1, <3>2, <3>4
  <2>3. CASE b # Bucket(now, z)
    <3>1. rollup'[z][b] = rollup[z][b]
      BY <1>1, <2>3 DEF Inv, ShapeInv
    <3>2. InBucket(rows, z, b)' = InBucket(rows, z, b)
      BY <1>1, <1>2, <2>3 DEF InBucket
    <3>3. QED
      BY <2>1, <3>1, <3>2
  <2>4. QED
    BY <2>2, <2>3
<1>8. BucketsFollow'
  BY <1>7 DEF BucketsFollow
<1>9. QED
  BY <1>4, <1>5, <1>6, <1>8 DEF Inv

LEMMA FillInv ==
  ASSUME Inv, NEW t \in Tools, Fill(t)
  PROVE  Inv'
<1> DEFINE new == {Reconstructed(m) : m \in samples[t]}
<1>1. /\ rows' = rows \cup new
      /\ rollup' = RebuildRange(rollup, rows', gap[t].lo, gap[t].hi)
      /\ fills' = fills + 1
      /\ UNCHANGED <<now, meters, live, queue, window, upto, alone>>
      /\ gap' = [gap EXCEPT ![t] = NoGap]
      /\ samples' = [samples EXCEPT ![t] = {}]
      /\ pc' = [pc EXCEPT ![t] = "next"]
  BY DEF Fill
<1>2. IsFiniteSet(new)
  <2> DEFINE f == [m \in samples[t] |-> Reconstructed(m)]
  <2>1. f \in Surjection(samples[t], new)
    BY Fun_IsSurj
  <2>2. QED
    BY <2>1, FS_Surjection DEF Inv, ToolInv
<1>3. ASSUME NEW r \in new
      PROVE  /\ r \in Rows /\ r.source # "live"
             /\ gap[t].lo <= r.ts /\ r.ts < gap[t].hi
  <2>1. PICK m \in samples[t] : r = Reconstructed(m)
    OBVIOUS
  <2>2. m \in Meters /\ gap[t].lo <= m.ts /\ m.ts < gap[t].hi
    BY DEF Inv, ToolInv
  <2>3. QED
    BY <2>1, <2>2 DEF Reconstructed, Rows, Meters, Inv, TablesInv
<1> HIDE DEF new
<1>4. TablesInv'
  <2>1. rows' \subseteq Rows /\ IsFiniteSet(rows')
    BY <1>1, <1>2, <1>3, FS_Union DEF Inv, TablesInv
  <2>2. \A q \in rows' : q.source = "live" => q.tx < live'
    BY <1>1, <1>3 DEF Inv, TablesInv
  <2>3. QED
    BY <1>1, <2>1, <2>2 DEF Inv, TablesInv
<1>5. ToolInv'
  BY <1>1, FS_EmptySet, RollupsAssumption DEF Inv, ToolInv, NoGap, GapRecords, Times
<1>6. ASSUME NEW z \in Sizes, NEW b \in Times,
             b \notin Bucket(gap[t].lo, z) .. Bucket(gap[t].hi, z)
      PROVE  rollup[z][b] = Bucketed(InBucket(rows', z, b))
  <2>1. ASSUME NEW r \in new PROVE Bucket(r.ts, z) # b
    <3>1. gap[t].lo \in Times /\ gap[t].hi \in Times /\ r.ts \in Times
      BY <1>3 DEF Inv, ToolInv, GapRecords, Rows
    <3>2. gap[t].lo <= r.ts /\ r.ts <= gap[t].hi
      BY <1>3, <3>1 DEF Times
    <3>3. Bucket(gap[t].lo, z) <= Bucket(r.ts, z) /\ Bucket(r.ts, z) <= Bucket(gap[t].hi, z)
      BY <3>1, <3>2, BucketMonotonic
    <3>4. Bucket(r.ts, z) \in Times /\ Bucket(gap[t].lo, z) \in Times
          /\ Bucket(gap[t].hi, z) \in Times
      BY <3>1, BucketType
    <3>5. QED
      BY <1>6, <3>3, <3>4 DEF Times
  <2>2. InBucket(rows', z, b) = InBucket(rows, z, b)
    BY <1>1, <2>1 DEF InBucket
  <2>3. QED
    BY <2>2 DEF Inv, BucketsFollow
<1>7. ShapeInv /\ rollup' = RebuildRange(rollup, rows', gap[t].lo, gap[t].hi)
  BY <1>1 DEF Inv
<1>8. ShapeInv' /\ \A z \in Sizes, b \in Times :
                     rollup'[z][b] = Bucketed(InBucket(rows', z, b))
  BY <1>6, <1>7, RebuildFollows
<1>9. QED
  BY <1>4, <1>5, <1>8 DEF Inv, BucketsFollow

-----------------------------------------------------------------------------
(* The other steps.                                                        *)

\* They leave the readings and the rollups alone.
LEMMA KeepsBuckets ==
  ASSUME Inv, UNCHANGED <<rows, rollup>>
  PROVE  ShapeInv' /\ BucketsFollow'
BY DEF Inv, ShapeInv, BucketsFollow, InBucket

LEMMA ListGapsInv ==
  ASSUME Inv, NEW t \in Tools, ListGaps(t)
  PROVE  Inv'
<1>1. Gaps(rows) \subseteq GapRecords
  BY DEF Inv, TablesInv, Gaps, GapRecords, Rows
<1>2. queue' \in [Tools -> SUBSET GapRecords]
  <2>1. PICK w \in Windows :
          queue' = [queue EXCEPT ![t] = {g \in Gaps(rows) : /\ w.from <= g.lo /\ g.hi <= w.to
                                                            /\ Recoverable(meters, g)}]
    BY DEF ListGaps
  <2>2. QED
    BY <1>1, <2>1 DEF Inv, ToolInv
<1>3. /\ upto' \in [Tools -> Times]
      /\ window' \in [Tools -> Windows \cup {NoWindow}]
      /\ alone' \in BOOLEAN
  <2>1. PICK w \in Windows :
          /\ upto' = [upto EXCEPT ![t] = Min({w.to, Max({r.ts : r \in rows})})]
          /\ window' = [window EXCEPT ![t] = w]
    BY DEF ListGaps
  <2>2. rows # {}
    BY DEF ListGaps
  <2>3. Min({w.to, Max({r.ts : r \in rows})}) \in Times
    BY <2>2, LastSeen, BackfillAssumption DEF Inv
  <2>4. alone' \in BOOLEAN
    BY DEF ListGaps
  <2> QED
    BY <2>1, <2>3, <2>4 DEF Inv, ToolInv
<1>4. ToolInv'
  <2>1. /\ UNCHANGED <<gap, samples>>
        /\ pc' \in [Tools -> {"idle", "next", "fill", "done"}]
    BY DEF ListGaps, Inv, ToolInv
  <2> QED
    BY <1>2, <1>3, <2>1 DEF Inv, ToolInv
<1>5. TablesInv' /\ UNCHANGED <<rows, rollup>>
  BY DEF ListGaps, Inv, TablesInv, db
<1>6. QED
  BY <1>4, <1>5, KeepsBuckets DEF Inv

LEMMA ReadSamplesInv ==
  ASSUME Inv, NEW t \in Tools, ReadSamples(t)
  PROVE  Inv'
<1>1. PICK g \in queue[t] :
        /\ queue' = [queue EXCEPT ![t] = @ \ {g}]
        /\ gap' = [gap EXCEPT ![t] = g]
        /\ samples' = [samples EXCEPT ![t] = MeterSamples(meters, g.lo, g.hi)]
  BY DEF ReadSamples
<1>2. /\ MeterSamples(meters, g.lo, g.hi) \subseteq Meters
      /\ IsFiniteSet(MeterSamples(meters, g.lo, g.hi))
      /\ \A m \in MeterSamples(meters, g.lo, g.hi) : g.lo <= m.ts /\ m.ts < g.hi
  BY FS_Subset DEF MeterSamples, Inv, TablesInv
<1>3. ToolInv'
  <2>1. pc' \in [Tools -> {"idle", "next", "fill", "done"}]
    BY DEF ReadSamples, Inv, ToolInv
  <2>2. /\ queue' \in [Tools -> SUBSET GapRecords]
        /\ gap' \in [Tools -> GapRecords]
        /\ samples' \in [Tools -> SUBSET Meters]
    BY <1>1, <1>2 DEF Inv, ToolInv
  <2>3. ASSUME NEW u \in Tools
        PROVE  /\ IsFiniteSet(samples'[u])
               /\ \A m \in samples'[u] : gap'[u].lo <= m.ts /\ m.ts < gap'[u].hi
    BY <1>1, <1>2 DEF Inv, ToolInv
  <2>4. UNCHANGED <<window, upto, alone>>
    BY DEF ReadSamples
  <2>5. QED
    BY <2>1, <2>2, <2>3, <2>4 DEF Inv, ToolInv
<1>4. TablesInv' /\ UNCHANGED <<rows, rollup>>
  BY DEF ReadSamples, Inv, TablesInv, db
<1>5. QED
  BY <1>3, <1>4, KeepsBuckets DEF Inv

LEMMA NextInv ==
  ASSUME Inv, [Next]_vars
  PROVE  Inv'
<1>1. CASE Clock
  <2>1. TablesInv' /\ ToolInv' /\ UNCHANGED <<rows, rollup>>
    BY <1>1, RollupsAssumption DEF Clock, Inv, TablesInv, ToolInv, db, tool, Times
  <2>2. QED
    BY <2>1, KeepsBuckets DEF Inv
<1>2. ASSUME NEW d \in MeterData, SaveMeters(d)
      PROVE  Inv'
  <2>1. PICK m : meters' = meters \cup {m} /\ m \in Meters
    BY <1>2, BackfillAssumption DEF SaveMeters, Inv, TablesInv, Meters
  <2>2. meters' \subseteq Meters /\ IsFiniteSet(meters')
    BY <2>1, FS_AddElement DEF Inv, TablesInv
  <2>3. TablesInv' /\ ToolInv' /\ UNCHANGED <<rows, rollup>>
    BY <1>2, <2>2 DEF SaveMeters, Inv, TablesInv, ToolInv, tool
  <2>4. QED
    BY <2>3, KeepsBuckets DEF Inv
<1>3. ASSUME NEW w \in Windows, RebuildRollups(w.from, w.to)
      PROVE  Inv'
  <2>1. TablesInv' /\ ToolInv' /\ rows' = rows
        /\ rollup' = RebuildRange(rollup, rows, w.from, w.to)
    BY <1>3 DEF RebuildRollups, Inv, TablesInv, ToolInv, tool
  <2>2. ShapeInv' /\ BucketsFollow'
    BY <2>1, RebuildFollows DEF Inv, BucketsFollow
  <2>3. QED
    BY <2>1, <2>2 DEF Inv
<1>4. ASSUME NEW t \in Tools, Finish(t)
      PROVE  Inv'
  <2>1. TablesInv' /\ ToolInv' /\ UNCHANGED <<rows, rollup>>
    BY <1>4 DEF Finish, Inv, TablesInv, ToolInv, db
  <2>2. QED
    BY <2>1, KeepsBuckets DEF Inv
<1>5. ASSUME NEW t \in Tools, Exit(t)
      PROVE  Inv'
  <2>1. NoGap \in GapRecords /\ 0 \in Times
    BY RollupsAssumption DEF NoGap, GapRecords, Times
  <2>2. TablesInv' /\ ToolInv' /\ UNCHANGED <<rows, rollup>>
    BY <1>5, <2>1, FS_EmptySet DEF Exit, Inv, TablesInv, ToolInv, db
  <2>3. QED
    BY <2>2, KeepsBuckets DEF Inv
<1>6. CASE UNCHANGED vars
  <2>1. TablesInv' /\ ToolInv' /\ UNCHANGED <<rows, rollup>>
    BY <1>6 DEF vars, Inv, TablesInv, ToolInv
  <2>2. QED
    BY <2>1, KeepsBuckets DEF Inv
<1>7. QED
  BY <1>1, <1>2, <1>3, <1>4, <1>5, <1>6, SaveReadingInv, FillInv, ListGapsInv,
     ReadSamplesInv DEF Next

LEMMA InvHolds == Spec => []Inv
<1>1. Inv /\ [Next]_vars => Inv'
  BY NextInv
<1> QED
  BY <1>1, InitInv, PTL DEF Spec

-----------------------------------------------------------------------------
(* What the tables hold.                                                   *)

LEMMA BucketOfRows ==
  ASSUME Inv, NEW z \in Sizes, NEW b \in Times
  PROVE  LET S == {r \in rows : r.ts \div z = b}
         IN  S \in SUBSET Rows /\ IsFiniteSet(S) /\ rollup[z][b] = Bucketed(S)
<1>1. InBucket(rows, z, b) = {r \in rows : r.ts \div z = b}
  BY DEF InBucket, Bucket
<1> QED
  BY <1>1, BucketRows DEF Inv, BucketsFollow

\* Every variable keeps its type, the buckets in particular: their sums are
\* integers and their counts naturals, whatever was inserted and rebuilt
\* (upsert_hourly.sql, rebuild_hourly_range.sql).
THEOREM TypeCorrect == Spec => []TypeOK
<1>1. ASSUME Inv PROVE TypeOK
  <2>1. rollup \in [Sizes -> [Times -> Buckets]]
    <3>1. \A z \in Sizes, b \in Times : rollup[z][b] \in Buckets
      BY <1>1, BucketRows, BucketedType DEF Inv, BucketsFollow
    <3>2. \A z \in Sizes : rollup[z] \in [Times -> Buckets]
      BY <1>1, <3>1 DEF Inv, ShapeInv
    <3> QED
      BY <1>1, <3>2 DEF Inv, ShapeInv
  <2> QED
    BY <1>1, <2>1 DEF Inv, TablesInv, ToolInv, TypeOK
<1> QED
  BY <1>1, InvHolds, PTL

\* sample_count is the time the rows of a bucket stand for, always: the upsert
\* of SaveReading and the rebuild of BackfillRange keep the same count.
THEOREM SampleCountHolds == Spec => []SampleCountIsTime
<1>1. ASSUME Inv PROVE SampleCountIsTime
  <2> SUFFICES ASSUME NEW z \in Sizes, NEW b \in Times
               PROVE  LET S == {r \in rows : r.ts \div z = b}
                      IN  rollup[z][b].n =
                            Cardinality({r \in S : r.source = "live"})
                              + MeterWeight * Cardinality({r \in S : r.source # "live"})
    BY Zenon DEF SampleCountIsTime
  <2> DEFINE S == {r \in rows : r.ts \div z = b}
  <2>1. IsFiniteSet(S) /\ rollup[z][b] = Bucketed(S)
    BY <1>1, BucketOfRows
  <2>2. LiveRows(S) = {r \in S : r.source = "live"}
        /\ S \ LiveRows(S) = {r \in S : r.source # "live"}
    BY DEF LiveRows
  <2> HIDE DEF S
  <2>3. rollup[z][b].n = SampleCount(S)
    BY <2>1, BucketedEmpty
  <2>4. rollup[z][b].n = Cardinality({r \in S : r.source = "live"})
                           + MeterWeight * Cardinality({r \in S : r.source # "live"})
    BY <2>2, <2>3, Zenon DEF SampleCount
  <2> QED
    BY <2>4 DEF S
<1> QED
  BY <1>1, InvHolds, PTL

\* The power of a row times its seconds is what the sum takes of it.
LEMMA PowerTimesSeconds ==
  ASSUME NEW R \in SUBSET Rows, IsFiniteSet(R)
  PROVE  MapThenSumSet(LAMBDA r : r.kw * (IF r.source = "live" THEN 1 ELSE MeterWeight), R)
           = PowerSum(R)
<1> DEFINE f(r) == r.kw * (IF r.source = "live" THEN 1 ELSE MeterWeight)
           P(g) == g = [s \in SUBSET R |->
                          IF s = {} THEN 0
                          ELSE f(CHOOSE x \in s : TRUE) + g[s \ {CHOOSE x \in s : TRUE}]]
           iter == CHOOSE g : P(g)
<1>1. MapThenSumSet(LAMBDA r : r.kw * (IF r.source = "live" THEN 1 ELSE MeterWeight), R) = iter[R]
  BY DEF MapThenSumSet, MapThenFoldSet
<1>2. \A r \in R : f(r) = Weighed(R)[r]
  BY RollupsAssumption DEF Weighed, Rows
<1>3. \A s \in SUBSET R : s # {} => f(Pick(s)) = Weighed(R)[Pick(s)]
  BY <1>2, PickType
<1> HIDE DEF f
<1>4. ASSUME NEW g PROVE P(g) <=> IsSum(Weighed(R), R, g)
  BY <1>3 DEF IsSum, Pick
<1> HIDE DEF P
<1>5. P(iter)
  BY <1>4, SumExists
<1> QED
  BY <1>1, <1>4, <1>5, TotalIs, PowerSumIs

\* The sum and the extremes of every bucket are those of its rows as well
\* (upsert_hourly.sql, rebuild_hourly_range.sql).
THEOREM BucketsStayExact == Spec => []BucketsAreExact
<1>1. ASSUME Inv PROVE BucketsAreExact
  <2> SUFFICES ASSUME NEW z \in Sizes, NEW b \in Times,
                      {r \in rows : r.ts \div z = b} # {}
               PROVE  LET S == {r \in rows : r.ts \div z = b}
                      IN  /\ rollup[z][b].sum =
                               MapThenSumSet(LAMBDA r : r.kw * (IF r.source = "live" THEN 1
                                                                ELSE MeterWeight), S)
                          /\ rollup[z][b].lo = Min({r.kwh : r \in S})
                          /\ rollup[z][b].hi = Max({r.kwh : r \in S})
    BY DEF BucketsAreExact
  <2> DEFINE S == {r \in rows : r.ts \div z = b}
  <2>1. S \in SUBSET Rows /\ IsFiniteSet(S) /\ rollup[z][b] = Bucketed(S) /\ S # {}
    BY <1>1, BucketOfRows
  <2> HIDE DEF S
  <2>2. /\ rollup[z][b].sum = PowerSum(S)
        /\ rollup[z][b].lo = Min({r.kwh : r \in S})
        /\ rollup[z][b].hi = Max({r.kwh : r \in S})
    BY <2>1 DEF Bucketed
  <2>3. rollup[z][b].sum =
          MapThenSumSet(LAMBDA r : r.kw * (IF r.source = "live" THEN 1 ELSE MeterWeight), S)
    BY <2>1, <2>2, PowerTimesSeconds
  <2> QED
    BY <2>2, <2>3 DEF S
<1> QED
  BY <1>1, InvHolds, PTL

-----------------------------------------------------------------------------
(* What long ranges answer.                                                *)

LEMMA MeanIsTotal ==
  ASSUME NEW table, NEW B, IsFiniteSet(B)
  PROVE  WeightedMean(table, B) = [n   |-> Total([b \in B |-> table[b].n], B),
                                   sum |-> Total([b \in B |-> table[b].sum], B)]
<1> DEFINE N == [b \in B |-> table[b].n]
           Q(g) == g = [s \in SUBSET B |->
                          IF s = {} THEN 0
                          ELSE table[CHOOSE x \in s : TRUE].n + g[s \ {CHOOSE x \in s : TRUE}]]
           K == [b \in B |-> table[b].sum]
           R(g) == g = [s \in SUBSET B |->
                          IF s = {} THEN 0
                          ELSE table[CHOOSE x \in s : TRUE].sum + g[s \ {CHOOSE x \in s : TRUE}]]
<1>1. WeightedMean(table, B) = [n |-> (CHOOSE g : Q(g))[B], sum |-> (CHOOSE g : R(g))[B]]
  BY DEF WeightedMean, MapThenSumSet, MapThenFoldSet
<1>2. \A s \in SUBSET B : s # {} => N[Pick(s)] = table[Pick(s)].n /\ K[Pick(s)] = table[Pick(s)].sum
  BY PickType
<1> HIDE DEF N, K
<1>3. ASSUME NEW g PROVE Q(g) <=> IsSum(N, B, g)
  BY <1>2 DEF IsSum, Pick
<1>4. ASSUME NEW g PROVE R(g) <=> IsSum(K, B, g)
  BY <1>2 DEF IsSum, Pick
<1> HIDE DEF Q, R
<1>5. Q(CHOOSE g : Q(g)) /\ R(CHOOSE g : R(g))
  BY <1>3, <1>4, SumExists
<1>6. (CHOOSE g : Q(g))[B] = Total(N, B) /\ (CHOOSE g : R(g))[B] = Total(K, B)
  BY <1>3, <1>4, <1>5, TotalIs
<1> QED
  BY <1>1, <1>6 DEF N, K

\* The rows of some buckets.
RowsOf(z, B) == {r \in rows : Bucket(r.ts, z) \in B}

\* The mean over some buckets is that of their rows: no row is in two of them.
LEMMA MeanFollowsRows ==
  ASSUME Inv, NEW z \in Sizes, NEW B \in SUBSET Times
  PROVE  WeightedMean(rollup[z], B) = MeanOf(RowsOf(z, B))
<1> DEFINE N == [b \in Times |-> rollup[z][b].n]
           K == [b \in Times |-> rollup[z][b].sum]
           G == {C \in SUBSET Times : /\ Total(N, C) = SampleCount(RowsOf(z, C))
                                      /\ Total(K, C) = PowerSum(RowsOf(z, C))}
<1>1. IsFiniteSet(Times)
  <2>1. MaxTime \in Int /\ 0 \in Int
    BY RollupsAssumption
  <2>2. IsFiniteSet(0 .. MaxTime)
    BY <2>1, FS_Interval
  <2> QED
    BY <2>2 DEF Times
<1>2. ASSUME NEW b \in Times
      PROVE  /\ N[b] = SampleCount(InBucket(rows, z, b)) /\ N[b] \in Int
             /\ K[b] = PowerSum(InBucket(rows, z, b)) /\ K[b] \in Int
  <2>1. InBucket(rows, z, b) \in SUBSET Rows /\ IsFiniteSet(InBucket(rows, z, b))
    BY BucketRows DEF Inv
  <2>2. rollup[z][b] = Bucketed(InBucket(rows, z, b))
    BY DEF Inv, BucketsFollow
  <2>3. /\ rollup[z][b].n = SampleCount(InBucket(rows, z, b))
        /\ rollup[z][b].sum = PowerSum(InBucket(rows, z, b))
    BY <2>1, <2>2, BucketedEmpty
  <2>4. SampleCount(InBucket(rows, z, b)) \in Int /\ PowerSum(InBucket(rows, z, b)) \in Int
    BY <2>1, CountType, PowerSumType
  <2> QED
    BY <2>3, <2>4
<1> HIDE DEF N, K
<1>3. ASSUME NEW A \in SUBSET Times, \A U \in SUBSET A : U # A => U \in G
      PROVE  A \in G
  <2>1. CASE A = {}
    <3>1. RowsOf(z, A) = {} /\ SampleCount({}) = 0 /\ PowerSum({}) = 0
      BY <2>1, BucketedEmpty, FS_EmptySet DEF RowsOf, Bucketed, NoBucket
    <3> QED
      BY <2>1, <3>1, TotalEmpty
  <2>2. CASE A # {}
    <3> DEFINE c == Pick(A)
               V == A \ {c}
               S == InBucket(rows, z, c)
               T == RowsOf(z, V)
    <3>1. c \in A /\ c \in Times /\ V \in G /\ IsFiniteSet(A)
      BY <1>1, <1>3, <2>2, PickType, FS_Subset
    <3>2. Total(N, A) = N[c] + Total(N, V) /\ Total(K, A) = K[c] + Total(K, V)
      BY <2>2, <3>1, TotalStep
    <3>3. RowsOf(z, A) = S \cup T /\ S \cap T = {}
      BY <3>1 DEF RowsOf, InBucket
    <3>4. /\ S \in SUBSET Rows /\ IsFiniteSet(S)
          /\ T \in SUBSET Rows /\ IsFiniteSet(T)
      BY FS_Subset DEF Inv, TablesInv, InBucket, RowsOf
    <3>5. N[c] = SampleCount(S) /\ K[c] = PowerSum(S)
      BY <1>2, <3>1
    <3>6. Total(N, V) = SampleCount(T) /\ Total(K, V) = PowerSum(T)
      BY <3>1
    <3> HIDE DEF S, T, c, V
    <3>7. SampleCount(S \cup T) = SampleCount(S) + SampleCount(T)
          /\ PowerSum(S \cup T) = PowerSum(S) + PowerSum(T)
      BY <3>3, <3>4, CountUnion, PowerSumUnion
    <3> QED
      BY <3>2, <3>3, <3>5, <3>6, <3>7
  <2> QED
    BY <2>1, <2>2
<1>4. Total(N, B) = SampleCount(RowsOf(z, B)) /\ Total(K, B) = PowerSum(RowsOf(z, B))
  <2>1. \A C \in SUBSET Times : C \in G
    <3> HIDE DEF G
    <3> QED
      BY <1>1, <1>3, SetInduction
  <2> QED
    BY <2>1
<1>5. IsFiniteSet(B)
  BY <1>1, FS_Subset
<1>6. /\ Total([b \in B |-> rollup[z][b].n], B) = Total(N, B)
      /\ Total([b \in B |-> rollup[z][b].sum], B) = Total(K, B)
  <2> DEFINE X == [b \in B |-> rollup[z][b].n]
             Y == [b \in B |-> rollup[z][b].sum]
  <2>1. \A b \in B : X[b] = N[b] /\ Y[b] = K[b]
    BY DEF N, K
  <2> HIDE DEF X, Y
  <2>2. Total(X, B) = Total(N, B) /\ Total(Y, B) = Total(K, B)
    BY <1>5, <2>1, TotalSame
  <2> QED
    BY <2>2 DEF X, Y
<1> QED
  BY <1>4, <1>5, <1>6, MeanIsTotal DEF MeanOf

\* The buckets that a range touches are those between its ends.
LEMMA TouchedRows ==
  ASSUME Inv, NEW z \in Sizes, NEW since \in Times, NEW until \in Times
  PROVE  /\ Touched(since, until, z) \in SUBSET Times
         /\ RowsOf(z, Touched(since, until, z)) =
              {r \in rows : since \div z <= r.ts \div z /\ r.ts \div z <= until \div z}
<1>1. Bucket(since, z) \in Times /\ Bucket(until, z) \in Times
  BY BucketType
<1>2. Touched(since, until, z) \in SUBSET Times
  <2> DEFINE a == Bucket(since, z)
             e == Bucket(until, z)
  <2>1. a \in 0 .. MaxTime /\ e \in 0 .. MaxTime /\ MaxTime \in Nat
    BY <1>1, RollupsAssumption DEF Times
  <2> HIDE DEF a, e
  <2>2. a .. e \subseteq 0 .. MaxTime
    BY <2>1
  <2> QED
    BY <2>2 DEF Touched, Times, a, e
<1>3. \A r \in rows : Bucket(r.ts, z) \in Times
  BY BucketType DEF Inv, TablesInv, Rows
<1>4. \A r \in rows : Bucket(r.ts, z) \in Touched(since, until, z)
                        <=> Bucket(since, z) <= Bucket(r.ts, z) /\ Bucket(r.ts, z) <= Bucket(until, z)
  BY <1>1, <1>3 DEF Touched, Times
<1> QED
  BY <1>2, <1>4 DEF RowsOf, Bucket

\* A chart's points are those of the rows, provided that each of its buckets
\* lies within one step.
LEMMA SeriesFollowsRows ==
  ASSUME Inv, NEW z \in Sizes, NEW step, NEW since \in Times, NEW until \in Times,
         \A ts \in Times : (Bucket(ts, z) * z) \div step = ts \div step
  PROVE  ReadingsSeries(rollup, since, until, z, step)
           = PointsOf(RowsOf(z, Touched(since, until, z)), step)
<1> DEFINE D == Touched(since, until, z)
           S == RowsOf(z, D)
           B == {b \in D : rollup[z][b] # NoBucket}
           at(b) == Bucket(b * z, step)
           F(p) == {b \in B : at(b) = p}
           H(p) == {r \in S : r.ts \div step = p}
<1>1. D \in SUBSET Times
  BY TouchedRows
<1>2. ASSUME NEW r \in rows
      PROVE  r.ts \in Times /\ at(Bucket(r.ts, z)) = r.ts \div step
  BY DEF Inv, TablesInv, Rows, Bucket
<1>3. ASSUME NEW b \in D
      PROVE  b \in B <=> \E r \in rows : Bucket(r.ts, z) = b
  <2>1. rollup[z][b] = Bucketed(InBucket(rows, z, b)) /\ IsFiniteSet(InBucket(rows, z, b))
    BY <1>1, BucketRows DEF Inv, BucketsFollow
  <2>2. b \in B <=> InBucket(rows, z, b) # {}
    BY <2>1, BucketedEmpty
  <2> QED
    BY <2>2 DEF InBucket
<1> HIDE DEF D, at
<1>4. {at(b) : b \in B} = {r.ts \div step : r \in S}
  <2>1. ASSUME NEW b \in B PROVE at(b) \in {r.ts \div step : r \in S}
    <3>1. PICK r \in rows : Bucket(r.ts, z) = b
      BY <1>3
    <3> QED
      BY <1>2, <3>1 DEF RowsOf
  <2>2. ASSUME NEW r \in S PROVE r.ts \div step \in {at(b) : b \in B}
    <3>1. r \in rows /\ Bucket(r.ts, z) \in D
      BY DEF RowsOf
    <3>2. Bucket(r.ts, z) \in B
      BY <1>3, <3>1
    <3> QED
      BY <1>2, <3>1, <3>2
  <2> QED
    BY <2>1, <2>2
<1>5. ASSUME NEW p
      PROVE  WeightedMean(rollup[z], F(p)) = MeanOf(H(p))
  <2>1. F(p) \in SUBSET Times
    BY <1>1
  <2>2. RowsOf(z, F(p)) = H(p)
    <3>1. ASSUME NEW r \in rows
          PROVE  Bucket(r.ts, z) \in F(p) <=> Bucket(r.ts, z) \in D /\ r.ts \div step = p
      BY <1>2, <1>3
    <3> QED
      BY <3>1 DEF RowsOf
  <2> HIDE DEF F, H
  <2> QED
    BY <2>1, <2>2, MeanFollowsRows
<1>6. ReadingsSeries(rollup, since, until, z, step)
        = [p \in {at(b) : b \in B} |-> WeightedMean(rollup[z], F(p))]
  BY DEF ReadingsSeries, D, at
<1>7. PointsOf(S, step) = [p \in {r.ts \div step : r \in S} |-> MeanOf(H(p))]
  BY DEF PointsOf
<1> HIDE DEF B, F, H, S
<1>8. ReadingsSeries(rollup, since, until, z, step) = PointsOf(S, step)
  BY <1>4, <1>5, <1>6, <1>7
<1> QED
  BY <1>8 DEF S, D

\* The first second of a bucket lies in the step that its other seconds lie in,
\* if the step is a number of buckets.
LEMMA WholeSteps ==
  ASSUME NEW z \in Nat \ {0}, NEW k \in Nat \ {0}, NEW ts \in Nat
  PROVE  ((ts \div z) * z) \div (k * z) = ts \div (k * z)
<1> DEFINE step == k * z
           a == ts \div z
           q == ts \div step
<1>1. step \in Nat \ {0}
  <2>1. k * z \in Nat /\ k * z > 0
    OBVIOUS
  <2> QED
    BY <2>1
<1>2. a \in Nat /\ a * z <= ts /\ ts < (a + 1) * z
  OBVIOUS
<1> HIDE DEF a
<1>3. q \in Nat /\ q * step <= ts /\ ts < (q + 1) * step
  <2> HIDE DEF step
  <2> QED
    BY <1>1
<1> HIDE DEF q
<1>4. a * z < (q + 1) * step
  <2>1. a * z \in Nat /\ (q + 1) * step \in Int
    BY <1>1, <1>2, <1>3
  <2> HIDE DEF step
  <2> QED
    BY <1>2, <1>3, <2>1
<1>5. q * step <= a * z
  <2>1. q * step = (q * k) * z
    BY <1>3
  <2>2. (q * k) * z < (a + 1) * z
    BY <1>2, <1>3, <2>1
  <2>3. q * k \in Nat
    BY <1>3
  <2> DEFINE x == q * k
  <2>4. x \in Nat /\ x * z < (a + 1) * z
    BY <2>2, <2>3
  <2> HIDE DEF x
  <2>5. x < a + 1
    BY <1>2, <2>4
  <2>6. x * z <= a * z
    BY <1>2, <2>4, <2>5
  <2> QED
    BY <2>1, <2>6 DEF x
<1>6. (a * z) \div step = q
  <2> DEFINE n == a * z
  <2>1. n \in Nat /\ q * step <= n /\ n < (q + 1) * step
    BY <1>2, <1>4, <1>5
  <2> HIDE DEF n, step
  <2>2. n \div step = q
    BY <1>1, <1>3, <2>1
  <2> QED
    BY <2>2 DEF n
<1> QED
  BY <1>6 DEF a, q, step

\* A range of whole hours has the rows of its hours.
LEMMA WholeHours ==
  ASSUME NEW since \in Times, NEW until \in Times, NEW ts \in Times,
         since % Hour = 0, (until + 1) % Hour = 0
  PROVE  (since \div Hour <= ts \div Hour /\ ts \div Hour <= until \div Hour)
           <=> (since <= ts /\ ts <= until)
<1> DEFINE a == since \div Hour
           c == (until + 1) \div Hour
           u == until \div Hour
           b == ts \div Hour
<1>1. Hour \in Nat \ {0} /\ since \in Nat /\ until \in Nat /\ ts \in Nat
  BY RollupsAssumption DEF Times
<1>2. /\ a \in Nat /\ since = a * Hour
      /\ c \in Nat /\ until + 1 = c * Hour
      /\ b \in Nat /\ b * Hour <= ts /\ ts < (b + 1) * Hour
      /\ u \in Nat /\ u * Hour <= until /\ until < (u + 1) * Hour
  BY <1>1
<1> HIDE DEF a, b, c, u
<1>3. u = c - 1
  <2>1. u * Hour < c * Hour /\ c * Hour <= (u + 1) * Hour
    <3>1. u * Hour \in Nat /\ c * Hour \in Nat /\ (u + 1) * Hour \in Nat
      BY <1>1, <1>2
    <3> QED
      BY <1>1, <1>2, <3>1
  <2>2. u < c
    BY <1>1, <1>2, <2>1
  <2>3. c <= u + 1
    BY <1>1, <1>2, <2>1
  <2> QED
    BY <1>2, <2>2, <2>3
<1>4. a <= b <=> since <= ts
  <2>1. CASE a <= b
    <3>1. a * Hour <= b * Hour
      BY <1>1, <1>2, <2>1
    <3> QED
      BY <1>1, <1>2, <2>1, <3>1
  <2>2. CASE b < a
    <3>1. b + 1 <= a
      BY <1>2, <2>2
    <3>2. (b + 1) * Hour <= a * Hour
      BY <1>1, <1>2, <3>1
    <3>3. (b + 1) * Hour \in Nat /\ a * Hour \in Nat
      BY <1>1, <1>2
    <3>4. ts < since
      BY <1>1, <1>2, <3>2, <3>3
    <3> QED
      BY <1>1, <1>2, <2>2, <3>4
  <2> QED
    BY <1>2, <2>1, <2>2
<1>5. b <= u <=> ts <= until
  <2>1. CASE b < c
    <3>1. b + 1 <= c
      BY <1>2, <2>1
    <3>2. (b + 1) * Hour <= c * Hour
      BY <1>1, <1>2, <3>1
    <3>3. (b + 1) * Hour \in Nat /\ c * Hour \in Nat
      BY <1>1, <1>2
    <3>4. ts <= until
      BY <1>1, <1>2, <3>2, <3>3
    <3> QED
      BY <1>2, <1>3, <2>1, <3>4
  <2>2. CASE c <= b
    <3>1. c * Hour <= b * Hour
      BY <1>1, <1>2, <2>2
    <3>2. b * Hour \in Nat /\ c * Hour \in Nat
      BY <1>1, <1>2
    <3>3. until < ts
      BY <1>1, <1>2, <3>1, <3>2
    <3> QED
      BY <1>1, <1>2, <1>3, <2>2, <3>3
  <2> QED
    BY <1>2, <2>1, <2>2
<1> QED
  BY <1>4, <1>5 DEF a, b, u

\* Of whole hours, what is not reported as reconstructed are the live rows.
LEMMA LiveSeconds ==
  ASSUME Inv, NEW since \in Times, NEW until \in Times,
         since % Hour = 0, (until + 1) % Hour = 0
  PROVE  LET W == RowsOf(Hour, Touched(since, until, Hour))
         IN  SampleCount(W) - BackfilledSeconds(rows, since, until + 1)
               = Cardinality({r \in LiveRows(rows) : since <= r.ts /\ r.ts <= until})
<1> DEFINE W == RowsOf(Hour, Touched(since, until, Hour))
           l == Cardinality(LiveRows(W))
           m == MeterWeight * Cardinality(W \ LiveRows(W))
<1>1. Hour \in Sizes
  BY DEF Sizes
<1>2. W = {r \in rows : since <= r.ts /\ r.ts <= until}
  <2>1. W = {r \in rows : since \div Hour <= r.ts \div Hour /\ r.ts \div Hour <= until \div Hour}
    BY <1>1, TouchedRows
  <2>2. \A r \in rows : r.ts \in Times
    BY DEF Inv, TablesInv, Rows
  <2> QED
    BY <2>1, <2>2, WholeHours
<1> HIDE DEF W
<1>3. LiveRows(W) = {r \in LiveRows(rows) : since <= r.ts /\ r.ts <= until}
  BY <1>2 DEF LiveRows
<1>4. W \ LiveRows(W) = {r \in rows \ LiveRows(rows) : since <= r.ts /\ r.ts < until + 1}
  <2>1. \A r \in rows : r.ts <= until <=> r.ts < until + 1
    BY DEF Inv, TablesInv, Rows, Times
  <2> QED
    BY <1>2, <2>1 DEF LiveRows
<1>5. BackfilledSeconds(rows, since, until + 1) = m
  BY <1>4 DEF BackfilledSeconds
<1>6. SampleCount(W) = l + m
  BY DEF SampleCount
<1>7. l \in Int /\ m \in Int
  <2>1. IsFiniteSet(W)
    BY <1>2, FS_Subset DEF Inv, TablesInv
  <2>2. IsFiniteSet(LiveRows(W)) /\ IsFiniteSet(W \ LiveRows(W))
    BY <2>1, FS_Subset DEF LiveRows
  <2>3. Cardinality(LiveRows(W)) \in Nat /\ Cardinality(W \ LiveRows(W)) \in Nat
    BY <2>2, FS_CardinalityType
  <2> QED
    BY <2>3, RollupsAssumption
<1> HIDE DEF m
<1>8. SampleCount(W) - BackfilledSeconds(rows, since, until + 1) = l
  BY <1>5, <1>6, <1>7
<1> QED
  BY <1>3, <1>8 DEF W

\* What a long range answers is what the rows say, for any sizes of the buckets
\* such that six hours are whole hours (AveragePower, ReadingsSeries,
\* BackfilledSeconds).
THEOREM LongRangesAreExact == Spec => []LongRangesFollowRows
<1>1. ASSUME Inv PROVE LongRangesFollowRows
  <2> SUFFICES ASSUME NEW since \in Times, NEW until \in Times, until - since > RollupAfter
               PROVE  LET Within(z) == {r \in rows : /\ since \div z <= r.ts \div z
                                                     /\ r.ts \div z <= until \div z}
                          average   == AveragePower(rows, rollup, since, until)
                      IN  /\ average = MeanOf(Within(Hour))
                          /\ ReadingsSeries(rollup, since, until, Hour, SixHours)
                               = PointsOf(Within(Hour), SixHours)
                          /\ ReadingsSeries(rollup, since, until, Day, Day) = PointsOf(Within(Day), Day)
                          /\ since % Hour = 0 /\ (until + 1) % Hour = 0 =>
                               average.n - BackfilledSeconds(rows, since, until + 1)
                                 = Cardinality({r \in LiveRows(rows) : since <= r.ts /\ r.ts <= until})
    BY DEF LongRangesFollowRows
  <2> DEFINE W(z) == RowsOf(z, Touched(since, until, z))
  <2>1. Hour \in Sizes /\ Day \in Sizes /\ Hour \in Nat \ {0} /\ Day \in Nat \ {0}
    BY RollupsAssumption DEF Sizes
  <2>2. ASSUME NEW z \in Sizes
        PROVE  /\ W(z) = {r \in rows : since \div z <= r.ts \div z /\ r.ts \div z <= until \div z}
               /\ WeightedMean(rollup[z], Touched(since, until, z)) = MeanOf(W(z))
    BY <1>1, TouchedRows, MeanFollowsRows
  <2>3. AveragePower(rows, rollup, since, until) = MeanOf(W(Hour))
    BY <2>1, <2>2 DEF AveragePower
  <2>4. ASSUME NEW z \in Nat \ {0}, NEW k \in Nat \ {0}, NEW ts \in Times
        PROVE  (Bucket(ts, z) * z) \div (k * z) = ts \div (k * z)
    BY WholeSteps DEF Bucket, Times
  <2>5. ReadingsSeries(rollup, since, until, Hour, SixHours) = PointsOf(W(Hour), SixHours)
    <3> DEFINE k == SixHours \div Hour
    <3>1. k \in Nat \ {0} /\ SixHours = k * Hour
      BY <2>1, RollupsAssumption, StepAssumption
    <3> HIDE DEF k
    <3>2. \A ts \in Times : (Bucket(ts, Hour) * Hour) \div SixHours = ts \div SixHours
      BY <2>1, <2>4, <3>1
    <3> QED
      BY <1>1, <2>1, <3>2, SeriesFollowsRows
  <2>6. ReadingsSeries(rollup, since, until, Day, Day) = PointsOf(W(Day), Day)
    <3>1. 1 * Day = Day /\ 1 \in Nat \ {0}
      BY <2>1
    <3>2. \A ts \in Times : (Bucket(ts, Day) * Day) \div Day = ts \div Day
      BY <2>1, <2>4, <3>1
    <3> QED
      BY <1>1, <2>1, <3>2, SeriesFollowsRows
  <2>7. since % Hour = 0 /\ (until + 1) % Hour = 0 =>
          AveragePower(rows, rollup, since, until).n - BackfilledSeconds(rows, since, until + 1)
            = Cardinality({r \in LiveRows(rows) : since <= r.ts /\ r.ts <= until})
    BY <1>1, <2>3, LiveSeconds DEF MeanOf
  <2>8. /\ W(Hour) = {r \in rows : since \div Hour <= r.ts \div Hour /\ r.ts \div Hour <= until \div Hour}
        /\ W(Day) = {r \in rows : since \div Day <= r.ts \div Day /\ r.ts \div Day <= until \div Day}
    BY <2>1, <2>2
  <2> HIDE DEF W
  <2> QED
    BY <2>3, <2>5, <2>6, <2>7, <2>8
<1> QED
  BY <1>1, InvHolds, PTL


-----------------------------------------------------------------------------
(* Energy over short ranges.                                               *)

\* The first and the last of some rows.
LEMMA EndsExist ==
  ASSUME NEW S \in SUBSET Rows, IsFiniteSet(S), S # {}
  PROVE  /\ \E f \in S : \A q \in S : f.ts <= q.ts
         /\ \E l \in S : \A q \in S : q.ts <= l.ts
<1> DEFINE T == {r.ts : r \in S}
<1>1. T \in SUBSET Int /\ T # {}
  BY DEF Rows, Times
<1>2. IsFiniteSet(T)
  <2>1. T \in SUBSET Nat /\ MaxTime \in Nat /\ \A x \in T : x <= MaxTime
    BY <1>1, RollupsAssumption DEF Rows, Times
  <2> HIDE DEF T
  <2> QED
    BY <2>1, FS_BoundedSetOfNaturals
<1> HIDE DEF T
<1>3. Min(T) \in T /\ (\A x \in T : Min(T) <= x) /\ Max(T) \in T /\ (\A x \in T : x <= Max(T))
  BY <1>1, <1>2, MinExists, MaxExists
<1>4. PICK f \in S : f.ts = Min(T)
  BY <1>3 DEF T
<1>5. PICK l \in S : l.ts = Max(T)
  BY <1>3 DEF T
<1>6. \A q \in S : q.ts \in T
  BY DEF T
<1> QED
  BY <1>3, <1>4, <1>5, <1>6

\* From the rows themselves a counter that has only declined gives nothing.
LEMMA NothingFromDecline ==
  ASSUME Inv, OnlyDeclines, NEW since \in Times, NEW until \in Times
  PROVE  EnergyDeltaRaw(rows, since, until) = {0}
<1> DEFINE S     == {r \in rows : since <= r.ts /\ r.ts <= until}
           first == {r \in S : \A q \in S : r.ts <= q.ts}
           final == {r \in S : \A q \in S : q.ts <= r.ts}
           E     == {Max({0, l.kwh - f.kwh}) : l \in final, f \in first}
<1>1. S \in SUBSET rows /\ S \in SUBSET Rows /\ IsFiniteSet(S)
  BY FS_Subset DEF Inv, TablesInv
<1>2. EnergyDeltaRaw(rows, since, until) = IF S = {} THEN {0} ELSE E
  BY DEF EnergyDeltaRaw
<1> HIDE DEF S, E
<1>3. ASSUME NEW l \in final, NEW f \in first
      PROVE  Max({0, l.kwh - f.kwh}) = 0
  <2>1. f \in rows /\ l \in rows /\ f.ts <= l.ts
    BY <1>1
  <2>2. l.kwh \in Int /\ f.kwh \in Int /\ l.ts \in Int /\ f.ts \in Int
    BY <2>1 DEF Inv, TablesInv, Rows, Times
  <2>3. l.kwh <= f.kwh
    BY <2>1, <2>2 DEF OnlyDeclines
  <2> DEFINE d == l.kwh - f.kwh
             P == {0, d}
  <2>4. d \in Int /\ d <= 0
    BY <2>2, <2>3
  <2> HIDE DEF d
  <2>5. P \in SUBSET Int /\ IsFiniteSet(P) /\ P # {} /\ 0 \in P
    <3>1. IsFiniteSet(P)
      BY PairFinite
    <3> QED
      BY <2>4, <3>1
  <2>6. Max(P) \in P /\ 0 <= Max(P)
    <3> HIDE DEF P
    <3> QED
      BY <2>5, MaxExists
  <2>7. Max(P) = 0
    BY <2>4, <2>6
  <2> QED
    BY <2>7 DEF d
<1>4. CASE S = {}
  BY <1>2, <1>4
<1>5. CASE S # {}
  <2>1. (\E f \in S : f \in first) /\ (\E l \in S : l \in final)
    BY <1>1, <1>5, EndsExist
  <2>2. \A x : x \in E <=> \E l \in final, f \in first : x = Max({0, l.kwh - f.kwh})
    BY SMT DEF E
  <2> HIDE DEF first, final
  <2>3. \A x : x \in E <=> x = 0
    BY <1>3, <2>1, <2>2
  <2> QED
    BY <1>2, <1>5, <2>3
<1> QED
  BY <1>4, <1>5

\* A counter that has only run backward has not measured energy over any range
\* that is answered from the rows; over longer ones it seems to have, for the
\* rollups do not know which of a bucket's extremes came first
\* (energy_delta.sql, energy_delta_rollup.sql).
THEOREM ShortRangesGiveNoEnergy ==
  Spec => [](OnlyDeclines =>
               \A since, until \in Times :
                 until - since <= RollupAfter => EnergyDelta(rows, rollup, since, until) = {0})
<1>1. ASSUME Inv, OnlyDeclines, NEW since \in Times, NEW until \in Times,
             until - since <= RollupAfter
      PROVE  EnergyDelta(rows, rollup, since, until) = {0}
  <2>1. ~ (until - since > RollupAfter)
    BY <1>1, RollupsAssumption DEF Times
  <2> QED
    BY <1>1, <2>1, NothingFromDecline DEF EnergyDelta
<1>2. Inv => (OnlyDeclines =>
                \A since, until \in Times :
                  until - since <= RollupAfter => EnergyDelta(rows, rollup, since, until) = {0})
  BY <1>1
<1> QED
  BY <1>2, InvHolds, PTL
=============================================================================
