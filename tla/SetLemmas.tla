------------------------------ MODULE SetLemmas ------------------------------
(***************************************************************************)
(* Lemmas about sets that the proofs of several modules need: induction    *)
(* over the subsets of a finite set, smallest elements, and sums.          *)
(*                                                                         *)
(* A sum over a set is the fixed point that MapThenSumSet chooses.  Here   *)
(* the summand is a function, so that the lemmas can be cited without an   *)
(* operator as a parameter; who uses them shows that his sum is this one.  *)
(* Likewise an induction is over the set of the subsets that have the      *)
(* property, and rests on the strict subset relation being well-founded.   *)
(***************************************************************************)
EXTENDS Integers, FiniteSets, FiniteSetTheorems, WellFoundedInduction, TLAPS

-----------------------------------------------------------------------------
(* Induction and smallest elements.                                        *)

\* What holds of a subset whenever it holds of all smaller ones holds of all.
LEMMA SetInduction ==
  ASSUME NEW S, IsFiniteSet(S), NEW B,
         \A A \in SUBSET S : (\A U \in SUBSET A : U # A => U \in B) => A \in B
  PROVE  \A A \in SUBSET S : A \in B
<1> DEFINE T == (SUBSET S) \ B
           R == StrictSubsetOrdering(S)
<1> SUFFICES ASSUME T # {} PROVE FALSE
  OBVIOUS
<1>1. T \subseteq FiniteSubsetsOf(S)
  BY FS_Subset DEF FiniteSubsetsOf
<1>2. PICK t \in T : \A u \in T : ~ (<<u, t>> \in R)
  <2> HIDE DEF T
  <2> QED
    BY <1>1, WFMin, FS_StrictSubsetOrderingWellFounded
<1>3. \A U \in SUBSET t : U # t => U \in B
  BY <1>2 DEF StrictSubsetOrdering
<1> QED
  BY <1>2, <1>3

\* A set of naturals has a smallest element.
LEMMA Smallest ==
  ASSUME NEW V \in SUBSET Nat, V # {}
  PROVE  \E v \in V : \A m \in V : v <= m
<1> DEFINE T == {0 .. v : v \in V}
           R == StrictSubsetOrdering(Nat)
<1>1. T \subseteq FiniteSubsetsOf(Nat)
  <2> SUFFICES ASSUME NEW v \in V PROVE 0 .. v \in SUBSET Nat /\ IsFiniteSet(0 .. v)
    BY DEF FiniteSubsetsOf
  <2> QED
    BY FS_Interval
<1>2. PICK t \in T : \A u \in T : ~ (<<u, t>> \in R)
  <2>1. T # {}
    OBVIOUS
  <2> HIDE DEF T
  <2> QED
    BY <1>1, <2>1, WFMin, FS_StrictSubsetOrderingWellFounded
<1>3. PICK v \in V : t = 0 .. v
  OBVIOUS
<1>4. ASSUME NEW m \in V, m < v PROVE FALSE
  <2>1. 0 .. m \in T /\ 0 .. m \subseteq 0 .. v /\ 0 .. m # 0 .. v
    BY <1>4
  <2>2. 0 .. m \in SUBSET Nat /\ 0 .. v \in SUBSET Nat
    OBVIOUS
  <2>3. <<0 .. m, 0 .. v>> \in R
    BY <2>1, <2>2 DEF StrictSubsetOrdering
  <2> QED
    BY <1>2, <1>3, <2>1, <2>3
<1> QED
  BY <1>4

-----------------------------------------------------------------------------
(* Sums.                                                                   *)

\* The element that a sum takes next.
Pick(s) == CHOOSE x \in s : TRUE

\* It is one of them.
LEMMA PickType == ASSUME NEW s, s # {} PROVE Pick(s) \in s
BY DEF Pick

\* g is the function that MapThenSumSet computes the sum of w over S with.
IsSum(w, S, g) ==
  g = [s \in SUBSET S |-> IF s = {} THEN 0 ELSE w[Pick(s)] + g[s \ {Pick(s)}]]

\* One step of the sum.
LEMMA SumAt ==
  ASSUME NEW w, NEW S, NEW g, IsSum(w, S, g), NEW s \in SUBSET S
  PROVE  g[s] = IF s = {} THEN 0 ELSE w[Pick(s)] + g[s \ {Pick(s)}]
BY DEF IsSum

\* There is at most one such function.
LEMMA SumUnique ==
  ASSUME NEW w, NEW S, IsFiniteSet(S), NEW g, NEW h, IsSum(w, S, g), IsSum(w, S, h)
  PROVE  g = h
<1> DEFINE B == {s \in SUBSET S : g[s] = h[s]}
<1>1. ASSUME NEW A \in SUBSET S, \A U \in SUBSET A : U # A => U \in B
      PROVE  A \in B
  <2>1. CASE A = {}
    BY <2>1, SumAt
  <2>2. CASE A # {}
    <3>1. Pick(A) \in A
      BY <2>2, PickType
    <3>2. A \ {Pick(A)} \in B
      BY <1>1, <3>1
    <3> QED
      BY <2>2, <3>2, SumAt
  <2> QED
    BY <2>1, <2>2
<1>2. \A A \in SUBSET S : A \in B
  <2> HIDE DEF B
  <2> QED
    BY <1>1, SetInduction
<1> QED
  BY <1>2 DEF IsSum

\* Restricted to a subset it is the one of that subset.
LEMMA SumRestrict ==
  ASSUME NEW w, NEW S, NEW g, IsSum(w, S, g), NEW A \in SUBSET S
  PROVE  IsSum(w, A, [s \in SUBSET A |-> g[s]])
BY SumAt DEF IsSum

\* It is built from those of the smaller subsets.
LEMMA SumExists ==
  ASSUME NEW w, NEW S, IsFiniteSet(S)
  PROVE  \E g : IsSum(w, S, g)
<1> DEFINE B == {s \in SUBSET S : \E g : IsSum(w, s, g)}
<1>1. ASSUME NEW A \in SUBSET S, \A U \in SUBSET A : U # A => U \in B
      PROVE  A \in B
  <2> DEFINE G(U) == CHOOSE g : IsSum(w, U, g)
  <2>1. \A U \in SUBSET A : U # A => IsSum(w, U, G(U))
    BY <1>1
  <2>2. ASSUME NEW U \in SUBSET A, U # A, U # {}
        PROVE  G(U)[U] = w[Pick(U)] + G(U \ {Pick(U)})[U \ {Pick(U)}]
    <3> DEFINE V == U \ {Pick(U)}
    <3>1. IsSum(w, U, G(U)) /\ IsSum(w, V, G(V)) /\ IsFiniteSet(V) /\ V \in SUBSET U
      BY <2>1, <2>2, FS_Subset, PickType
    <3> HIDE DEF V, G
    <3>2. IsSum(w, V, [s \in SUBSET V |-> G(U)[s]])
      BY <3>1, SumRestrict
    <3>3. [s \in SUBSET V |-> G(U)[s]] = G(V)
      BY <3>1, <3>2, SumUnique
    <3>4. G(U)[V] = G(V)[V]
      BY <3>3
    <3>5. G(U)[U] = w[Pick(U)] + G(U)[V]
      BY <2>2, <3>1, SumAt DEF V
    <3> QED
      BY <3>4, <3>5 DEF V
  <2>3. A # {} => G({})[{}] = 0
    BY <2>1, SumAt
  <2> HIDE DEF G
  <2> DEFINE c == Pick(A)
             h == [s \in SUBSET A |-> IF s = A THEN IF A = {} THEN 0 ELSE w[c] + G(A \ {c})[A \ {c}]
                                      ELSE G(s)[s]]
  <2>4. ASSUME NEW s \in SUBSET A
        PROVE  h[s] = IF s = {} THEN 0 ELSE w[Pick(s)] + h[s \ {Pick(s)}]
    <3>1. CASE s = {}
      BY <2>3, <3>1
    <3>2. CASE s # {} /\ s # A
      <4>1. Pick(s) \in s
        BY <3>2, PickType
      <4>2. s \ {Pick(s)} \in SUBSET A /\ s \ {Pick(s)} # A
        BY <3>2, <4>1
      <4> QED
        BY <2>2, <3>2, <4>2
    <3>3. CASE s # {} /\ s = A
      <4>1. Pick(s) \in s
        BY <3>3, PickType
      <4>2. s \ {Pick(s)} \in SUBSET A /\ s \ {Pick(s)} # A
        BY <3>3, <4>1
      <4> QED
        BY <3>3, <4>2
    <3> QED
      BY <3>1, <3>2, <3>3
  <2>5. h = [s \in SUBSET A |-> h[s]]
    OBVIOUS
  <2> HIDE DEF h
  <2>6. IsSum(w, A, h)
    BY <2>4, <2>5, Zenon DEF IsSum
  <2> QED
    BY <2>6
<1>2. \A A \in SUBSET S : A \in B
  <2> HIDE DEF B
  <2> QED
    BY <1>1, SetInduction
<1> QED
  BY <1>2

\* The sum of w over S.
Total(w, S) == (CHOOSE g : IsSum(w, S, g))[S]

\* Any function that sums computes it.
LEMMA TotalIs ==
  ASSUME NEW w, NEW S, IsFiniteSet(S), NEW g, IsSum(w, S, g)
  PROVE  Total(w, S) = g[S]
<1>1. IsSum(w, S, CHOOSE f : IsSum(w, S, f))
  BY Zenon
<1>2. (CHOOSE f : IsSum(w, S, f)) = g
  BY <1>1, SumUnique
<1> QED
  BY <1>2 DEF Total

LEMMA TotalEmpty == ASSUME NEW w PROVE Total(w, {}) = 0
<1>1. PICK g : IsSum(w, {}, g)
  BY SumExists, FS_EmptySet
<1>2. g[{}] = 0
  BY <1>1, SumAt
<1> QED
  BY <1>1, <1>2, TotalIs, FS_EmptySet

\* The sum takes one element, and is then that of the others.
LEMMA TotalStep ==
  ASSUME NEW w, NEW S, IsFiniteSet(S), S # {}
  PROVE  Total(w, S) = w[Pick(S)] + Total(w, S \ {Pick(S)})
<1> DEFINE V == S \ {Pick(S)}
<1>1. PICK g : IsSum(w, S, g)
  BY SumExists
<1>2. V \in SUBSET S /\ IsFiniteSet(V)
  BY FS_Subset
<1>3. Total(w, V) = g[V]
  <2>1. IsSum(w, V, [s \in SUBSET V |-> g[s]])
    BY <1>1, <1>2, SumRestrict
  <2> HIDE DEF V
  <2> QED
    BY <1>2, <2>1, TotalIs
<1>4. g[S] = w[Pick(S)] + g[V]
  BY <1>1, SumAt
<1> QED
  BY <1>1, <1>3, <1>4, TotalIs

LEMMA TotalType ==
  ASSUME NEW w, NEW S, IsFiniteSet(S), \A x \in S : w[x] \in Int
  PROVE  Total(w, S) \in Int
<1> DEFINE B == {s \in SUBSET S : Total(w, s) \in Int}
<1>1. ASSUME NEW A \in SUBSET S, \A U \in SUBSET A : U # A => U \in B
      PROVE  A \in B
  <2>1. CASE A = {}
    BY <2>1, TotalEmpty
  <2>2. CASE A # {}
    <3>1. Pick(A) \in A /\ IsFiniteSet(A)
      BY <2>2, PickType, FS_Subset
    <3>2. Total(w, A \ {Pick(A)}) \in Int /\ w[Pick(A)] \in Int
      BY <1>1, <3>1
    <3> QED
      BY <2>2, <3>1, <3>2, TotalStep
  <2> QED
    BY <2>1, <2>2
<1>2. \A A \in SUBSET S : A \in B
  <2> HIDE DEF B
  <2> QED
    BY <1>1, SetInduction
<1> QED
  BY <1>2

\* Only the summands of the set matter.
LEMMA TotalSame ==
  ASSUME NEW w, NEW v, NEW S, IsFiniteSet(S), \A x \in S : w[x] = v[x]
  PROVE  Total(w, S) = Total(v, S)
<1>1. PICK g : IsSum(w, S, g)
  BY SumExists
<1>2. \A s \in SUBSET S : s # {} => w[Pick(s)] = v[Pick(s)]
  BY PickType
<1>3. IsSum(v, S, g)
  BY <1>1, <1>2 DEF IsSum
<1> QED
  BY <1>1, <1>3, TotalIs

\* The order does not matter: any element may be taken out first.
LEMMA TotalRemove ==
  ASSUME NEW w, NEW S, IsFiniteSet(S), \A x \in S : w[x] \in Int
  PROVE  \A x \in S : Total(w, S) = w[x] + Total(w, S \ {x})
<1> DEFINE B == {s \in SUBSET S : \A x \in s : Total(w, s) = w[x] + Total(w, s \ {x})}
<1>1. ASSUME NEW A \in SUBSET S, \A U \in SUBSET A : U # A => U \in B
      PROVE  A \in B
  <2> SUFFICES ASSUME NEW x \in A
               PROVE  Total(w, A) = w[x] + Total(w, A \ {x})
    OBVIOUS
  <2> DEFINE c == Pick(A)
             V == A \ {x}
             W == A \ {c}
             X == V \ {c}
  <2>1. c \in A /\ IsFiniteSet(A) /\ Total(w, A) = w[c] + Total(w, W)
    BY PickType, FS_Subset, TotalStep
  <2>2. CASE c = x
    BY <2>1, <2>2
  <2>3. CASE c # x
    <3>1. V \in B /\ W \in B /\ c \in V /\ x \in W /\ W \ {x} = X
      BY <1>1, <2>1, <2>3
    <3>2. Total(w, V) = w[c] + Total(w, X) /\ Total(w, W) = w[x] + Total(w, X)
      BY <3>1
    <3>3. IsFiniteSet(X) /\ X \in SUBSET S
      BY <2>1, FS_Subset
    <3>4. Total(w, X) \in Int /\ w[c] \in Int /\ w[x] \in Int
      BY <2>1, <3>3, TotalType
    <3> HIDE DEF V, W, X, c
    <3> QED
      BY <2>1, <3>2, <3>4 DEF V
  <2> QED
    BY <2>2, <2>3
<1>2. \A A \in SUBSET S : A \in B
  <2> HIDE DEF B
  <2> QED
    BY <1>1, SetInduction
<1> QED
  BY <1>2

\* The sum over two sets that have nothing in common.
LEMMA TotalUnion ==
  ASSUME NEW w, NEW S, NEW T, IsFiniteSet(S), IsFiniteSet(T), S \cap T = {},
         \A x \in S \cup T : w[x] \in Int
  PROVE  Total(w, S \cup T) = Total(w, S) + Total(w, T)
<1> DEFINE B == {t \in SUBSET T : Total(w, S \cup t) = Total(w, S) + Total(w, t)}
<1>1. ASSUME NEW A \in SUBSET T, \A U \in SUBSET A : U # A => U \in B
      PROVE  A \in B
  <2>1. CASE A = {}
    <3>1. Total(w, S) \in Int /\ Total(w, A) = 0 /\ S \cup A = S
      BY <2>1, TotalEmpty, TotalType
    <3> QED
      BY <3>1
  <2>2. CASE A # {}
    <3> DEFINE c == Pick(A)
               V == A \ {c}
    <3>1. /\ c \in A /\ V \in B
          /\ IsFiniteSet(A) /\ IsFiniteSet(V) /\ IsFiniteSet(S \cup A)
      BY <1>1, <2>2, PickType, FS_Subset, FS_Union
    <3>2. (S \cup A) \ {c} = S \cup V
      BY <3>1
    <3>3. Total(w, S \cup A) = w[c] + Total(w, S \cup V) /\ Total(w, A) = w[c] + Total(w, V)
      BY <3>1, <3>2, TotalRemove
    <3>4. w[c] \in Int /\ Total(w, S) \in Int /\ Total(w, V) \in Int
      BY <3>1, TotalType
    <3> HIDE DEF V, c
    <3> QED
      BY <3>1, <3>3, <3>4
  <2> QED
    BY <2>1, <2>2
<1>2. \A A \in SUBSET T : A \in B
  <2> HIDE DEF B
  <2> QED
    BY <1>1, SetInduction
<1> QED
  BY <1>2
=============================================================================
