------------------------------ MODULE Recursions ------------------------------
(***************************************************************************)
(* Induction over an interval of numbers and over the subsets of a finite  *)
(* set, and what it gives: last places, and that a function which is       *)
(* defined by recursion exists.                                            *)
(***************************************************************************)
EXTENDS Integers, FiniteSetTheorems, WellFoundedInduction, TLAPS

\* A nonempty set of places has a last one.
LEMMA Greatest ==
  ASSUME NEW n \in Nat, NEW S \in SUBSET (1 .. n), S # {}
  PROVE  \E m \in S : \A k \in S : k <= m
<1> DEFINE Gaps == {b \in Nat : \E k \in S : k + b = n}
<1>1. Gaps # {} /\ Gaps \subseteq Nat
  <2>1. PICK k \in S : TRUE
    OBVIOUS
  <2>2. n - k \in Nat /\ k + (n - k) = n
    OBVIOUS
  <2> QED
    BY <2>1, <2>2
<1>2. PICK b \in Gaps : \A c \in Gaps : ~(c < b)
  <2>1. PICK b \in Gaps : \A c \in Gaps : <<c, b>> \notin OpToRel(<, Nat)
    BY <1>1, WFMin, NatLessThanWellFounded
  <2> QED
    BY <1>1, <2>1 DEF OpToRel
<1>3. PICK m \in S : m + b = n
  OBVIOUS
<1>4. ASSUME NEW k \in S, k > m PROVE FALSE
  <2>1. n - k \in Gaps /\ n - k < b
    BY <1>3, <1>4
  <2> QED
    BY <1>2, <2>1
<1> QED
  BY <1>3, <1>4

\* Induction over an interval, of a set of numbers.
LEMMA Interval ==
  ASSUME NEW n \in Nat, NEW G, 0 \in G, \A i \in 1 .. n : i - 1 \in G => i \in G
  PROVE  \A i \in 0 .. n : i \in G
<1> DEFINE Missing == {i \in 0 .. n : i \notin G}
<1> SUFFICES ASSUME Missing # {} PROVE FALSE
  OBVIOUS
<1>1. Missing \subseteq Nat
  OBVIOUS
<1>2. PICK i \in Missing : \A j \in Missing : ~(j < i)
  <2>1. PICK i \in Missing : \A j \in Missing : <<j, i>> \notin OpToRel(<, Nat)
    BY <1>1, WFMin, NatLessThanWellFounded
  <2> QED
    BY <1>1, <2>1 DEF OpToRel
<1>3. i \in 1 .. n /\ i - 1 \in 0 .. n /\ i - 1 < i
  OBVIOUS
<1> QED
  BY <1>2, <1>3

\* f is a run of n steps from a.
Run(n, S, a, step, f) == /\ f \in [0 .. n -> S] /\ f[0] = a
                         /\ \A i \in 1 .. n : f[i] = step[i][f[i - 1]]

\* A step may be repeated any number of times.
LEMMA Recursion ==
  ASSUME NEW n \in Nat, NEW S, NEW a \in S, NEW step \in [1 .. n -> [S -> S]]
  PROVE  \E f : Run(n, S, a, step, f)
<1> DEFINE Good(m, f) == /\ f \in [0 .. m -> S] /\ f[0] = a
                         /\ \A i \in 1 .. m : f[i] = step[i][f[i - 1]]
<1> DEFINE G == {m \in 0 .. n : \E f : Good(m, f)}
<1>1. 0 \in G
  <2>1. Good(0, [i \in 0 .. 0 |-> a])
    OBVIOUS
  <2> HIDE DEF Good
  <2> QED
    BY <2>1
<1>2. ASSUME NEW m \in 1 .. n, m - 1 \in G PROVE m \in G
  <2>1. PICK f : Good(m - 1, f)
    BY <1>2
  <2> DEFINE next == step[m][f[m - 1]]
  <2> DEFINE h == [i \in 0 .. m |-> IF i = m THEN next ELSE f[i]]
  <2>2. f[m - 1] \in S
    BY <2>1
  <2>3. next \in S
    BY <2>2
  <2>4. h \in [0 .. m -> S] /\ h[0] = a
    <3>1. \A i \in 0 .. m : i # m => i \in 0 .. m - 1
      OBVIOUS
    <3> HIDE DEF next
    <3> QED
      BY <2>1, <2>3, <3>1
  <2>5. ASSUME NEW i \in 1 .. m PROVE h[i] = step[i][h[i - 1]]
    <3>1. h[i - 1] = f[i - 1]
      OBVIOUS
    <3>2. CASE i = m
      BY <3>1, <3>2
    <3>3. CASE i # m
      <4>1. i \in 1 .. m - 1 /\ h[i] = f[i]
        BY <3>3
      <4> QED
        BY <2>1, <3>1, <4>1
    <3> QED
      BY <3>2, <3>3
  <2>6. Good(m, h)
    <3> HIDE DEF h
    <3> QED
      BY <2>4, <2>5
  <2> HIDE DEF Good, h
  <2> QED
    BY <2>6
<1> HIDE DEF G
<1>3. \A i \in 0 .. n : i \in G
  BY ONLY <1>1, <1>2, n \in Nat, Interval
<1>4. n \in G
  BY <1>3
<1> QED
  BY <1>4 DEF G, Run

\* Induction over the subsets of a finite set, of a set of sets.
LEMMA Subsets ==
  ASSUME NEW S, IsFiniteSet(S), NEW G,
         \A T \in SUBSET S : (\A U \in SUBSET T : U # T => U \in G) => T \in G
  PROVE  \A T \in SUBSET S : T \in G
<1> DEFINE Missing == {T \in SUBSET S : T \notin G}
<1> SUFFICES ASSUME Missing # {} PROVE FALSE
  OBVIOUS
<1>1. FiniteSubsetsOf(S) = SUBSET S
  BY FS_FiniteSubsetsOfFinite
<1>2. IsWellFoundedOn(StrictSubsetOrdering(S), SUBSET S)
  <2>1. IsWellFoundedOn(StrictSubsetOrdering(S), FiniteSubsetsOf(S))
    BY FS_StrictSubsetOrderingWellFounded
  <2> QED
    BY <1>1, <2>1, Zenon
<1>3. PICK T \in Missing : \A U \in Missing : <<U, T>> \notin StrictSubsetOrdering(S)
  <2>1. Missing \subseteq SUBSET S
    OBVIOUS
  <2> HIDE DEF Missing
  <2> QED
    BY <1>2, <2>1, WFMin
<1>4. ASSUME NEW U \in SUBSET T, U # T PROVE U \in G
  <2>1. <<U, T>> \in StrictSubsetOrdering(S)
    BY <1>4 DEF StrictSubsetOrdering
  <2> QED
    BY <1>3, <2>1
<1> QED
  BY <1>3, <1>4

AnyOf(T) == CHOOSE x \in T : TRUE

\* f takes the elements of a set, one after the other, from a.
SetRun(S, V, a, step, f) ==
    /\ f \in [SUBSET S -> V] /\ f[{}] = a
    /\ \A T \in SUBSET S : T # {} => f[T] = step[AnyOf(T)][f[T \ {AnyOf(T)}]]

\* The elements of a finite set may be taken one after the other.
LEMMA SubsetRecursion ==
  ASSUME NEW S, IsFiniteSet(S), NEW V, NEW a \in V, NEW step \in [S -> [V -> V]]
  PROVE  \E f : SetRun(S, V, a, step, f)
<1> DEFINE N == Cardinality(S)
<1> DEFINE D(m) == {T \in SUBSET S : Cardinality(T) <= m}
<1> DEFINE Good(m, f) == /\ f \in [D(m) -> V] /\ f[{}] = a
                         /\ \A T \in D(m) : T # {} => f[T] = step[AnyOf(T)][f[T \ {AnyOf(T)}]]
<1> DEFINE G == {m \in 0 .. N : \E f : Good(m, f)}
<1>1. ASSUME NEW T \in SUBSET S
      PROVE  /\ Cardinality(T) \in Nat /\ Cardinality(T) <= N /\ (Cardinality(T) = 0 <=> T = {})
             /\ T # {} => AnyOf(T) \in T /\ Cardinality(T \ {AnyOf(T)}) = Cardinality(T) - 1
  <2>1. IsFiniteSet(T) /\ Cardinality(T) <= N
    BY FS_Subset
  <2>2. T # {} => AnyOf(T) \in T
    BY DEF AnyOf
  <2>3. Cardinality(T) \in Nat /\ N \in Nat
    BY <2>1, FS_CardinalityType
  <2>4. Cardinality(T) = 0 <=> T = {}
    BY <2>1, FS_EmptySet
  <2>5. AnyOf(T) \in T => Cardinality(T \ {AnyOf(T)}) = Cardinality(T) - 1
    BY <2>1, FS_RemoveElement
  <2> HIDE DEF N
  <2> QED
    BY <2>1, <2>2, <2>3, <2>4, <2>5
<1>2. N \in Nat /\ \A m \in Nat : {} \in D(m)
  <2>1. Cardinality({}) = 0 /\ N \in Nat
    BY FS_EmptySet, FS_CardinalityType
  <2> QED
    BY <2>1
<1>3. \A T \in D(0) : T = {}
  <2> SUFFICES ASSUME NEW T \in SUBSET S, Cardinality(T) <= 0 PROVE T = {}
    OBVIOUS
  <2>1. Cardinality(T) \in Nat
    BY <1>1
  <2>2. Cardinality(T) = 0
    BY <2>1
  <2> QED
    BY <1>1, <2>2
<1> HIDE DEF N
<1>4. 0 \in G
  <2>1. Good(0, [T \in D(0) |-> a])
    BY <1>2, <1>3
  <2> HIDE DEF Good
  <2> QED
    BY <1>2, <2>1
<1>5. ASSUME NEW m \in 1 .. N, m - 1 \in G PROVE m \in G
  <2>1. PICK f : Good(m - 1, f)
    BY <1>5
  <2> DEFINE h == [T \in D(m) |-> IF T = {} THEN a ELSE step[AnyOf(T)][f[T \ {AnyOf(T)}]]]
  <2>2. ASSUME NEW T \in D(m), T # {}
        PROVE  /\ T \ {AnyOf(T)} \in D(m - 1) /\ T \ {AnyOf(T)} \in D(m) /\ AnyOf(T) \in S
               /\ f[T \ {AnyOf(T)}] \in V
    <3>0. T \in SUBSET S /\ Cardinality(T) <= m
      OBVIOUS
    <3>1. Cardinality(T) \in Nat /\ Cardinality(T) <= m /\ T \in SUBSET S
      BY <1>1, <1>2, <3>0
    <3>2. T \ {AnyOf(T)} \in SUBSET S /\ Cardinality(T \ {AnyOf(T)}) = Cardinality(T) - 1 /\ AnyOf(T) \in S
      BY <1>1, <2>2
    <3> QED
      BY <2>1, <3>1, <3>2
  <2>3. h \in [D(m) -> V]
    <3>1. ASSUME NEW T \in D(m), T # {} PROVE step[AnyOf(T)][f[T \ {AnyOf(T)}]] \in V
      <4> HIDE DEF D, Good, h
      <4> QED
        BY <2>2, <3>1
    <3> HIDE DEF D, Good
    <3> QED
      BY <3>1
  <2>4. {} \in D(m) /\ h[{}] = a
    BY <1>2
  <2>5. ASSUME NEW U \in D(m - 1) PROVE U \in D(m) /\ h[U] = f[U]
    <3>1. U \in D(m)
      <4>1. U \in SUBSET S /\ Cardinality(U) <= m - 1
        OBVIOUS
      <4>2. Cardinality(U) \in Nat
        BY <1>1, <1>2, <4>1
      <4> QED
        BY <4>1, <4>2
    <3>2. CASE U = {}
      BY <2>1, <2>4, <3>2
    <3>3. CASE U # {}
      <4>1. h[U] = step[AnyOf(U)][f[U \ {AnyOf(U)}]]
        BY <3>1, <3>3
      <4>2. f[U] = step[AnyOf(U)][f[U \ {AnyOf(U)}]]
        BY <2>1, <3>3
      <4> QED
        BY <3>1, <4>1, <4>2
    <3> QED
      BY <3>1, <3>2, <3>3
  <2>6. ASSUME NEW T \in D(m), T # {} PROVE h[T] = step[AnyOf(T)][h[T \ {AnyOf(T)}]]
    <3>1. h[T] = step[AnyOf(T)][f[T \ {AnyOf(T)}]]
      BY <2>6
    <3>2. h[T \ {AnyOf(T)}] = f[T \ {AnyOf(T)}]
      <4> HIDE DEF D, h, Good
      <4> QED
        BY <2>2, <2>5, <2>6
    <3> QED
      BY <3>1, <3>2
  <2> HIDE DEF h
  <2>7. Good(m, h)
    BY <2>3, <2>4, <2>6
  <2> HIDE DEF Good
  <2> QED
    BY <2>7
<1> HIDE DEF G
<1>6. \A m \in 0 .. N : m \in G
  BY ONLY <1>2, <1>4, <1>5, Interval
<1>7. PICK f : Good(N, f)
  <2>1. N \in G
    BY <1>2, <1>6
  <2> QED
    BY <2>1 DEF G
<1>8. D(N) = SUBSET S
  <2>1. \A T \in SUBSET S : Cardinality(T) <= N
    BY <1>1, <1>2
  <2> QED
    BY <2>1
<1> QED
  BY <1>7, <1>8 DEF SetRun
===============================================================================
