-------------------------- MODULE VectorStoreProofs --------------------------
(***************************************************************************)
(* Theorems about VectorStore for every set of ids and vectors, capacity,  *)
(* page size and file-size limit.                                          *)
(***************************************************************************)
EXTENDS VectorStore, FiniteSetTheorems, WellFoundedInduction, TLAPS

\* S is an initial segment of the slots.
DownwardClosed(S) == \A s \in S : 0 .. s \subseteq S

------------------------------------------------------------------------------
(* Facts about sets of slots.                                              *)

\* A nonempty bounded set of slots has a greatest element, which is the one
\* compact() finds by scanning.
LEMMA GreatestProperty ==
  ASSUME NEW B \in Nat, NEW S \in SUBSET (0 .. B), S # {}
  PROVE  /\ Greatest(S) \in S
         /\ \A t \in S : t <= Greatest(S)
<1> DEFINE T == {B - s : s \in S}
<1>1. T \subseteq Nat /\ T # {}
  <2>1. \A s \in S : s \in Int /\ s <= B
    OBVIOUS
  <2>2. \A s \in S : B - s \in Nat
    BY <2>1
  <2> QED
    BY <2>2
<1> HIDE DEF T
<1>2. PICK m \in T : \A u \in T : ~(<<u, m>> \in OpToRel(<, Nat))
  BY <1>1, WFMin, NatLessThanWellFounded
<1>3. \A u \in T : ~(u < m)
  BY <1>1, <1>2 DEF OpToRel
<1>4. PICK s \in S : m = B - s
  BY DEF T
<1>5. ASSUME NEW t \in S
      PROVE  t <= s
  <2>1. B - t \in T
    BY DEF T
  <2> QED
    BY <1>3, <1>4, <2>1
<1>6. \E g \in S : \A t \in S : t <= g
  BY <1>5
<1> QED
  BY <1>6 DEF Greatest

\* An initial segment is 0 .. n-1 where n is its size: the size of
\* id_to_offset_ is a slot nobody uses, and the first such.
LEMMA InitialSegment ==
  ASSUME NEW S \in SUBSET Nat, IsFiniteSet(S), DownwardClosed(S)
  PROVE  S = 0 .. Cardinality(S) - 1
<1> DEFINE n == Cardinality(S)
<1>1. n \in Nat
  BY FS_CardinalityType
<1>2. n \notin S
  <2> SUFFICES ASSUME n \in S PROVE FALSE
    OBVIOUS
  <2>1. 0 .. n \in SUBSET S
    BY DEF DownwardClosed
  <2>2. Cardinality(0 .. n) = n + 1
    BY <1>1, FS_Interval
  <2> HIDE DEF n
  <2>3. Cardinality(0 .. n) <= Cardinality(S)
    BY <2>1, FS_Subset
  <2> QED
    BY <1>1, <2>2, <2>3 DEF n
<1>3. ASSUME NEW t \in 0 .. n - 1, t \notin S PROVE FALSE
  <2>1. \A s \in S : s < t
    <3> TAKE s \in S
    <3> SUFFICES ASSUME t <= s PROVE FALSE
      BY <1>1
    <3> QED
      BY <1>1, <1>3 DEF DownwardClosed
  <2>2. S \in SUBSET (0 .. t - 1)
    BY <1>1, <2>1
  <2>3. IsFiniteSet(0 .. t - 1) /\ Cardinality(0 .. t - 1) = t
    <3> HIDE DEF n
    <3>1. t \in Nat /\ t - 1 \in Int /\ (0 > t - 1 => t = 0)
      BY <1>1, <1>3
    <3> QED
      BY <3>1, FS_Interval
  <2>4. Cardinality(S) <= t
    BY <2>2, <2>3, FS_Subset
  <2> QED
    BY <1>1, <1>3, <2>4
<1>4. \A s \in S : s <= n - 1
  <2> TAKE s \in S
  <2> SUFFICES ASSUME n <= s PROVE FALSE
    BY <1>1
  <2> QED
    BY <1>1, <1>2 DEF DownwardClosed
<1>5. 0 .. n - 1 \subseteq S
  BY <1>3
<1>6. S \subseteq 0 .. n - 1
  BY <1>1, <1>4
<1> QED
  BY <1>5, <1>6

------------------------------------------------------------------------------
(* The inductive invariant.                                                *)

\* Where slots are: the checked invariants restated without cardinalities,
\* with what holds inside compact()'s loop.
IdsApart    == \A a, b \in Live : slotOf[a] = slotOf[b] => a = b
VacantApart == \A i, j \in DOMAIN freeSlots : freeSlots[i] = freeSlots[j] => i = j
UsedNotVacant == Ready => Used \cap Vacant = {}
Filled ==
    mapping \in {"mapped", "dangling"} /\ ~compacting => DownwardClosed(Used \cup Vacant)

\* The slots still to visit and the used ones fill the file: every iteration
\* takes away the highest of them.
CompactLoop ==
    compacting => /\ mapping \in {"mapped", "null"}
                  /\ compactLeft \subseteq Vacant
                  /\ mapping = "mapped" => /\ Used \cap compactLeft = {}
                                           /\ DownwardClosed(Used \cup compactLeft)

MappingInFile == mapping = "mapped" => mapSlots <= fileSlots

SlotInv == /\ IdsApart
           /\ VacantApart
           /\ UsedNotVacant
           /\ Filled
           /\ CompactLoop
           /\ SlotsReachable
           /\ MappingInFile
           /\ DanglingOnlyWhenFull

IInv == TypeOK /\ SlotInv

------------------------------------------------------------------------------
(* The pieces the steps are made of.                                       *)

\* id_to_offset_.size() counts the slots in use.
LEMMA CountProperty ==
  ASSUME TypeOK, IdsApart
  PROVE  /\ IsFiniteSet(Live) /\ Count \in Nat
         /\ Used \in SUBSET Nat
         /\ IsFiniteSet(Used) /\ Cardinality(Used) = Count
<1>1. IsFiniteSet(Live)
  BY ConstantsAssumption, FS_Subset DEF Live
<1>2. Count \in Nat
  BY <1>1, FS_CardinalityType DEF Count
<1>3. Used \in SUBSET Nat
  BY DEF TypeOK, Used, Live
<1> DEFINE f == [id \in Live |-> slotOf[id]]
<1>4. f \in Bijection(Live, Used)
  BY DEF IdsApart, Used, Bijection, Injection, Surjection, IsInjective
<1>5. ExistsBijection(Live, Used)
  BY <1>4 DEF ExistsBijection
<1> QED
  BY <1>1, <1>2, <1>3, <1>5, FS_Bijection DEF Count

\* A store without a hole gives its size out as the next slot.
LEMMA FreshSlot ==
  ASSUME TypeOK, IdsApart, DownwardClosed(Used)
  PROVE  Used = 0 .. Count - 1
BY CountProperty, InitialSegment

\* A store that holds as many vectors as it has slots has no hole.
LEMMA FullStore ==
  ASSUME TypeOK, IdsApart, \A s \in Used : s < capacity, Count >= capacity
  PROVE  Used = 0 .. Count - 1 /\ Count = capacity
<1>1. /\ Count \in Nat /\ capacity \in Nat /\ Used \in SUBSET Nat
      /\ IsFiniteSet(Used) /\ Cardinality(Used) = Count
  BY CountProperty DEF TypeOK
<1>2. Used \in SUBSET (0 .. capacity - 1)
  BY <1>1
<1>3. IsFiniteSet(0 .. capacity - 1) /\ Cardinality(0 .. capacity - 1) = capacity
  <2>1. capacity - 1 \in Int /\ (0 > capacity - 1 => capacity = 0)
    BY <1>1
  <2> QED
    BY <1>1, <2>1, FS_Interval
<1>4. Cardinality(Used) <= capacity
  BY <1>2, <1>3, FS_Subset
<1>5. Count = capacity
  BY <1>1, <1>4
<1>6. Used = 0 .. capacity - 1
  BY <1>1, <1>2, <1>3, <1>5, FS_Subset
<1> QED
  BY <1>5, <1>6

\* Indexing a new id in a slot nobody uses.
LEMMA Indexed ==
  ASSUME TypeOK, IdsApart, NEW id \in Ids, id \notin Live, NEW s \in Nat, s \notin Used,
         slotOf' = [slotOf EXCEPT ![id] = s]
  PROVE  /\ Live' = Live \cup {id}
         /\ Used' = Used \cup {s}
         /\ IdsApart'
         /\ slotOf' \in [Ids -> Nat \cup {NoSlot}]
<1>1. slotOf \in [Ids -> Nat \cup {NoSlot}] /\ s # NoSlot
  BY DEF TypeOK, NoSlot
<1>2. \A i \in Ids : slotOf'[i] = IF i = id THEN s ELSE slotOf[i]
  BY <1>1
<1>3. Live' = Live \cup {id}
  BY <1>1, <1>2 DEF Live
<1>4. Used' = Used \cup {s}
  BY <1>2, <1>3 DEF Used, Live
<1>5. IdsApart'
  BY <1>2, <1>3 DEF IdsApart, Used, Live
<1> QED
  BY <1>1, <1>3, <1>4, <1>5

\* Unindexing a stored id.
LEMMA Unindexed ==
  ASSUME TypeOK, IdsApart, NEW id \in Live, slotOf' = [slotOf EXCEPT ![id] = NoSlot]
  PROVE  /\ Live' = Live \ {id}
         /\ Used' = Used \ {slotOf[id]}
         /\ IdsApart'
         /\ slotOf' \in [Ids -> Nat \cup {NoSlot}]
<1>1. slotOf \in [Ids -> Nat \cup {NoSlot}] /\ id \in Ids
  BY DEF TypeOK, Live
<1>2. \A i \in Ids : slotOf'[i] = IF i = id THEN NoSlot ELSE slotOf[i]
  BY <1>1
<1>3. Live' = Live \ {id}
  BY <1>1, <1>2 DEF Live
<1>4. Used' = Used \ {slotOf[id]}
  BY <1>2, <1>3 DEF Used, Live, IdsApart
<1>5. IdsApart'
  BY <1>2, <1>3 DEF IdsApart, Live
<1> QED
  BY <1>1, <1>3, <1>4, <1>5

\* free_slots_.push_back
LEMMA Pushed ==
  ASSUME TypeOK, VacantApart, NEW s \in Nat, s \notin Vacant,
         freeSlots' = Append(freeSlots, s)
  PROVE  /\ freeSlots' \in Seq(Nat)
         /\ Vacant' = Vacant \cup {s}
         /\ VacantApart'
<1>1. freeSlots \in Seq(Nat)
  BY DEF TypeOK
<1>2. /\ freeSlots' \in Seq(Nat) /\ Len(freeSlots') = Len(freeSlots) + 1
      /\ Len(freeSlots) \in Nat /\ DOMAIN freeSlots = 1 .. Len(freeSlots)
      /\ DOMAIN freeSlots' = 1 .. Len(freeSlots) + 1
      /\ \A i \in 1 .. Len(freeSlots) : freeSlots'[i] = freeSlots[i]
      /\ freeSlots'[Len(freeSlots) + 1] = s
  BY <1>1
<1>3. Vacant' = Vacant \cup {s}
  BY <1>2 DEF Vacant
<1>4. VacantApart'
  BY <1>2 DEF VacantApart, Vacant
<1> QED
  BY <1>2, <1>3, <1>4

\* free_slots_.back and pop_back
LEMMA Popped ==
  ASSUME TypeOK, VacantApart, freeSlots # <<>>,
         freeSlots' = SubSeq(freeSlots, 1, Len(freeSlots) - 1)
  PROVE  /\ freeSlots' \in Seq(Nat)
         /\ freeSlots[Len(freeSlots)] \in Vacant
         /\ freeSlots[Len(freeSlots)] \in Nat
         /\ Vacant' = Vacant \ {freeSlots[Len(freeSlots)]}
         /\ VacantApart'
<1>1. freeSlots \in Seq(Nat)
  BY DEF TypeOK
<1> DEFINE n == Len(freeSlots)
<1>2. n \in Nat \ {0} /\ DOMAIN freeSlots = 1 .. n
  BY <1>1
<1>3. /\ freeSlots' \in Seq(Nat) /\ DOMAIN freeSlots' = 1 .. n - 1
      /\ \A i \in 1 .. n - 1 : freeSlots'[i] = freeSlots[i]
  BY <1>1, <1>2
<1>4. freeSlots[n] \in Vacant /\ freeSlots[n] \in Nat
  BY <1>1, <1>2 DEF Vacant
<1>5. Vacant' = Vacant \ {freeSlots[n]}
  <2>1. Vacant' = {freeSlots[i] : i \in 1 .. n - 1}
    BY <1>3 DEF Vacant
  <2>2. Vacant = {freeSlots[i] : i \in 1 .. n}
    BY <1>2 DEF Vacant
  <2>3. \A i \in 1 .. n - 1 : freeSlots[i] # freeSlots[n]
    BY <1>2 DEF VacantApart
  <2> HIDE DEF n
  <2>4. 1 .. n = (1 .. n - 1) \cup {n}
    BY <1>2
  <2> QED
    BY <2>1, <2>2, <2>3, <2>4
<1>6. VacantApart'
  BY <1>2, <1>3 DEF VacantApart
<1> QED
  BY <1>3, <1>4, <1>5, <1>6

------------------------------------------------------------------------------
(* The invariant holds initially and every action preserves it.            *)

\* The empty store of a first process satisfies the inductive invariant.
LEMMA InitIInv == Init => IInv
<1> SUFFICES ASSUME Init PROVE IInv
  OBVIOUS
<1>1. Live = {} /\ Used = {} /\ Vacant = {}
  BY DEF Init, Live, Used, Vacant
<1>2. TypeOK
  <2>1. freeSlots \in Seq(Nat) /\ compactLeft \in SUBSET Nat
    BY DEF Init
  <2>2. InitialCapacity \in Nat
    BY ConstantsAssumption
  <2> QED
    BY <2>1, <2>2 DEF Init, TypeOK, Replies
<1>3. SlotInv
  BY <1>1, ConstantsAssumption
     DEF Init, SlotInv, IdsApart, VacantApart, UsedNotVacant, Filled, CompactLoop,
         SlotsReachable, MappingInFile, DanglingOnlyWhenFull, DownwardClosed
<1> QED
  BY <1>2, <1>3 DEF IInv

\* add into a vacated slot keeps the invariant: the slot leaves the stack and
\* becomes the id's alone.
LEMMA AddRecycledIInv ==
  ASSUME IInv, Ready, NEW id \in Ids, NEW v \in Vectors, id \notin Live,
         AddRecycled(id, v)
  PROVE  IInv'
<1> USE DEF IInv, SlotInv
<1> DEFINE s == freeSlots[Len(freeSlots)]
<1>1. /\ freeSlots' \in Seq(Nat) /\ s \in Vacant /\ s \in Nat
      /\ Vacant' = Vacant \ {s} /\ VacantApart'
  BY Popped DEF AddRecycled
<1>2. s \notin Used /\ mapping # "dangling"
  BY <1>1 DEF UsedNotVacant, DanglingOnlyWhenFull, AddRecycled
<1> HIDE DEF s
<1>3. UNCHANGED <<mapVars, fileSlots, headerCapacity, compactVars>> /\ Place(id, v, s)
  BY DEF AddRecycled, s
<1>4. CASE mapping' = "mapped" /\ HasPointer(s, capacity', mapSlots')
  <2>1. /\ disk' = [disk EXCEPT ![s] = v] /\ slotOf' = [slotOf EXCEPT ![id] = s]
        /\ reply' = "ok"
    BY <1>3, <1>4 DEF Place
  <2>2. /\ Used' = Used \cup {s} /\ IdsApart' /\ Live' = Live \cup {id}
        /\ slotOf' \in [Ids -> Nat \cup {NoSlot}]
    BY <1>1, <1>2, <2>1, Indexed
  <2>3. TypeOK'
    BY <1>1, <1>3, <2>1, <2>2 DEF TypeOK, mapVars, compactVars, Replies
  <2>4. Used' \cup Vacant' = Used \cup Vacant
    BY <1>1, <2>2
  <2> QED
    BY <1>1, <1>2, <1>3, <1>4, <2>2, <2>3, <2>4
       DEF UsedNotVacant, Filled, CompactLoop, SlotsReachable, MappingInFile,
           DanglingOnlyWhenFull, mapVars, compactVars, Ready
<1>5. CASE mapping' = "null" \/ ~HasPointer(s, capacity', mapSlots')
  <2>1. mapping' = "null"
    BY <1>1, <1>2, <1>3, <1>5
       DEF SlotsReachable, HasPointer, mapVars, Ready, TypeOK
  <2>2. UNCHANGED <<disk, slotOf>> /\ reply' = "IoError"
    BY <1>3, <2>1 DEF Place
  <2>3. TypeOK'
    BY <1>1, <1>3, <2>2 DEF TypeOK, mapVars, compactVars, Replies
  <2>4. Live' = Live /\ Used' = Used
    BY <2>2 DEF Live, Used
  <2> QED
    BY <1>1, <1>2, <1>3, <2>1, <2>2, <2>3, <2>4
       DEF IdsApart, UsedNotVacant, Filled, CompactLoop, SlotsReachable, MappingInFile,
           DanglingOnlyWhenFull, mapVars, compactVars, Ready
<1> QED
  BY <1>3, <1>4, <1>5 DEF Place

\* Extending an initial segment by its own size.
LEMMA ExtendedSegment ==
  ASSUME NEW n \in Nat
  PROVE  DownwardClosed((0 .. n - 1) \cup {n})
BY DEF DownwardClosed

\* add into the first slot never used keeps the invariant.
LEMMA AddFreshIInv ==
  ASSUME IInv, Ready, NEW id \in Ids, NEW v \in Vectors, id \notin Live,
         AddFresh(id, v)
  PROVE  IInv'
<1> USE DEF IInv, SlotInv
<1>1. /\ UNCHANGED <<mapVars, fileSlots, headerCapacity, freeSlots, compactVars>>
      /\ Place(id, v, Count) /\ freeSlots = <<>> /\ Count < capacity
  BY DEF AddFresh
<1>2. /\ Count \in Nat /\ Vacant = {} /\ Vacant' = {} /\ mapping # "dangling"
      /\ VacantApart'
  <2>1. Count \in Nat /\ capacity \in Nat
    BY CountProperty DEF TypeOK
  <2>2. Vacant = {} /\ Vacant' = {} /\ VacantApart'
    BY <1>1 DEF Vacant, VacantApart
  <2> QED
    BY <1>1, <2>1, <2>2 DEF DanglingOnlyWhenFull
<1>3. CASE mapping' = "mapped" /\ HasPointer(Count, capacity', mapSlots')
  <2>1. /\ disk' = [disk EXCEPT ![Count] = v] /\ slotOf' = [slotOf EXCEPT ![id] = Count]
        /\ reply' = "ok"
    BY <1>1, <1>3 DEF Place
  <2>2. Used = 0 .. Count - 1
    BY <1>1, <1>2, <1>3, FreshSlot DEF Filled, Ready, mapVars
  <2>3. /\ Used' = Used \cup {Count} /\ IdsApart' /\ Live' = Live \cup {id}
        /\ slotOf' \in [Ids -> Nat \cup {NoSlot}]
    <3>1. Count \notin Used
      BY <1>2, <2>2
    <3> QED
      BY <1>2, <2>1, <3>1, Indexed
  <2>4. TypeOK'
    BY <1>1, <2>1, <2>3 DEF TypeOK, mapVars, compactVars, Replies
  <2>5. DownwardClosed(Used')
    BY <1>2, <2>2, <2>3, ExtendedSegment
  <2>6. Used' \cup Vacant' = Used'
    BY <1>2
  <2> QED
    BY <1>1, <1>2, <1>3, <2>2, <2>3, <2>4, <2>5, <2>6
       DEF UsedNotVacant, Filled, CompactLoop, SlotsReachable, MappingInFile,
           DanglingOnlyWhenFull, mapVars, compactVars, Ready
<1>4. CASE mapping' = "null" \/ ~HasPointer(Count, capacity', mapSlots')
  <2>1. mapping' = "null"
    BY <1>1, <1>2, <1>4 DEF SlotsReachable, HasPointer, mapVars, Ready, TypeOK
  <2>2. UNCHANGED <<disk, slotOf>> /\ reply' = "IoError"
    BY <1>1, <2>1 DEF Place
  <2>3. TypeOK'
    BY <1>1, <2>2 DEF TypeOK, mapVars, compactVars, Replies
  <2>4. Live' = Live /\ Used' = Used
    BY <2>2 DEF Live, Used
  <2> QED
    BY <1>1, <1>2, <2>1, <2>2, <2>3, <2>4
       DEF IdsApart, UsedNotVacant, Filled, CompactLoop, SlotsReachable, MappingInFile,
           DanglingOnlyWhenFull, mapVars, compactVars, Ready
<1> QED
  BY <1>1, <1>3, <1>4 DEF Place

\* What both ways of doubling have in common.
LEMMA GrownIInv ==
  ASSUME IInv, Ready, NEW id \in Ids, NEW v \in Vectors, id \notin Live,
         freeSlots = <<>>, Count >= capacity,
         mapping' = "mapped", mapSlots' \in Nat, fileSlots' \in Nat,
         Doubled <= mapSlots', mapSlots' <= fileSlots', fileSlots' <= MaxSlots,
         capacity' = Doubled, headerCapacity' = Doubled,
         UNCHANGED <<freeSlots, compactVars>>,
         Place(id, v, Count)
  PROVE  IInv'
<1> USE DEF IInv, SlotInv
<1>1. Used = 0 .. Count - 1 /\ Count = capacity /\ Count \in Nat
  BY FullStore, CountProperty DEF SlotsReachable, Ready
<1>2. Vacant = {} /\ Vacant' = {} /\ VacantApart' /\ ~compacting'
  BY DEF Vacant, VacantApart, compactVars, Ready
<1>3. Doubled \in Nat /\ Doubled >= capacity
  BY <1>1 DEF Doubled
<1>4. CASE HasPointer(Count, capacity', mapSlots')
  <2>1. /\ disk' = [disk EXCEPT ![Count] = v] /\ slotOf' = [slotOf EXCEPT ![id] = Count]
        /\ reply' = "ok"
    BY <1>4 DEF Place
  <2>2. /\ Used' = Used \cup {Count} /\ IdsApart' /\ Live' = Live \cup {id}
        /\ slotOf' \in [Ids -> Nat \cup {NoSlot}]
    <3>1. Count \notin Used
      BY <1>1
    <3> QED
      BY <1>1, <2>1, <3>1, Indexed
  <2>3. TypeOK'
    BY <1>3, <2>1, <2>2 DEF TypeOK, compactVars, Replies
  <2>4. DownwardClosed(Used') /\ Used' \cup Vacant' = Used'
    BY <1>1, <1>2, <2>2, ExtendedSegment
  <2>5. \A s \in Used' : s < capacity'
    BY <1>1, <1>3, <1>4, <2>2 DEF HasPointer
  <2>6. SlotsReachable'
    BY <1>2, <1>3, <2>5 DEF SlotsReachable
  <2> QED
    BY <1>2, <2>2, <2>3, <2>4, <2>6
       DEF UsedNotVacant, Filled, CompactLoop, MappingInFile, DanglingOnlyWhenFull
<1>5. CASE ~HasPointer(Count, capacity', mapSlots')
  <2>1. UNCHANGED <<disk, slotOf>> /\ reply' = "IoError"
    BY <1>5 DEF Place
  <2>2. TypeOK'
    BY <1>3, <2>1 DEF TypeOK, compactVars, Replies
  <2>3. Live' = Live /\ Used' = Used
    BY <2>1 DEF Live, Used
  <2>4. IdsApart'
    BY <2>1, <2>3 DEF IdsApart
  <2>5. DownwardClosed(Used') /\ Used' \cup Vacant' = Used'
    BY <1>1, <1>2, <2>3 DEF DownwardClosed
  <2>6. \A s \in Used' : s < capacity'
    BY <1>1, <1>3, <2>3
  <2>7. SlotsReachable'
    BY <1>2, <1>3, <2>6 DEF SlotsReachable
  <2> QED
    BY <1>2, <2>2, <2>3, <2>4, <2>5, <2>7
       DEF UsedNotVacant, Filled, CompactLoop, MappingInFile, DanglingOnlyWhenFull
<1> QED
  BY <1>4, <1>5

\* add that extends and remaps the file keeps the invariant.
LEMMA AddGrowsIInv ==
  ASSUME IInv, Ready, NEW id \in Ids, NEW v \in Vectors, id \notin Live,
         AddGrows(id, v)
  PROVE  IInv'
<1>1. capacity \in Nat /\ PageSlots \in Nat
  BY ConstantsAssumption DEF IInv, TypeOK
<1>2. PICK pages \in Doubled .. Doubled + PageSlots - 1 :
         /\ pages <= MaxSlots /\ mapping' = "mapped"
         /\ mapSlots' = pages /\ fileSlots' = pages
  BY DEF AddGrows
<1>3. pages \in Nat /\ Doubled <= pages
  BY <1>1 DEF Doubled
<1> QED
  BY <1>2, <1>3, GrownIInv DEF AddGrows

\* add that only doubles capacity_, the mapping being long enough, keeps it.
LEMMA AddGrowsInPlaceIInv ==
  ASSUME IInv, Ready, NEW id \in Ids, NEW v \in Vectors, id \notin Live,
         AddGrowsInPlace(id, v)
  PROVE  IInv'
BY GrownIInv
   DEF AddGrowsInPlace, IInv, TypeOK, SlotInv, MappingInFile, SlotsReachable

\* add whose ftruncate or mmap fails keeps the invariant: what it leaves is a
\* full store without a mapping.
LEMMA AddCannotGrowIInv ==
  ASSUME IInv, Ready, AddCannotGrow
  PROVE  IInv'
<1> USE DEF IInv, SlotInv
<1>1. capacity \in Nat /\ PageSlots \in Nat
  BY ConstantsAssumption DEF TypeOK
<1>2. /\ fileSlots' \in Nat /\ fileSlots' <= MaxSlots
      /\ fileSlots' = fileSlots \/ Doubled <= fileSlots'
      /\ mapping' \in {"null", "dangling"}
      /\ mapping' = "dangling" => mapping # "null"
  BY <1>1 DEF AddCannotGrow, Doubled, TypeOK, SlotsReachable
<1>3. /\ UNCHANGED <<mapSlots, capacity, disk, headerCapacity, slotOf, freeSlots, compactVars>>
      /\ reply' = "IoError" /\ freeSlots = <<>> /\ Count >= capacity
  BY DEF AddCannotGrow
<1>4. TypeOK'
  BY <1>2, <1>3 DEF TypeOK, Replies, compactVars
<1>5. Live' = Live /\ Used' = Used /\ Vacant' = Vacant /\ Count' = Count
  BY <1>3 DEF Live, Used, Vacant, Count
<1>6. headerCapacity <= fileSlots'
  BY <1>1, <1>2 DEF SlotsReachable, Doubled, TypeOK, Ready
<1>7. mapping' = "dangling" => mapping \in {"mapped", "dangling"}
  BY <1>2 DEF TypeOK, Ready
<1> QED
  BY <1>2, <1>3, <1>4, <1>5, <1>6, <1>7
     DEF IdsApart, VacantApart, UsedNotVacant, Filled, CompactLoop, SlotsReachable,
         MappingInFile, DanglingOnlyWhenFull, Ready, compactVars

\* remove keeps the invariant: the slot passes from the id to the free list.
LEMMA RemoveIInv ==
  ASSUME IInv, NEW id \in Ids, Remove(id)
  PROVE  IInv'
<1> USE DEF IInv, SlotInv
<1>1. /\ Ready /\ mapping # "dangling" /\ id \in Live
      /\ freeSlots' = Append(freeSlots, slotOf[id])
      /\ slotOf' = [slotOf EXCEPT ![id] = NoSlot]
      /\ reply' \in Replies
      /\ UNCHANGED <<fileVars, mapVars, compactVars>>
  BY DEF Remove, Replies
<1>2. slotOf[id] \in Used /\ slotOf[id] \in Nat
  BY <1>1 DEF Used, Live, TypeOK
<1>3. slotOf[id] \notin Vacant
  BY <1>1, <1>2 DEF UsedNotVacant
<1>4. /\ freeSlots' \in Seq(Nat) /\ Vacant' = Vacant \cup {slotOf[id]} /\ VacantApart'
  BY <1>1, <1>2, <1>3, Pushed
<1>5. /\ Used' = Used \ {slotOf[id]} /\ IdsApart'
      /\ slotOf' \in [Ids -> Nat \cup {NoSlot}]
  BY <1>1, Unindexed
<1>6. TypeOK'
  BY <1>1, <1>4, <1>5 DEF TypeOK, fileVars, mapVars, compactVars
<1>7. Used' \cup Vacant' = Used \cup Vacant /\ Used' \cap Vacant' = {}
  BY <1>1, <1>2, <1>4, <1>5 DEF UsedNotVacant
<1> QED
  BY <1>1, <1>4, <1>5, <1>6, <1>7
     DEF UsedNotVacant, Filled, CompactLoop, SlotsReachable, MappingInFile,
         DanglingOnlyWhenFull, fileVars, mapVars, compactVars, Ready

\* The loop of compact starts with every vacated slot left to visit.
LEMMA CompactStartIInv ==
  ASSUME IInv, CompactStart
  PROVE  IInv'
<1> USE DEF IInv, SlotInv
<1>1. /\ Ready /\ freeSlots # <<>> /\ compacting' = TRUE /\ compactLeft' = Vacant
      /\ reply' = "none" /\ UNCHANGED <<fileVars, mapVars, slotOf, freeSlots>>
  BY DEF CompactStart
<1>2. Vacant \in SUBSET Nat
  BY DEF TypeOK, Vacant
<1>3. TypeOK'
  BY <1>1, <1>2 DEF TypeOK, fileVars, mapVars, Replies
<1>4. Live' = Live /\ Used' = Used /\ Vacant' = Vacant
  BY <1>1 DEF Live, Used, Vacant
<1>5. mapping \in {"mapped", "null"}
  BY <1>1 DEF DanglingOnlyWhenFull, TypeOK, Ready
<1>6. CompactLoop'
  BY <1>1, <1>4, <1>5 DEF CompactLoop, UsedNotVacant, Filled, Ready, mapVars
<1> QED
  BY <1>1, <1>3, <1>4, <1>5, <1>6
     DEF IdsApart, VacantApart, UsedNotVacant, Filled, SlotsReachable, MappingInFile,
         DanglingOnlyWhenFull, fileVars, mapVars, Ready

\* Removing the greatest element of an initial segment.
LEMMA ShortenedSegment ==
  ASSUME NEW S \in SUBSET Nat, DownwardClosed(S), NEW m \in S, \A s \in S : s <= m
  PROVE  DownwardClosed(S \ {m})
BY DEF DownwardClosed

\* One iteration of compact() in a mapped store, when there is something to
\* move: the highest vector goes to the visited slot.
LEMMA MovedSlots ==
  ASSUME IInv, compacting, mapping = "mapped",
         NEW hole \in compactLeft, NEW top \in Used, hole < top,
         \A s \in compactLeft : s <= hole, \A s \in Used : s <= top,
         slotOf' = [id \in Ids |-> IF slotOf[id] = top THEN hole ELSE slotOf[id]]
  PROVE  /\ slotOf' \in [Ids -> Nat \cup {NoSlot}]
         /\ Live' = Live
         /\ Used' = (Used \ {top}) \cup {hole}
         /\ IdsApart'
         /\ DownwardClosed(Used' \cup (compactLeft \ {hole}))
         /\ Used' \cap (compactLeft \ {hole}) = {}
<1> USE DEF IInv, SlotInv
<1>1. /\ compactLeft \in SUBSET Nat /\ Used \in SUBSET Nat
      /\ slotOf \in [Ids -> Nat \cup {NoSlot}] /\ NoSlot \notin Nat
  BY CountProperty DEF TypeOK, NoSlot
<1>2. Used \cap compactLeft = {} /\ DownwardClosed(Used \cup compactLeft)
  BY DEF CompactLoop
<1>3. \A i \in Ids : slotOf'[i] = IF slotOf[i] = top THEN hole ELSE slotOf[i]
  OBVIOUS
<1>4. Live' = Live
  BY <1>1, <1>3 DEF Live
<1>5. slotOf' \in [Ids -> Nat \cup {NoSlot}]
  BY <1>1
<1>6. PICK t \in Live : slotOf[t] = top
  BY DEF Used
<1>7. Used' = (Used \ {top}) \cup {hole}
  BY <1>3, <1>4, <1>6 DEF Used, Live
<1>8. IdsApart'
  BY <1>2, <1>3, <1>4 DEF IdsApart, Used, Live
<1>9. Used' \cup (compactLeft \ {hole}) = (Used \cup compactLeft) \ {top}
  BY <1>2, <1>7
<1>10. \A s \in Used \cup compactLeft : s <= top
  BY <1>1
<1>11. DownwardClosed(Used' \cup (compactLeft \ {hole}))
  BY <1>1, <1>2, <1>9, <1>10, ShortenedSegment
<1>12. Used' \cap (compactLeft \ {hole}) = {}
  BY <1>2, <1>7
<1> QED
  BY <1>4, <1>5, <1>7, <1>8, <1>11, <1>12

\* The two slots an iteration looks at.
LEMMA VisitedSlots ==
  ASSUME IInv, compacting, compactLeft # {}
  PROVE  /\ Greatest(compactLeft) \in compactLeft
         /\ \A s \in compactLeft : s <= Greatest(compactLeft)
         /\ Greatest(Used \cup {0}) \in Used \cup {0}
         /\ \A s \in Used : s <= Greatest(Used \cup {0})
<1> USE DEF IInv, SlotInv
<1>1. /\ capacity \in Nat /\ compactLeft \in SUBSET Nat /\ Used \in SUBSET Nat
      /\ \A s \in Used \cup compactLeft : s < capacity
  BY CountProperty DEF TypeOK, CompactLoop, SlotsReachable
<1>2. compactLeft \in SUBSET (0 .. capacity) /\ Used \cup {0} \in SUBSET (0 .. capacity)
  BY <1>1
<1> QED
  BY <1>1, <1>2, GreatestProperty

\* An iteration of compact keeps the invariant: the vector in the highest slot
\* moves into the visited one, or stays because the slot is above it.
LEMMA CompactMoveIInv ==
  ASSUME IInv, CompactMove
  PROVE  IInv'
<1> USE DEF IInv, SlotInv
<1> DEFINE hole == Greatest(compactLeft)
           top  == Greatest(Used \cup {0})
           moves == /\ hole < top /\ mapping = "mapped"
                    /\ HasPointer(top, capacity, mapSlots)
                    /\ HasPointer(hole, capacity, mapSlots)
<1>1. /\ compacting /\ compactLeft # {} /\ compactLeft' = compactLeft \ {hole}
      /\ UNCHANGED <<fileSlots, headerCapacity, mapVars, freeSlots, compacting, reply>>
  BY DEF CompactMove
<1>2. /\ hole \in compactLeft /\ \A s \in compactLeft : s <= hole
      /\ top \in Used \cup {0} /\ \A s \in Used : s <= top
  BY <1>1, VisitedSlots
<1>3. /\ compactLeft \in SUBSET Nat /\ Used \in SUBSET Nat /\ hole \in Nat /\ top \in Nat
      /\ capacity \in Nat /\ mapSlots \in Nat
  <2>1. compactLeft \in SUBSET Nat /\ capacity \in Nat /\ mapSlots \in Nat
    BY DEF TypeOK
  <2>2. Used \in SUBSET Nat
    BY CountProperty
  <2> HIDE DEF hole, top
  <2> QED
    BY <1>2, <2>1, <2>2
<1>4. Vacant' = Vacant /\ VacantApart'
  BY <1>1 DEF Vacant, VacantApart
<1>5. ~Ready' /\ compacting' /\ mapping' = mapping /\ capacity' = capacity /\ mapSlots' = mapSlots
  BY <1>1 DEF Ready, mapVars
<1>6. /\ moves => /\ disk' = [disk EXCEPT ![hole] = disk[top]]
                  /\ slotOf' = [id \in Ids |-> IF slotOf[id] = top THEN hole ELSE slotOf[id]]
      /\ ~moves => UNCHANGED <<disk, slotOf>>
  BY DEF CompactMove
<1>7. \A s \in Used \cup Vacant : s < capacity
  BY <1>1 DEF SlotsReachable, CompactLoop
<1> HIDE DEF hole, top
<1>8. CASE moves
  <2>1. top \in Used
    BY <1>2, <1>3, <1>8
  <2>2. /\ slotOf' \in [Ids -> Nat \cup {NoSlot}] /\ IdsApart'
        /\ Used' = (Used \ {top}) \cup {hole}
        /\ DownwardClosed(Used' \cup compactLeft')
        /\ Used' \cap compactLeft' = {}
    BY <1>1, <1>2, <1>6, <1>8, <2>1, MovedSlots
  <2>3. top \in Slots
    BY <1>3, <1>7, <1>8, <2>1, ConstantsAssumption DEF SlotsReachable, TypeOK, Slots
  <2>4. disk' \in [Slots -> Vectors \cup {Blank}]
    BY <1>6, <1>8, <2>3 DEF TypeOK
  <2>5. TypeOK'
    BY <1>1, <2>2, <2>4 DEF TypeOK, mapVars
  <2>6. hole \in Vacant
    BY <1>1, <1>2 DEF CompactLoop
  <2>7. \A s \in Used' \cup Vacant' : s < capacity'
    BY <1>4, <1>5, <1>7, <2>2, <2>6
  <2> QED
    BY <1>1, <1>4, <1>5, <2>2, <2>5, <2>7
       DEF UsedNotVacant, Filled, CompactLoop, SlotsReachable, MappingInFile,
           DanglingOnlyWhenFull
<1>9. CASE ~moves
  <2>1. Live' = Live /\ Used' = Used /\ disk' = disk /\ slotOf' = slotOf
    BY <1>6, <1>9 DEF Live, Used
  <2>2. TypeOK'
    BY <1>1, <2>1 DEF TypeOK, mapVars
  <2>3. IdsApart'
    BY <2>1 DEF IdsApart
  <2>4. ASSUME mapping = "mapped"
        PROVE  /\ Used' \cap compactLeft' = {}
               /\ DownwardClosed(Used' \cup compactLeft')
    <3>1. Used \cap compactLeft = {} /\ DownwardClosed(Used \cup compactLeft)
      BY <1>1, <2>4 DEF CompactLoop
    <3>2. \A s \in Used \cup Vacant : s < mapSlots
      BY <1>3, <1>7, <2>4, CountProperty DEF SlotsReachable, Vacant, TypeOK
    <3>3. hole \in Vacant
      BY <1>1, <1>2 DEF CompactLoop
    <3>4. ~(hole < top)
      <4> SUFFICES ASSUME hole < top PROVE FALSE
        OBVIOUS
      <4>1. top \in Used
        BY <1>2, <1>3
      <4> QED
        BY <1>7, <1>9, <2>4, <3>2, <3>3, <4>1 DEF HasPointer
    <3>5. \A s \in Used \cup compactLeft : s <= hole
      BY <1>2, <1>3, <3>4
    <3>6. Used' \cup compactLeft' = (Used \cup compactLeft) \ {hole}
      BY <1>1, <1>2, <2>1, <3>1
    <3> QED
      BY <1>1, <1>2, <1>3, <2>1, <3>1, <3>5, <3>6, ShortenedSegment
  <2> QED
    BY <1>1, <1>4, <1>5, <1>7, <2>1, <2>2, <2>3, <2>4
       DEF UsedNotVacant, Filled, CompactLoop, SlotsReachable, MappingInFile,
           DanglingOnlyWhenFull, mapVars
<1> QED
  BY <1>8, <1>9

\* When compact clears the free list, the used slots fill the file from its
\* start: no slot is lost.
LEMMA CompactEndIInv ==
  ASSUME IInv, CompactEnd
  PROVE  IInv'
<1> USE DEF IInv, SlotInv
<1>1. /\ compacting /\ compactLeft = {} /\ freeSlots' = <<>> /\ compacting' = FALSE
      /\ reply' = "ok" /\ UNCHANGED <<fileVars, mapVars, slotOf, compactLeft>>
  BY DEF CompactEnd
<1>2. TypeOK'
  <2>1. freeSlots' \in Seq(Nat) /\ reply' \in Replies
    BY <1>1 DEF Replies
  <2>3. compacting' \in BOOLEAN
    BY <1>1
  <2>2. /\ mapping' \in {"mapped", "null", "dangling", "down"}
        /\ mapSlots' \in Nat /\ fileSlots' \in Nat /\ capacity' \in Nat
        /\ headerCapacity' \in Nat /\ disk' \in [Slots -> Vectors \cup {Blank}]
        /\ slotOf' \in [Ids -> Nat \cup {NoSlot}] /\ compactLeft' \in SUBSET Nat
    BY <1>1 DEF TypeOK, fileVars, mapVars
  <2> HIDE DEF IInv, SlotInv
  <2> QED
    BY <2>1, <2>2, <2>3 DEF TypeOK
<1>3. Live' = Live /\ Used' = Used /\ Vacant' = {} /\ VacantApart'
  BY <1>1 DEF Live, Used, Vacant, VacantApart
<1>4. mapping \in {"mapped", "null"} /\ (mapping = "mapped" => DownwardClosed(Used'))
  BY <1>1, <1>3 DEF CompactLoop
<1>5. Used' \cup Vacant' = Used'
  BY <1>3
<1> QED
  BY <1>1, <1>2, <1>3, <1>4, <1>5
     DEF IdsApart, UsedNotVacant, Filled, CompactLoop, SlotsReachable, MappingInFile,
         DanglingOnlyWhenFull, fileVars, mapVars

\* The end of the process, by a fault or otherwise.
LEMMA DiesIInv ==
  ASSUME IInv, Dies, UNCHANGED <<fileVars, mapSlots, capacity, slotOf, freeSlots>>
  PROVE  IInv'
<1> USE DEF IInv, SlotInv
<1>1. /\ mapping' = "down" /\ compacting' = FALSE /\ compactLeft' = {} /\ reply' = "none"
  BY DEF Dies
<1>2. TypeOK'
  BY <1>1 DEF TypeOK, fileVars, Replies
<1>3. Live' = Live /\ Used' = Used /\ Vacant' = Vacant
  BY DEF Live, Used, Vacant
<1> QED
  BY <1>1, <1>2, <1>3
     DEF IdsApart, VacantApart, UsedNotVacant, Filled, CompactLoop, SlotsReachable,
         MappingInFile, DanglingOnlyWhenFull, fileVars, Ready

\* init on an existing file starts a process that satisfies the invariant,
\* wherever the last one died.
LEMMA ReopenIInv ==
  ASSUME IInv, Reopen
  PROVE  IInv'
<1> USE DEF IInv, SlotInv
<1>1. /\ mapping = "down" /\ mapping' = "mapped" /\ mapSlots' = fileSlots
      /\ capacity' = headerCapacity /\ slotOf' = [id \in Ids |-> NoSlot]
      /\ freeSlots' = <<>> /\ reply' = "none" /\ UNCHANGED <<fileVars, compactVars>>
  BY DEF Reopen
<1>2. TypeOK'
  <2>1. /\ freeSlots' \in Seq(Nat) /\ slotOf' \in [Ids -> Nat \cup {NoSlot}]
        /\ mapping' \in {"mapped", "null", "dangling", "down"} /\ reply' \in Replies
    BY <1>1 DEF Replies
  <2>2. /\ mapSlots' \in Nat /\ fileSlots' \in Nat /\ capacity' \in Nat
        /\ headerCapacity' \in Nat /\ disk' \in [Slots -> Vectors \cup {Blank}]
        /\ compacting' \in BOOLEAN /\ compactLeft' \in SUBSET Nat
    BY <1>1 DEF TypeOK, fileVars, compactVars
  <2> HIDE DEF IInv, SlotInv
  <2> QED
    BY <2>1, <2>2 DEF TypeOK
<1>3. Live' = {} /\ Used' = {} /\ Vacant' = {} /\ VacantApart'
  BY <1>1 DEF Live, Used, Vacant, VacantApart
<1>4. ~compacting'
  BY <1>1 DEF compactVars, CompactLoop
<1> QED
  BY <1>1, <1>2, <1>3, <1>4
     DEF IdsApart, UsedNotVacant, Filled, CompactLoop, SlotsReachable, MappingInFile,
         DanglingOnlyWhenFull, fileVars, DownwardClosed, TypeOK

\* An operation that is refused for its argument changes the reply only.
LEMMA RefusedIInv ==
  ASSUME IInv, reply' \in Replies,
         UNCHANGED <<fileVars, mapVars, slotOf, freeSlots, compactVars>>
  PROVE  IInv'
<1>1. Live' = Live /\ Used' = Used /\ Vacant' = Vacant /\ Count' = Count
  BY DEF Live, Used, Vacant, Count
<1> QED
  BY <1>1
     DEF IInv, SlotInv, TypeOK, IdsApart, VacantApart, UsedNotVacant, Filled, CompactLoop,
         SlotsReachable, MappingInFile, DanglingOnlyWhenFull, Ready, fileVars, mapVars,
         compactVars

\* Every step of the store keeps the invariant.
LEMMA NextIInv == IInv /\ [Next]_vars => IInv'
<1> SUFFICES ASSUME IInv, [Next]_vars PROVE IInv'
  OBVIOUS
<1>1. ASSUME NEW id \in Ids, NEW v \in Vectors, Add(id, v) PROVE IInv'
  BY <1>1, AddRecycledIInv, AddFreshIInv, AddGrowsIInv, AddGrowsInPlaceIInv,
     AddCannotGrowIInv DEF Add
<1>2. ASSUME NEW id \in Ids, AddDuplicate(id) PROVE IInv'
  BY <1>2, RefusedIInv DEF AddDuplicate, Replies
<1>3. ASSUME NEW id \in Ids, Remove(id) PROVE IInv'
  BY <1>3, RemoveIInv
<1>4. ASSUME NEW id \in Ids, RemoveMissing(id) PROVE IInv'
  BY <1>4, RefusedIInv DEF RemoveMissing, Replies
<1>5. CASE Fault
  BY <1>5, DiesIInv DEF Fault
<1>6. CASE CompactStart
  BY <1>6, CompactStartIInv
<1>7. CASE CompactMove
  BY <1>7, CompactMoveIInv
<1>8. CASE CompactEnd
  BY <1>8, CompactEndIInv
<1>9. CASE Stop
  BY <1>9, DiesIInv DEF Stop
<1>10. CASE Reopen
  BY <1>10, ReopenIInv
<1>11. CASE UNCHANGED vars
  BY <1>11, RefusedIInv DEF vars, IInv, TypeOK, fileVars, mapVars, compactVars
<1> QED
  BY <1>1, <1>2, <1>3, <1>4, <1>5, <1>6, <1>7, <1>8, <1>9, <1>10, <1>11 DEF Next

\* The strengthening the safety theorems follow from holds in every reachable
\* state of the store.
THEOREM Inductive == Spec => []IInv
BY InitIInv, NextIInv, PTL DEF Spec

------------------------------------------------------------------------------
(* The properties.                                                         *)

\* The variables keep their types: the slot add() indexes is always a number.
THEOREM TypeCorrect == Spec => []TypeOK
BY Inductive, PTL DEF IInv

\* No vector overwrites another: the free list and the index never hand out
\* a slot that is in use, for any number of ids, any sequence of operations
\* and any failure of the file system.
THEOREM NeverShared == Spec => []SlotsDistinct
<1>1. IInv => SlotsDistinct
  BY DEF IInv, SlotInv, IdsApart, VacantApart, UsedNotVacant, SlotsDistinct
<1> QED
  BY <1>1, Inductive, PTL

\* Every slot in use or on the free list can be reached, now and in a process
\* started on the file after a crash at any point.
THEOREM AlwaysReachable == Spec => []SlotsReachable
BY Inductive, PTL DEF IInv, SlotInv

\* The mapping dangles only in a full store.
THEOREM DanglesWhenFull == Spec => []DanglingOnlyWhenFull
BY Inductive, PTL DEF IInv, SlotInv

\* Used and vacated slots fill the file from its start without a gap.
THEOREM Gapless == Spec => []NoGaps
<1>1. IInv => NoGaps
  <2> SUFFICES ASSUME IInv, mapping \in {"mapped", "dangling"}, ~compacting
               PROVE  Used \cup Vacant = 0 .. Cardinality(Used \cup Vacant) - 1
    BY DEF NoGaps
  <2> DEFINE S == Used \cup Vacant
  <2>1. S \in SUBSET Nat /\ capacity \in Nat /\ capacity - 1 \in Int
    BY CountProperty DEF IInv, SlotInv, TypeOK, Vacant
  <2>2. \A s \in S : s < capacity
    BY DEF IInv, SlotInv, SlotsReachable
  <2>3. DownwardClosed(S)
    BY DEF IInv, SlotInv, Filled
  <2> HIDE DEF S
  <2>4. S \in SUBSET (0 .. capacity - 1)
    BY <2>1, <2>2
  <2>5. IsFiniteSet(0 .. capacity - 1)
    BY <2>1, FS_Interval
  <2>6. IsFiniteSet(S)
    BY <2>4, <2>5, FS_Subset
  <2>7. S = 0 .. Cardinality(S) - 1
    BY <2>1, <2>3, <2>6, InitialSegment
  <2> QED
    BY <2>7 DEF S
<1> QED
  BY <1>1, Inductive, PTL

------------------------------------------------------------------------------
(* VectorStore implements VectorMap.                                       *)

\* Every stored id has a slot of the file with a vector in it.
Stored == \A id \in Live : slotOf[id] \in Slots /\ disk[slotOf[id]] \in Vectors

\* A step that leaves the index and the file alone.
LEMMA SameContents ==
  ASSUME Stored, UNCHANGED <<disk, slotOf>>
  PROVE  Stored' /\ Contents' = Contents
BY DEF Stored, Contents, Live

\* An add writes one slot that nobody uses, or fails without a trace.
LEMMA AddCases ==
  ASSUME IInv, NEW id \in Ids, NEW v \in Vectors, Add(id, v)
  PROVE  \/ UNCHANGED <<disk, slotOf>>
         \/ \E s \in Slots : /\ s \notin Used
                            /\ disk' = [disk EXCEPT ![s] = v]
                            /\ slotOf' = [slotOf EXCEPT ![id] = s]
<1> USE DEF IInv, SlotInv
<1>1. Ready /\ id \notin Live
  BY DEF Add
<1>2. capacity \in Nat /\ capacity <= MaxSlots /\ Count \in Nat
  BY <1>1, CountProperty, ConstantsAssumption DEF TypeOK, SlotsReachable, Ready
<1>3. ASSUME NEW s \in Nat, s \notin Used, Place(id, v, s), capacity' \in Nat,
             capacity' <= MaxSlots
      PROVE  \/ UNCHANGED <<disk, slotOf>>
             \/ \E t \in Slots : /\ t \notin Used
                                /\ disk' = [disk EXCEPT ![t] = v]
                                /\ slotOf' = [slotOf EXCEPT ![id] = t]
  <2>1. HasPointer(s, capacity', mapSlots') => s \in Slots
    BY <1>3, ConstantsAssumption DEF HasPointer, Slots
  <2> QED
    BY <1>3, <2>1 DEF Place
<1>4. CASE AddRecycled(id, v)
  <2>1. freeSlots[Len(freeSlots)] \in Vacant /\ freeSlots[Len(freeSlots)] \in Nat
    BY <1>4, Popped DEF AddRecycled
  <2>2. freeSlots[Len(freeSlots)] \notin Used
    BY <1>1, <2>1 DEF UsedNotVacant
  <2> QED
    BY <1>2, <1>3, <1>4, <2>1, <2>2 DEF AddRecycled, mapVars
<1>5. CASE AddFresh(id, v)
  <2>1. mapping' = mapping /\ capacity' = capacity /\ Place(id, v, Count)
    BY <1>5 DEF AddFresh, mapVars
  <2>2. CASE mapping = "mapped"
    <3>1. Vacant = {} /\ Used \cup Vacant = Used
      BY <1>5 DEF AddFresh, Vacant
    <3>2. Used = 0 .. Count - 1
      BY <1>1, <2>2, <3>1, FreshSlot DEF Filled, Ready
    <3>3. Count \notin Used
      BY <1>2, <3>2
    <3> QED
      BY <1>2, <1>3, <2>1, <3>3
  <2>3. CASE mapping # "mapped"
    BY <2>1, <2>3 DEF Place
  <2> QED
    BY <2>2, <2>3
<1>6. CASE AddGrows(id, v) \/ AddGrowsInPlace(id, v)
  <2>1. Used = 0 .. Count - 1
    BY <1>1, <1>6, FullStore DEF SlotsReachable, Ready, AddGrows, AddGrowsInPlace
  <2>2. Count \notin Used
    BY <1>2, <2>1
  <2>3. capacity' = Doubled /\ Doubled \in Nat /\ Doubled <= MaxSlots
    <3>1. Doubled \in Nat /\ PageSlots \in Nat /\ MaxSlots \in Nat
      BY <1>2, ConstantsAssumption DEF Doubled
    <3>2. CASE AddGrows(id, v)
      <4>1. PICK pages \in Doubled .. Doubled + PageSlots - 1 : pages <= MaxSlots
        BY <3>2 DEF AddGrows
      <4>2. capacity' = Doubled
        BY <3>2 DEF AddGrows
      <4> QED
        BY <3>1, <4>1, <4>2
    <3>3. CASE AddGrowsInPlace(id, v)
      BY <3>1, <3>3 DEF AddGrowsInPlace, MappingInFile, SlotsReachable, TypeOK
    <3> QED
      BY <1>6, <3>2, <3>3
  <2>4. Place(id, v, Count)
    BY <1>6 DEF AddGrows, AddGrowsInPlace
  <2> QED
    BY <1>2, <1>3, <2>2, <2>3, <2>4
<1>7. CASE AddCannotGrow
  BY <1>7 DEF AddCannotGrow
<1> QED
  BY <1>4, <1>5, <1>6, <1>7 DEF Add

\* Such a write is the dictionary's Put.
LEMMA PutStep ==
  ASSUME IInv, Stored, NEW id \in Ids, id \notin Live, NEW v \in Vectors,
         NEW s \in Slots, s \notin Used,
         disk' = [disk EXCEPT ![s] = v], slotOf' = [slotOf EXCEPT ![id] = s]
  PROVE  Stored' /\ Map!Put(id, v)
<1> USE DEF IInv, SlotInv
<1>1. s \in Nat /\ disk \in [Slots -> Vectors \cup {Blank}]
  BY ConstantsAssumption DEF TypeOK, Slots
<1>2. Live' = Live \cup {id}
  BY <1>1, Indexed
<1>3. \A i \in Ids : slotOf'[i] = IF i = id THEN s ELSE slotOf[i]
  BY DEF TypeOK
<1>4. \A t \in Slots : disk'[t] = IF t = s THEN v ELSE disk[t]
  BY <1>1
<1>5. \A i \in Live : slotOf[i] # s /\ i # id /\ slotOf[i] \in Slots
  BY DEF Used, Stored
<1>6. Stored'
  BY <1>2, <1>3, <1>4, <1>5 DEF Stored, Live
<1>7. \A i \in Ids : Contents'[i] = IF i = id THEN v ELSE Contents[i]
  BY <1>2, <1>3, <1>4, <1>5 DEF Contents
<1>8. Contents' = [Contents EXCEPT ![id] = v]
  BY <1>7 DEF Contents
<1>9. Contents[id] = Blank
  BY DEF Contents
<1> QED
  BY <1>6, <1>8, <1>9 DEF Map!Put

\* remove, failed or not, is the dictionary's Delete.
LEMMA DeleteStep ==
  ASSUME IInv, Stored, NEW id \in Ids, Remove(id)
  PROVE  Stored' /\ Map!Delete(id)
<1> USE DEF IInv, SlotInv
<1>1. id \in Live /\ slotOf' = [slotOf EXCEPT ![id] = NoSlot] /\ disk' = disk
  BY DEF Remove, fileVars
<1>2. Live' = Live \ {id}
  BY <1>1, Unindexed
<1>3. \A i \in Ids : slotOf'[i] = IF i = id THEN NoSlot ELSE slotOf[i]
  BY <1>1 DEF TypeOK
<1>4. Stored'
  BY <1>1, <1>2, <1>3 DEF Stored, Live
<1>5. \A i \in Ids : Contents'[i] = IF i = id THEN Blank ELSE Contents[i]
  BY <1>1, <1>2, <1>3 DEF Contents
<1>6. Contents' = [Contents EXCEPT ![id] = Blank]
  BY <1>5 DEF Contents
<1>7. Contents[id] # Blank
  BY <1>1, ConstantsAssumption DEF Contents, Stored
<1> QED
  BY <1>4, <1>6, <1>7 DEF Map!Delete

\* Compaction moves vectors and changes none.
LEMMA CompactStep ==
  ASSUME IInv, Stored, CompactMove
  PROVE  Stored' /\ Contents' = Contents
<1> USE DEF IInv, SlotInv
<1> DEFINE hole == Greatest(compactLeft)
           top  == Greatest(Used \cup {0})
<1>1. /\ compacting /\ hole \in compactLeft /\ top \in Used \cup {0}
      /\ \A t \in compactLeft : t <= hole /\ \A u \in Used : u <= top
  BY VisitedSlots DEF CompactMove
<1>2. CASE UNCHANGED <<disk, slotOf>>
  BY <1>2, SameContents
<1>3. CASE /\ hole < top /\ mapping = "mapped"
           /\ disk' = [disk EXCEPT ![hole] = disk[top]]
           /\ slotOf' = [id \in Ids |-> IF slotOf[id] = top THEN hole ELSE slotOf[id]]
  <2> HIDE DEF hole, top
  <2>1. hole \in Nat /\ hole \in Vacant
    BY <1>1 DEF TypeOK, CompactLoop
  <2>2. hole < capacity /\ capacity <= MaxSlots
    BY <1>3, <2>1, ConstantsAssumption DEF SlotsReachable, TypeOK
  <2>3. hole \in Slots
    BY <2>1, <2>2, ConstantsAssumption DEF TypeOK, Slots
  <2>4. top \in Used
    BY <1>1, <1>3, <2>1
  <2>5. Used \cap compactLeft = {}
    BY <1>1, <1>3 DEF CompactLoop
  <2>6. \A i \in Ids : slotOf'[i] = IF slotOf[i] = top THEN hole ELSE slotOf[i]
    BY <1>3
  <2>7. \A t \in Slots : disk'[t] = IF t = hole THEN disk[top] ELSE disk[t]
    BY <1>3 DEF TypeOK
  <2>8. hole # NoSlot /\ top # NoSlot
    BY <2>1, <1>1, <1>3 DEF NoSlot, Used, Live
  <2>9. Live' = Live
    BY <2>6, <2>8 DEF Live
  <2>10. \A i \in Live : slotOf[i] # hole /\ slotOf[i] \in Slots
    BY <1>1, <2>5 DEF Used, Stored
  <2>11. \A i \in Live : slotOf'[i] \in Slots /\ disk'[slotOf'[i]] = disk[slotOf[i]]
    BY <2>3, <2>6, <2>7, <2>10 DEF Live
  <2> QED
    BY <2>9, <2>11 DEF Stored, Contents
<1> QED
  BY <1>2, <1>3 DEF CompactMove

\* init, finding no ids in the file, empties the dictionary.
LEMMA RestartStep ==
  ASSUME Reopen
  PROVE  Stored' /\ Map!Restart
<1>1. slotOf' = [id \in Ids |-> NoSlot]
  BY DEF Reopen
<1>2. Live' = {}
  BY <1>1 DEF Live
<1> QED
  BY <1>2 DEF Stored, Contents, Map!Restart

\* Every step of the store is a step of the dictionary or none of its business.
LEMMA Simulation ==
  IInv /\ Stored /\ [Next]_vars => Stored' /\ [Map!Update \/ Map!Restart]_Contents
<1> SUFFICES ASSUME IInv, Stored, [Next]_vars
             PROVE  Stored' /\ [Map!Update \/ Map!Restart]_Contents
  OBVIOUS
<1>1. ASSUME NEW id \in Ids, NEW v \in Vectors, Add(id, v)
      PROVE  Stored' /\ [Map!Update \/ Map!Restart]_Contents
  <2>1. CASE UNCHANGED <<disk, slotOf>>
    BY <2>1, SameContents
  <2>2. ASSUME NEW s \in Slots, s \notin Used,
               disk' = [disk EXCEPT ![s] = v], slotOf' = [slotOf EXCEPT ![id] = s]
        PROVE  Stored' /\ Map!Update
    <3>1. Stored' /\ Map!Put(id, v)
      BY <1>1, <2>2, PutStep DEF Add
    <3> QED
      BY <3>1 DEF Map!Update
  <2> QED
    BY <1>1, <2>1, <2>2, AddCases
<1>2. ASSUME NEW id \in Ids, AddDuplicate(id) \/ RemoveMissing(id)
      PROVE  Stored' /\ Contents' = Contents
  BY <1>2, SameContents DEF AddDuplicate, RemoveMissing, fileVars
<1>3. ASSUME NEW id \in Ids, Remove(id)
      PROVE  Stored' /\ Map!Update
  BY <1>3, DeleteStep DEF Map!Update
<1>4. CASE Fault \/ CompactStart \/ CompactEnd \/ Stop \/ UNCHANGED vars
  BY <1>4, SameContents DEF Fault, CompactStart, CompactEnd, Stop, vars, fileVars
<1>5. CASE CompactMove
  BY <1>5, CompactStep
<1>6. CASE Reopen
  BY <1>6, RestartStep
<1> QED
  BY <1>1, <1>2, <1>3, <1>4, <1>5, <1>6 DEF Next

\* The store is a dictionary of vectors: growth, slot reuse, compaction and
\* failing system calls never lose, swap or resurrect a vector while the
\* process lives.
THEOREM Refinement == Spec => ImplementsMap
<1>1. Init => Stored /\ Map!Init
  <2> SUFFICES ASSUME Init PROVE Stored /\ Map!Init
    OBVIOUS
  <2>1. Live = {}
    BY DEF Init, Live
  <2> QED
    BY <2>1 DEF Stored, Contents, Map!Init
<1> QED
  BY <1>1, Simulation, Inductive, PTL DEF Spec, ImplementsMap, Map!Spec

------------------------------------------------------------------------------
(* The views get() hands out.                                              *)

\* The step from here moves no stored vector and changes none.
ViewsKept == \A id \in Live \cap Live' : /\ slotOf'[id] = slotOf[id]
                                       /\ disk'[slotOf[id]] = disk[slotOf[id]]

\* An add writes a slot no view is of.
LEMMA AddKeepsViews ==
  ASSUME IInv, Stored, NEW id \in Ids, NEW v \in Vectors, Add(id, v)
  PROVE  ViewsKept
<1>1. CASE UNCHANGED <<disk, slotOf>>
  BY <1>1 DEF ViewsKept
<1>2. ASSUME NEW s \in Slots, s \notin Used,
             disk' = [disk EXCEPT ![s] = v], slotOf' = [slotOf EXCEPT ![id] = s]
      PROVE  ViewsKept
  <2>1. id \notin Live
    BY DEF Add
  <2>2. \A i \in Live : slotOf'[i] = slotOf[i]
    BY <1>2, <2>1 DEF IInv, TypeOK, Live
  <2>3. \A i \in Live : slotOf[i] # s /\ slotOf[i] \in Slots
    BY <1>2 DEF Used, Stored
  <2>4. \A i \in Live : disk'[slotOf[i]] = disk[slotOf[i]]
    BY <1>2, <2>3 DEF IInv, TypeOK
  <2> QED
    BY <2>2, <2>4 DEF ViewsKept
<1> QED
  BY <1>1, <1>2, AddCases

\* While a process lives and compact() is not running, the vector a view is of
\* neither moves nor changes: growth, failing system calls and the adds and
\* removals of other ids leave it where it is.
THEOREM ViewsStay == Spec => ViewsAreStable
<1>1. IInv /\ Stored /\ [Next]_vars =>
        [mapping' # "down" /\ mapping # "down" /\ ~compacting =>
           \A id \in Live \cap Live' : /\ slotOf'[id] = slotOf[id]
                                       /\ disk'[slotOf[id]] = disk[slotOf[id]]]_vars
  <2> SUFFICES ASSUME IInv, Stored, Next, mapping' # "down", mapping # "down", ~compacting
               PROVE  ViewsKept
    BY DEF ViewsKept
  <2>1. ASSUME NEW id \in Ids, NEW v \in Vectors, Add(id, v)
        PROVE  ViewsKept
    BY <2>1, AddKeepsViews
  <2>2. ASSUME NEW id \in Ids, AddDuplicate(id) \/ RemoveMissing(id)
        PROVE  ViewsKept
    BY <2>2 DEF AddDuplicate, RemoveMissing, fileVars, ViewsKept
  <2>3. ASSUME NEW id \in Ids, Remove(id)
        PROVE  ViewsKept
    <3>1. disk' = disk /\ \A i \in Ids : i # id => slotOf'[i] = slotOf[i]
      BY <2>3 DEF Remove, fileVars, IInv, TypeOK
    <3>2. id \notin Live'
      BY <2>3 DEF Remove, IInv, TypeOK, Live
    <3> QED
      BY <3>1, <3>2 DEF ViewsKept, Live
  <2>4. CASE CompactStart
    BY <2>4 DEF CompactStart, fileVars, ViewsKept
  <2>5. ~Fault /\ ~CompactMove /\ ~CompactEnd /\ ~Stop /\ ~Reopen
    BY DEF Fault, Stop, Dies, CompactMove, CompactEnd, Reopen
  <2> QED
    BY <2>1, <2>2, <2>3, <2>4, <2>5 DEF Next
<1>2. Spec => []Stored
  <2>1. Init => Stored
    BY DEF Init, Live, Stored
  <2> QED
    BY <2>1, Simulation, Inductive, PTL DEF Spec
<1> QED
  BY <1>1, <1>2, Inductive, PTL DEF Spec, ViewsAreStable
==============================================================================
