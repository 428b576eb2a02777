----------------------------- MODULE StoresProofs -----------------------------
(***************************************************************************)
(* Theorems about the stores and indexes beside the database's own: for    *)
(* any number of objects, files, callers, documents and fields, any times, *)
(* and whichever calls fail.                                               *)
(***************************************************************************)
EXTENDS Stores, Recursions, FiniteSetTheorems, SequenceTheorems, WellFoundedInduction, TLAPS

------------------------------------------------------------------------------
(* FlatIndex.                                                              *)

Stored == Vectors \cup {Zero}

\* What the states of the index and its file look like.
Shapes ==
    /\ ids \in Seq(Ids) /\ vectors \in Seq(Stored) /\ Len(ids) = Len(vectors)
    /\ id_to_index \in [Ids -> Nat]
    /\ sound \in BOOLEAN
    /\ file # None => /\ file \in [count : Nat, ids : Seq(Ids), vectors : Seq(Stored)]
                      /\ Len(file.ids) = Len(file.vectors)
                      /\ Len(file.ids) <= file.count

\* The two invariants need each other: Add looks for an id in the map only,
\* and what Load finds in the file was in memory when it was saved.
IInv == Shapes /\ PlacesAreLast /\ NoIdTwice

------------------------------------------------------------------------------
\* The map that load makes names the last place of each id that has one, and
\* place 0 for the others.
LEMMA LastPlaceProperty ==
  ASSUME NEW all \in Seq(Ids), NEW id \in Ids
  PROVE  /\ LastPlace(all) \in [Ids -> Nat]
         /\ LastPlace(all)[id] # 0 => /\ LastPlace(all)[id] \in DOMAIN all
                                      /\ all[LastPlace(all)[id]] = id
         /\ \A j \in DOMAIN all : all[j] = id => j <= LastPlace(all)[id]
<1> DEFINE Last(x, i) == i \in DOMAIN all /\ all[i] = x /\ \A j \in DOMAIN all : all[j] = x => j <= i
<1>1. DOMAIN all = 1 .. Len(all) /\ Len(all) \in Nat
  BY LenProperties
<1>2. ASSUME NEW x \in Ids, NEW i \in DOMAIN all, all[i] = x
      PROVE  \E k \in DOMAIN all : Last(x, k)
  <2> DEFINE T == {Len(all) - j : j \in {j \in DOMAIN all : all[j] = x}}
  <2>1. T \subseteq Nat /\ T # {}
    BY <1>1, <1>2
  <2>2. PICK m \in T : \A u \in T : ~(<<u, m>> \in OpToRel(<, Nat))
    <3> HIDE DEF T
    <3> QED BY <2>1, WFMin, NatLessThanWellFounded
  <2>3. \A u \in T : ~(u < m)
    <3> HIDE DEF T
    <3> QED BY <2>1, <2>2 DEF OpToRel
  <2>4. PICK k \in DOMAIN all : all[k] = x /\ m = Len(all) - k
    BY DEF T
  <2>5. ASSUME NEW j \in DOMAIN all, all[j] = x
        PROVE  j <= k
    <3>1. Len(all) - j \in T
      BY <2>5
    <3>2. ~(Len(all) - j < Len(all) - k)
      BY <2>3, <2>4, <3>1
    <3> QED
      BY <1>1, <3>2
  <2> QED
    BY <2>4, <2>5
<1>3. ASSUME NEW x \in Ids
      PROVE  \/ LastPlace(all)[x] = 0 /\ ~\E i \in DOMAIN all : all[i] = x
             \/ Last(x, LastPlace(all)[x])
  <2>1. CASE \E i \in DOMAIN all : all[i] = x
    <3>1. \E k \in DOMAIN all : Last(x, k)
      BY <1>2, <2>1
    <3>2. LastPlace(all)[x] = CHOOSE i \in DOMAIN all : all[i] = x /\ \A j \in DOMAIN all : all[j] = x => j <= i
      BY <2>1 DEF LastPlace
    <3> QED
      BY <3>1, <3>2
  <2>2. CASE ~\E i \in DOMAIN all : all[i] = x
    BY <2>2 DEF LastPlace
  <2> QED
    BY <2>1, <2>2
<1>4. ASSUME NEW x \in Ids
      PROVE  LastPlace(all)[x] \in Nat
  <2>1. LastPlace(all)[x] = 0 \/ LastPlace(all)[x] \in DOMAIN all
    BY <1>3
  <2> QED
    BY <1>1, <2>1
<1>5. LastPlace(all) = [x \in Ids |-> LastPlace(all)[x]]
  BY DEF LastPlace
<1> QED
  BY <1>3, <1>4, <1>5

\* What save writes is an initial segment of what is in memory.
LEMMA Segment ==
  ASSUME NEW S, NEW s \in Seq(S), NEW n \in 0 .. Len(s)
  PROVE  /\ SubSeq(s, 1, n) \in Seq(S) /\ Len(SubSeq(s, 1, n)) = n
         /\ \A i \in 1 .. n : SubSeq(s, 1, n)[i] = s[i]
  OBVIOUS

------------------------------------------------------------------------------
LEMMA InitIInv == Init => IInv
  BY DEF Init, IInv, Shapes, PlacesAreLast, NoIdTwice

LEMMA AddIInv ==
  ASSUME IInv, NEW id \in Ids, NEW v \in Vectors, Add(id, v)
  PROVE  IInv'
<1> USE DEF IInv, Add
<1>1. Shapes'
  BY DEF Shapes, Stored
<1>2. /\ Len(ids') = Len(ids) + 1 /\ DOMAIN ids' = DOMAIN ids \cup {Len(ids) + 1}
      /\ ids'[Len(ids) + 1] = id /\ \A i \in DOMAIN ids : ids'[i] = ids[i]
  BY DEF Shapes
<1>3. \A i \in DOMAIN ids : ids[i] # id
  BY DEF PlacesAreLast, Shapes
<1>4. PlacesAreLast'
  <2>1. id_to_index' = [id_to_index EXCEPT ![id] = Len(ids) + 1] /\ Len(ids) \in Nat
    BY DEF Shapes
  <2>2. Len(ids') = Len(vectors')
    BY <1>1 DEF Shapes
  <2>3. ASSUME NEW x \in Ids, id_to_index'[x] # 0
        PROVE  id_to_index'[x] \in DOMAIN ids' /\ ids'[id_to_index'[x]] = x
    <3>1. CASE x = id
      BY <1>2, <2>1, <3>1 DEF Shapes
    <3>2. CASE x # id
      BY <1>2, <2>1, <2>3, <3>2 DEF PlacesAreLast, Shapes
    <3> QED
      BY <3>1, <3>2
  <2>4. ASSUME NEW i \in DOMAIN ids'
        PROVE  ids'[i] \in Ids /\ i <= id_to_index'[ids'[i]]
    <3>1. CASE i = Len(ids) + 1
      BY <1>2, <2>1, <3>1 DEF Shapes
    <3>2. CASE i \in DOMAIN ids
      BY <1>2, <1>3, <2>1, <3>2 DEF PlacesAreLast, Shapes
    <3> QED
      BY <1>2, <3>1, <3>2
  <2> QED
    BY <2>2, <2>3, <2>4 DEF PlacesAreLast
<1>5. NoIdTwice'
  BY <1>2, <1>3 DEF NoIdTwice
<1> QED
  BY <1>1, <1>4, <1>5

LEMMA SaveIInv ==
  ASSUME IInv, NEW n \in 0 .. Len(ids), SaveUpTo(n)
  PROVE  IInv'
<1> USE DEF IInv, SaveUpTo
<1> DEFINE whole == SubSeq(ids, 1, n)
<1>1. whole \in Seq(Ids) /\ Len(whole) = n /\ \A i \in 1 .. n : whole[i] = ids[i]
  BY Segment DEF Shapes
<1>2. SubSeq(vectors, 1, n) \in Seq(Stored) /\ Len(SubSeq(vectors, 1, n)) = n
  BY Segment DEF Shapes
<1>3. file'.ids = whole /\ DOMAIN whole = 1 .. n /\ 1 .. n \subseteq DOMAIN ids
  BY <1>1 DEF Shapes
<1>4. Shapes'
  BY <1>1, <1>2 DEF Shapes
<1>5. PlacesAreLast'
  BY DEF PlacesAreLast
<1>6. NoIdTwice'
  <2> HIDE DEF whole
  <2> QED BY <1>1, <1>3 DEF NoIdTwice
<1> QED
  BY <1>4, <1>5, <1>6

LEMMA LoadIInv ==
  ASSUME IInv, Load
  PROVE  IInv'
<1> USE DEF IInv
<1>1. ids' \in Seq(Ids) /\ Len(ids') = file.count /\ vectors' \in Seq(Stored) /\ Len(vectors') = file.count
  <2>1. file # None /\ file.count \in Nat /\ file.ids \in Seq(Ids) /\ file.vectors \in Seq(Stored)
    BY DEF Load, Shapes
  <2>2. PICK garbage \in [1 .. file.count -> Ids] :
          ids' = [i \in 1 .. file.count |-> IF i <= Len(file.ids) THEN file.ids[i] ELSE garbage[i]]
    BY DEF Load
  <2>3. \A i \in 1 .. file.count : i <= Len(file.ids) => file.ids[i] \in Ids
    BY <2>1
  <2>4. ids' \in [1 .. file.count -> Ids]
    BY <2>2, <2>3
  <2>5. vectors' = [i \in 1 .. file.count |-> IF i <= Len(file.vectors) THEN file.vectors[i] ELSE Zero]
    BY DEF Load
  <2>6. \A i \in 1 .. file.count : i <= Len(file.vectors) => file.vectors[i] \in Stored
    BY <2>1
  <2>7. vectors' \in [1 .. file.count -> Stored]
    BY <2>5, <2>6 DEF Stored
  <2>8. ASSUME NEW S, NEW s, s \in [1 .. file.count -> S]
        PROVE  s \in Seq(S) /\ Len(s) = file.count
    BY <2>1, <2>8
  <2> QED
    BY <2>4, <2>7, <2>8
<1>2. /\ id_to_index' \in [Ids -> Nat]
      /\ \A id \in Ids : /\ id_to_index'[id] # 0 => /\ id_to_index'[id] \in DOMAIN ids'
                                                    /\ ids'[id_to_index'[id]] = id
                         /\ \A j \in DOMAIN ids' : ids'[j] = id => j <= id_to_index'[id]
  <2>1. CASE Ids = {}
    BY <1>1, <2>1 DEF Load, LastPlace
  <2>2. CASE Ids # {}
    BY <1>1, <2>2, LastPlaceProperty DEF Load
  <2> QED
    BY <2>1, <2>2
<1>3. Shapes'
  BY <1>1, <1>2 DEF Load, Shapes, Whole
<1>4. PlacesAreLast'
  BY <1>1, <1>2 DEF PlacesAreLast
<1>5. NoIdTwice'
  <2> SUFFICES ASSUME sound'
               PROVE  /\ \A i, j \in DOMAIN ids' : ids'[i] = ids'[j] => i = j
                      /\ file' # None => \A i, j \in DOMAIN file'.ids : file'.ids[i] = file'.ids[j] => i = j
    BY DEF NoIdTwice
  <2>1. sound /\ file' = file /\ file # None /\ Len(file.ids) = file.count
    BY DEF Load, Whole, Shapes
  <2>2. DOMAIN ids' = 1 .. file.count /\ DOMAIN file.ids = 1 .. file.count
        /\ \A i \in 1 .. file.count : ids'[i] = file.ids[i]
    BY <2>1 DEF Load, Shapes
  <2> QED
    BY <2>1, <2>2 DEF NoIdTwice
<1> QED
  BY <1>3, <1>4, <1>5

LEMMA NextIInv == IInv /\ [Next]_vars => IInv'
<1> SUFFICES ASSUME IInv, [Next]_vars PROVE IInv'
  OBVIOUS
<1>1. CASE \E id \in Ids, v \in Vectors : Add(id, v)
  BY <1>1, AddIInv
<1>2. CASE Save
  <2>1. Len(ids) \in 0 .. Len(ids)
    BY DEF IInv, Shapes
  <2> QED
    BY <1>2, <2>1, SaveIInv DEF Save
<1>3. CASE SaveInPart
  <2>1. PICK n \in 0 .. Len(ids) - 1 : SaveUpTo(n)
    BY <1>3 DEF SaveInPart
  <2>2. n \in 0 .. Len(ids)
    BY DEF IInv, Shapes
  <2> QED
    BY <2>1, <2>2, SaveIInv
<1>4. CASE Load
  BY <1>4, LoadIInv
<1>5. CASE UNCHANGED vars
  BY <1>5 DEF vars, IInv, Shapes, PlacesAreLast, NoIdTwice
<1> QED
  BY <1>1, <1>2, <1>3, <1>4, <1>5 DEF Next

LEMMA Inductive == Spec => []IInv
  BY InitIInv, NextIInv, PTL DEF Spec

------------------------------------------------------------------------------
\* Whatever is saved, cut short and loaded, get_vector and contains are about
\* the last entry of an id and search answers only ids that contains knows.
THEOREM LastPlaces == Spec => []PlacesAreLast
<1>1. IInv => PlacesAreLast
  BY DEF IInv
<1> QED
  BY <1>1, Inductive, PTL

\* While no file cut short is loaded, no id is in the index or its file twice.
THEOREM Unique == Spec => []NoIdTwice
<1>1. IInv => NoIdTwice
  BY DEF IInv
<1> QED
  BY <1>1, Inductive, PTL

------------------------------------------------------------------------------
(* What load brings back.                                                  *)

\* In memory the map names the last place of every id, so that loading the
\* entries again would make the same map.
LEMMA SameMap == IInv => id_to_index = LastPlace(ids)
<1> SUFFICES ASSUME IInv PROVE id_to_index = LastPlace(ids)
  OBVIOUS
<1> USE DEF IInv
<1>1. ids \in Seq(Ids) /\ DOMAIN ids = 1 .. Len(ids) /\ Len(ids) \in Nat /\ id_to_index \in [Ids -> Nat]
  BY DEF Shapes
<1>2. ASSUME NEW id \in Ids
      PROVE  LastPlace(ids)[id] = id_to_index[id]
  <2>1. /\ LastPlace(ids)[id] \in Nat
        /\ LastPlace(ids)[id] # 0 => /\ LastPlace(ids)[id] \in DOMAIN ids
                                     /\ ids[LastPlace(ids)[id]] = id
        /\ \A j \in DOMAIN ids : ids[j] = id => j <= LastPlace(ids)[id]
    BY <1>1, LastPlaceProperty
  <2>2. /\ id_to_index[id] \in Nat
        /\ id_to_index[id] # 0 => id_to_index[id] \in DOMAIN ids /\ ids[id_to_index[id]] = id
        /\ \A j \in DOMAIN ids : ids[j] = id => j <= id_to_index[id]
    BY <1>1 DEF PlacesAreLast
  <2> QED
    BY <1>1, <2>1, <2>2
<1>3. LastPlace(ids) = [id \in Ids |-> LastPlace(ids)[id]]
  BY DEF LastPlace
<1> QED
  BY <1>1, <1>2, <1>3

\* What a whole file holds, by id, is what the index held when it was written.
FileIsSaved ==
    file # None /\ Whole =>
        saved = [id \in Ids |-> IF LastPlace(file.ids)[id] = 0 THEN None
                                ELSE file.vectors[LastPlace(file.ids)[id]]]

LEMMA SaveKeeps ==
  ASSUME IInv, NEW n \in 0 .. Len(ids), SaveUpTo(n)
  PROVE  FileIsSaved'
<1> SUFFICES ASSUME Whole', file' # None PROVE FileIsSaved'
  BY DEF FileIsSaved
<1>1. /\ ids \in Seq(Ids) /\ vectors \in Seq(Stored) /\ Len(ids) = Len(vectors)
      /\ id_to_index \in [Ids -> Nat]
  BY DEF IInv, Shapes
<1>2. file' = [count |-> Len(vectors), ids |-> SubSeq(ids, 1, n), vectors |-> SubSeq(vectors, 1, n)]
      /\ saved' = Contents
  BY DEF SaveUpTo
<1>3. Len(SubSeq(ids, 1, n)) = n /\ Len(SubSeq(vectors, 1, n)) = n
  BY <1>1, Segment
<1>4. n = Len(ids)
  BY <1>1, <1>2, <1>3 DEF Whole
<1>5. SubSeq(ids, 1, n) = ids /\ SubSeq(vectors, 1, n) = vectors
  BY <1>1, <1>4
<1>6. file'.ids = ids /\ file'.vectors = vectors
  BY <1>2, <1>5
<1> QED
  BY <1>2, <1>6, SameMap DEF FileIsSaved, Contents

LEMMA NextKeeps == IInv /\ FileIsSaved /\ [Next]_vars => FileIsSaved'
<1> SUFFICES ASSUME IInv, FileIsSaved, [Next]_vars PROVE FileIsSaved'
  OBVIOUS
<1>1. CASE Save
  <2>1. Len(ids) \in 0 .. Len(ids)
    BY DEF IInv, Shapes
  <2> QED
    BY <1>1, <2>1, SaveKeeps DEF Save
<1>2. CASE SaveInPart
  <2>1. PICK n \in 0 .. Len(ids) - 1 : SaveUpTo(n)
    BY <1>2 DEF SaveInPart
  <2>2. n \in 0 .. Len(ids)
    BY DEF IInv, Shapes
  <2> QED
    BY <2>1, <2>2, SaveKeeps
<1>3. CASE UNCHANGED <<file, saved>>
  BY <1>3 DEF FileIsSaved, Whole
<1>4. (\E id \in Ids, v \in Vectors : Add(id, v)) \/ Load \/ UNCHANGED vars => UNCHANGED <<file, saved>>
  BY DEF Add, Load, vars
<1> QED
  BY <1>1, <1>2, <1>3, <1>4 DEF Next

LEMMA LoadStep == IInv /\ FileIsSaved /\ Load => LoadRestores
<1> SUFFICES ASSUME IInv, FileIsSaved, Load, Whole PROVE Contents' = saved
  BY DEF LoadRestores
<1>1. /\ file # None /\ Len(file.ids) = file.count /\ Len(file.vectors) = file.count
      /\ file.ids \in Seq(Ids) /\ file.vectors \in Seq(Stored)
  BY DEF Load, Whole, IInv, Shapes
<1>2. PICK garbage \in [1 .. file.count -> Ids] :
        ids' = [i \in 1 .. file.count |-> IF i <= Len(file.ids) THEN file.ids[i] ELSE garbage[i]]
  BY DEF Load
<1>3. vectors' = [i \in 1 .. file.count |-> IF i <= Len(file.vectors) THEN file.vectors[i] ELSE Zero]
      /\ id_to_index' = LastPlace(ids')
  BY DEF Load
<1>4. ids' = file.ids
  BY <1>1, <1>2
<1>5. vectors' = file.vectors
  BY <1>1, <1>3
<1> QED
  BY <1>1, <1>3, <1>4, <1>5 DEF FileIsSaved, Contents

\* From a file that is whole, however many cut-short ones were loaded before,
\* load brings back for every id what the index held at the save.
THEOREM Restores == Spec => [][LoadRestores]_vars
<1>1. Init => FileIsSaved
  BY DEF Init, FileIsSaved
<1>2. Spec => [](IInv /\ FileIsSaved)
  BY <1>1, InitIInv, NextIInv, NextKeeps, PTL DEF Spec
<1>3. IInv /\ FileIsSaved /\ [Next]_vars => [LoadRestores]_vars
  <2>1. Load \/ ~Load
    OBVIOUS
  <2> QED
    BY <2>1, LoadStep DEF LoadRestores
<1> QED
  BY <1>2, <1>3, PTL DEF Spec

------------------------------------------------------------------------------
(* SqliteStore.                                                            *)

\* Seconds cuts a time to a second: it is at most the time, and less than a
\* second before it; to cut it again changes nothing.
LEMMA Cuts ==
  ASSUME NEW t \in Int
  PROVE  /\ Sqlite!Seconds(t) \in Int
         /\ Sqlite!Seconds(t) <= t /\ t < Sqlite!Seconds(t) + Second
         /\ Sqlite!Seconds(Sqlite!Seconds(t)) = Sqlite!Seconds(t)
<1> DEFINE q == t \div Second
<1>1. Second \in Nat /\ Second > 0
  BY StoresAssumption
<1>2. q \in Int /\ q * Second <= t /\ t < q * Second + Second
  BY <1>1
<1>3. (q * Second) \div Second = q
  BY <1>1, <1>2
<1> QED
  BY <1>1, <1>2, <1>3 DEF Sqlite!Seconds

\* What time_to_string writes for a moment of the clock fits the tables.
LEMMA Written ==
  ASSUME NEW t \in Int, -Ttl <= t, t <= MaxTime
  PROVE  /\ Sqlite!time_to_string(t) = Sqlite!Seconds(t)
         /\ Sqlite!time_to_string(t) \in Sqlite!Times
<1>1. Sqlite!time_to_string(t) = Sqlite!Seconds(t)
  BY Cuts DEF Sqlite!time_to_string
<1>2. Sqlite!Times = -(Ttl + Second) .. MaxTime
  BY StoresAssumption DEF Sqlite!Times
<1>3. Sqlite!Seconds(t) \in -(Ttl + Second) .. MaxTime
  <2>1. Sqlite!Seconds(t) \in Int /\ Sqlite!Seconds(t) <= t /\ t < Sqlite!Seconds(t) + Second
    BY Cuts
  <2> QED
    BY <2>1, StoresAssumption
<1> QED
  BY <1>1, <1>2, <1>3

\* Besides the types: each entry of the cache is stamped with its own moment, what a
\* caller has read of a document is a second it was made in, and what an eviction
\* takes for old was old when it began.
Stamped == \A key \in Keys : cache[key] # None =>
              cache[key].timestamp = Sqlite!Seconds(cache[key].value)
ReadRight == \A t \in Callers : held[t] # None =>
                \E moment \in born[held[t].key] : held[t].created_at = Sqlite!Seconds(moment)
CutRight == \A t \in Callers : pc[t] = "evicting" => cutoff <= now - Ttl

SqliteInv == /\ Sqlite!TypeOK
             /\ born \in [Keys -> SUBSET Int]
             /\ answer \in Int /\ Sqlite!AnswersAreFresh
             /\ Sqlite!CreationIsKept
             /\ Stamped /\ ReadRight /\ CutRight

LEMMA SqliteStarts == Sqlite!Init => SqliteInv
<1> SUFFICES ASSUME Sqlite!Init
             PROVE  SqliteInv
  OBVIOUS
<1> USE NoneAssumption, StoresAssumption DEF Sqlite!Init
<1>1. 0 \in Sqlite!Times
  BY DEF Sqlite!Times
<1>2. Sqlite!TypeOK
  <2>1. now \in 0 .. MaxTime /\ mutex \in Callers \cup {None}
    OBVIOUS
  <2>5. opened \in BOOLEAN
    OBVIOUS
  <2>2. pc \in [Callers -> {"idle", "evicting", "locking again"}]
        /\ \A c \in Callers : pc[c] # "idle" <=> mutex = c
    OBVIOUS
  <2>3. cache \in [Keys -> [value : 0 .. now, timestamp : Sqlite!Times] \cup {None}]
        /\ sqlDocuments \in [Keys -> Sqlite!Times \cup {None}]
        /\ settings \in [Keys -> Settings \cup {None}]
    BY DEF Sqlite!Absent
  <2>4. cutoff \in Sqlite!Times
        /\ held \in [Callers -> [key : Keys, created_at : Sqlite!Times] \cup {None}]
    BY <1>1
  <2> QED
    BY <2>1, <2>2, <2>3, <2>4, <2>5 DEF Sqlite!TypeOK
<1>3. born \in [Keys -> SUBSET Int] /\ answer \in Int /\ Sqlite!AnswersAreFresh
  BY DEF Sqlite!AnswersAreFresh
<1>4. Sqlite!CreationIsKept
  BY DEF Sqlite!CreationIsKept, Sqlite!Absent
<1>5. Stamped /\ ReadRight /\ CutRight
  BY DEF Stamped, ReadRight, CutRight, Sqlite!Absent
<1> QED
  BY <1>2, <1>3, <1>4, <1>5 DEF SqliteInv

\* No operation disturbs the invariant, whoever calls it and whatever fails.
LEMMA SqliteSteps ==
  ASSUME SqliteInv, [Sqlite!Next]_(Sqlite!vars)
  PROVE  SqliteInv'
<1> USE NoneAssumption DEF SqliteInv, Sqlite!Untimed, Sqlite!tables, Sqlite!Ready, Sqlite!Locked
<1>0. now \in 0 .. MaxTime /\ now \in Int
  <2>1. now \in 0 .. MaxTime
    BY Zenon DEF Sqlite!TypeOK
  <2> QED
    BY <2>1, StoresAssumption
<1>1. CASE UNCHANGED Sqlite!vars
  BY <1>1 DEF Sqlite!vars, Sqlite!TypeOK, Sqlite!AnswersAreFresh, Sqlite!CreationIsKept, Stamped, ReadRight,
              CutRight
<1>2. CASE Sqlite!Tick
  <2>1. now' = now + 1 /\ answer' = 0
        /\ UNCHANGED <<opened, mutex, pc, cache, sqlDocuments, settings, cutoff, held, born>>
    BY <1>2 DEF Sqlite!Tick
  <2>2. Sqlite!TypeOK'
    <3>1. now' \in 0 .. MaxTime
      BY <1>0, <1>2, StoresAssumption DEF Sqlite!Tick
    <3>2. cache \in [Keys -> [value : 0 .. now', timestamp : Sqlite!Times] \cup {None}]
      <4>1. cache \in [Keys -> [value : 0 .. now, timestamp : Sqlite!Times] \cup {None}]
        BY Zenon DEF Sqlite!TypeOK
      <4>2. 0 .. now \subseteq 0 .. now'
        BY <1>0, <2>1
      <4> QED
        BY <4>1, <4>2
    <3> QED
      BY <2>1, <3>1, <3>2 DEF Sqlite!TypeOK, Sqlite!Times
  <2>3. answer' \in Int /\ Sqlite!AnswersAreFresh'
    BY <2>1, StoresAssumption DEF Sqlite!AnswersAreFresh
  <2>4. Sqlite!CreationIsKept' /\ Stamped' /\ ReadRight'
    BY <2>1 DEF Sqlite!CreationIsKept, Stamped, ReadRight, Sqlite!time_to_string, Sqlite!Seconds
  <2>5. CutRight'
    <3>1. cutoff \in Int
      <4>1. cutoff \in Sqlite!Times
        BY Zenon DEF Sqlite!TypeOK
      <4> QED
        BY <4>1, StoresAssumption DEF Sqlite!Times
    <3> QED
      BY <1>0, <2>1, <3>1, StoresAssumption DEF CutRight
  <2> QED
    BY <2>1, <2>2, <2>3, <2>4, <2>5
<1>3. ASSUME NEW t \in Callers, Sqlite!InitStore(t) \/ Sqlite!Close(t)
      PROVE  SqliteInv'
  <2>1. /\ opened' \in BOOLEAN
        /\ UNCHANGED <<now, pc, mutex, cache, sqlDocuments, settings, cutoff, held, answer, born>>
    BY <1>3 DEF Sqlite!InitStore, Sqlite!Close
  <2>2. Sqlite!TypeOK'
    BY <2>1 DEF Sqlite!TypeOK, Sqlite!Times
  <2> QED
    BY <2>1, <2>2 DEF Sqlite!AnswersAreFresh, Sqlite!CreationIsKept, Stamped, ReadRight, CutRight
<1>4. ASSUME NEW t \in Callers,
             Sqlite!InitFails(t) \/ \E key \in Keys : Sqlite!CacheGetExpired(t, key)
      PROVE  SqliteInv'
  <2>1. /\ mutex = None /\ mutex' = t /\ pc' = [pc EXCEPT ![t] = "locking again"]
        /\ UNCHANGED <<now, opened, cache, sqlDocuments, settings, cutoff, held, answer, born>>
    BY <1>4 DEF Sqlite!InitFails, Sqlite!CacheGetExpired
  <2>2. Sqlite!TypeOK'
    BY <2>1 DEF Sqlite!TypeOK, Sqlite!Times
  <2>3. CutRight'
    BY <2>1 DEF CutRight, Sqlite!TypeOK
  <2> QED
    BY <2>1, <2>2, <2>3 DEF Sqlite!AnswersAreFresh, Sqlite!CreationIsKept, Stamped, ReadRight
<1>5. ASSUME NEW t \in Callers, NEW key \in Keys, Sqlite!StoreMetadata(t, key)
      PROVE  SqliteInv'
  <2>1. /\ sqlDocuments' = [sqlDocuments EXCEPT ![key] = Sqlite!time_to_string(now)]
        /\ born' = [born EXCEPT ![key] = @ \cup {now}]
        /\ UNCHANGED <<now, pc, mutex, opened, cache, settings, cutoff, held, answer>>
    BY <1>5 DEF Sqlite!StoreMetadata
  <2>2. Sqlite!time_to_string(now) \in Sqlite!Times
    BY <1>0, Written, StoresAssumption
  <2>3. Sqlite!TypeOK'
    BY <2>1, <2>2 DEF Sqlite!TypeOK, Sqlite!Times
  <2>4. born' \in [Keys -> SUBSET Int] /\ \A other \in Keys : born[other] \subseteq born'[other]
    BY <1>0, <2>1
  <2>5. Sqlite!CreationIsKept'
    <3>1. sqlDocuments \in [Keys -> Sqlite!Times \cup {None}]
      BY Zenon DEF Sqlite!TypeOK
    <3> SUFFICES ASSUME NEW other \in Keys, sqlDocuments'[other] # None
                 PROVE  \E moment \in born'[other] : sqlDocuments'[other] = Sqlite!time_to_string(moment)
      BY DEF Sqlite!CreationIsKept, Sqlite!time_to_string, Sqlite!Seconds
    <3>2. CASE other = key
      BY <2>1, <3>1, <3>2
    <3>3. CASE other # key
      BY <2>1, <3>1, <3>3 DEF Sqlite!CreationIsKept
    <3> QED
      BY <3>2, <3>3
  <2>6. ReadRight'
    BY <2>1, <2>4 DEF ReadRight, Sqlite!TypeOK, Sqlite!Seconds
  <2> QED
    BY <2>1, <2>3, <2>4, <2>5, <2>6 DEF Sqlite!AnswersAreFresh, Stamped, CutRight
<1>6. ASSUME NEW t \in Callers, NEW key \in Keys, Sqlite!GetMetadata(t, key)
      PROVE  SqliteInv'
  <2>1. /\ sqlDocuments[key] # None
        /\ held' = [held EXCEPT ![t] = [key |-> key, created_at |-> sqlDocuments[key]]]
        /\ UNCHANGED <<now, pc, mutex, opened, cache, sqlDocuments, settings, cutoff, answer, born>>
    BY <1>6 DEF Sqlite!GetMetadata, Sqlite!string_to_time
  <2>2. Sqlite!TypeOK'
    BY <2>1 DEF Sqlite!TypeOK, Sqlite!Times
  <2>3. ReadRight'
    <3>1. PICK moment \in born[key] : sqlDocuments[key] = Sqlite!Seconds(moment)
      BY <2>1, Written, StoresAssumption, Cuts DEF Sqlite!CreationIsKept, Sqlite!time_to_string
    <3> QED
      BY <2>1, <3>1 DEF ReadRight, Sqlite!TypeOK, Sqlite!Seconds
  <2> QED
    BY <2>1, <2>2, <2>3 DEF Sqlite!AnswersAreFresh, Sqlite!CreationIsKept, Stamped, CutRight
<1>7. ASSUME NEW t \in Callers, Sqlite!UpdateMetadata(t)
      PROVE  SqliteInv'
  <2> DEFINE key == held[t].key
             text == Sqlite!time_to_string(held[t].created_at)
  <2>1. /\ held[t] # None
        /\ sqlDocuments' = [sqlDocuments EXCEPT ![key] = text]
        /\ held' = [held EXCEPT ![t] = None]
        /\ UNCHANGED <<now, pc, mutex, opened, cache, settings, cutoff, answer, born>>
    BY <1>7 DEF Sqlite!UpdateMetadata
  <2>2. held[t] \in [key : Keys, created_at : Sqlite!Times]
    BY <2>1 DEF Sqlite!TypeOK
  <2>3. PICK moment \in born[key] : held[t].created_at = Sqlite!Seconds(moment)
    BY <2>1 DEF ReadRight
  <2>4. text = Sqlite!Seconds(moment) /\ text \in Sqlite!Times
    <3>1. moment \in Int
      BY <2>2
    <3>2. Sqlite!Seconds(held[t].created_at) = Sqlite!Seconds(moment) /\ Sqlite!Seconds(moment) \in Int
      BY <2>3, <3>1, Cuts
    <3>3. text = Sqlite!Seconds(moment)
      BY <3>2 DEF Sqlite!time_to_string
    <3> QED
      BY <2>2, <2>3, <3>3
  <2>5. Sqlite!TypeOK'
    BY <2>1, <2>2, <2>4 DEF Sqlite!TypeOK, Sqlite!Times
  <2>6. Sqlite!CreationIsKept'
    <3>1. Sqlite!time_to_string(moment) = text
      <4>1. moment \in Int
        BY <2>2
      <4> QED
        BY <2>4, <4>1, Cuts DEF Sqlite!time_to_string
    <3> QED
      BY <2>1, <2>2, <3>1 DEF Sqlite!CreationIsKept, Sqlite!TypeOK, Sqlite!time_to_string, Sqlite!Seconds
  <2>7. ReadRight'
    BY <2>1 DEF ReadRight, Sqlite!TypeOK, Sqlite!Seconds
  <2> QED
    BY <2>1, <2>5, <2>6, <2>7 DEF Sqlite!AnswersAreFresh, Stamped, CutRight
<1>8. ASSUME NEW t \in Callers, NEW key \in Keys, Sqlite!DeleteMetadata(t, key)
      PROVE  SqliteInv'
  <2>1. /\ sqlDocuments' = [sqlDocuments EXCEPT ![key] = None]
        /\ UNCHANGED <<now, pc, mutex, opened, cache, settings, cutoff, held, answer, born>>
    BY <1>8 DEF Sqlite!DeleteMetadata
  <2>2. Sqlite!TypeOK'
    BY <2>1 DEF Sqlite!TypeOK, Sqlite!Times
  <2>3. Sqlite!CreationIsKept'
    BY <2>1 DEF Sqlite!CreationIsKept, Sqlite!TypeOK, Sqlite!time_to_string, Sqlite!Seconds
  <2> QED
    BY <2>1, <2>2, <2>3 DEF Sqlite!AnswersAreFresh, Stamped, ReadRight, CutRight
<1>9. ASSUME NEW t \in Callers, NEW key \in Keys,
             Sqlite!ConfigDelete(t, key) \/ \E v \in Settings : Sqlite!ConfigSet(t, key, v)
      PROVE  SqliteInv'
  <2>1. UNCHANGED <<now, pc, mutex, opened, cache, sqlDocuments, cutoff, held, answer, born>>
    BY <1>9 DEF Sqlite!ConfigDelete, Sqlite!ConfigSet
  <2>3. settings' \in [Keys -> Settings \cup {None}]
    <3>1. settings \in [Keys -> Settings \cup {None}]
      BY Zenon DEF Sqlite!TypeOK
    <3> QED
      BY <1>9, <3>1 DEF Sqlite!ConfigDelete, Sqlite!ConfigSet
  <2>2. Sqlite!TypeOK'
    BY <2>1, <2>3 DEF Sqlite!TypeOK, Sqlite!Times
  <2> QED
    BY <2>1, <2>2 DEF Sqlite!AnswersAreFresh, Sqlite!CreationIsKept, Stamped, ReadRight, CutRight
<1>10. ASSUME NEW t \in Callers, NEW key \in Keys, Sqlite!CachePut(t, key)
       PROVE  SqliteInv'
  <2> DEFINE entry == [value |-> now, timestamp |-> Sqlite!time_to_string(now)]
  <2>1. /\ cache' = [cache EXCEPT ![key] = entry]
        /\ UNCHANGED <<now, pc, mutex, opened, sqlDocuments, settings, cutoff, held, answer, born>>
    BY <1>10 DEF Sqlite!CachePut
  <2>2. /\ entry \in [value : 0 .. now, timestamp : Sqlite!Times]
        /\ entry.timestamp = Sqlite!Seconds(entry.value)
    BY <1>0, Written, StoresAssumption
  <2> HIDE DEF entry
  <2>3. Sqlite!TypeOK'
    BY <2>1, <2>2 DEF Sqlite!TypeOK, Sqlite!Times
  <2>4. Stamped'
    BY <2>1, <2>2 DEF Stamped, Sqlite!TypeOK, Sqlite!Seconds
  <2> QED
    BY <2>1, <2>3, <2>4 DEF Sqlite!AnswersAreFresh, Sqlite!CreationIsKept, ReadRight, CutRight
<1>11. ASSUME NEW t \in Callers, NEW key \in Keys, Sqlite!CacheGet(t, key)
       PROVE  SqliteInv'
  <2>1. /\ cache[key] # None /\ ~Sqlite!Expired(key) /\ answer' = now - cache[key].value
        /\ UNCHANGED <<now, pc, mutex, opened, cache, sqlDocuments, settings, cutoff, held, born>>
    BY <1>11 DEF Sqlite!CacheGet
  <2>2. cache[key] \in [value : 0 .. now, timestamp : Sqlite!Times]
    <3>1. cache \in [Keys -> [value : 0 .. now, timestamp : Sqlite!Times] \cup {None}]
      BY Zenon DEF Sqlite!TypeOK
    <3> QED
      BY <2>1, <3>1
  <2>3. now - Sqlite!Seconds(cache[key].value) <= Ttl
    <3>1. cache[key].timestamp \in Int /\ cache[key].timestamp = Sqlite!Seconds(cache[key].value)
      BY <2>1, <2>2, Cuts DEF Stamped
    <3> QED
      BY <1>0, <2>1, <2>2, <3>1, StoresAssumption DEF Sqlite!Expired, Sqlite!string_to_time
  <2>4. answer' \in Int /\ answer' <= Ttl
    <3>1. /\ cache[key].value \in Int
          /\ Sqlite!Seconds(cache[key].value) \in Int
          /\ Sqlite!Seconds(cache[key].value) <= cache[key].value
      BY <2>2, Cuts
    <3> QED
      BY <1>0, <2>1, <2>2, <2>3, <3>1, StoresAssumption
  <2>5. Sqlite!TypeOK'
    BY <2>1 DEF Sqlite!TypeOK, Sqlite!Times
  <2> QED
    BY <2>1, <2>4, <2>5 DEF Sqlite!AnswersAreFresh, Sqlite!CreationIsKept, Stamped, ReadRight, CutRight
<1>12. ASSUME NEW t \in Callers,
              Sqlite!CacheClear(t) \/ \E key \in Keys : Sqlite!CacheDelete(t, key)
       PROVE  SqliteInv'
  <2>1. UNCHANGED <<now, pc, mutex, opened, sqlDocuments, settings, cutoff, held, answer, born>>
    BY <1>12 DEF Sqlite!CacheClear, Sqlite!CacheDelete
  <2>4. /\ \A key \in Keys : cache'[key] \in {cache[key], None}
        /\ cache' \in [Keys -> [value : 0 .. now, timestamp : Sqlite!Times] \cup {None}]
    <3>1. cache \in [Keys -> [value : 0 .. now, timestamp : Sqlite!Times] \cup {None}]
      BY Zenon DEF Sqlite!TypeOK
    <3> QED
      BY <1>12, <3>1 DEF Sqlite!CacheClear, Sqlite!CacheDelete, Sqlite!Absent
  <2>2. Sqlite!TypeOK'
    BY <2>1, <2>4 DEF Sqlite!TypeOK, Sqlite!Times
  <2>3. Stamped'
    BY <2>1, <2>4 DEF Stamped, Sqlite!Seconds
  <2> QED
    BY <2>1, <2>2, <2>3 DEF Sqlite!AnswersAreFresh, Sqlite!CreationIsKept, ReadRight, CutRight
<1>13. ASSUME NEW t \in Callers, Sqlite!EvictCount(t)
       PROVE  SqliteInv'
  <2>1. /\ mutex = None /\ mutex' = t /\ pc' = [pc EXCEPT ![t] = "evicting"]
        /\ cutoff' = Sqlite!time_to_string(now - Ttl)
        /\ UNCHANGED <<now, opened, cache, sqlDocuments, settings, held, answer, born>>
    BY <1>13 DEF Sqlite!EvictCount
  <2>2. now - Ttl \in Int /\ -Ttl <= now - Ttl /\ now - Ttl <= MaxTime
    BY <1>0, StoresAssumption
  <2>3. cutoff' \in Sqlite!Times /\ cutoff' <= now - Ttl
    BY <2>1, <2>2, Written, Cuts
  <2>4. Sqlite!TypeOK'
    BY <2>1, <2>3 DEF Sqlite!TypeOK, Sqlite!Times
  <2>5. CutRight'
    BY <2>1, <2>3 DEF CutRight
  <2> QED
    BY <2>1, <2>4, <2>5 DEF Sqlite!AnswersAreFresh, Sqlite!CreationIsKept, Stamped, ReadRight
<1>14. ASSUME NEW t \in Callers, Sqlite!EvictDelete(t)
       PROVE  SqliteInv'
  <2>1. /\ pc[t] = "evicting" /\ mutex' = None /\ pc' = [pc EXCEPT ![t] = "idle"] /\ cutoff' = 0
        /\ UNCHANGED <<now, opened, sqlDocuments, settings, held, answer, born>>
    BY <1>14 DEF Sqlite!EvictDelete
  <2>2. /\ \A key \in Keys : cache'[key] \in {cache[key], None}
        /\ cache' \in [Keys -> [value : 0 .. now, timestamp : Sqlite!Times] \cup {None}]
    BY <1>14, ZenonT(60) DEF Sqlite!EvictDelete, Sqlite!TypeOK
  <2>3. 0 \in Sqlite!Times
    BY StoresAssumption DEF Sqlite!Times
  <2>4. \A other \in Callers \ {t} : pc[other] = "idle"
    BY <2>1 DEF Sqlite!TypeOK
  <2>5. Sqlite!TypeOK'
    BY <2>1, <2>2, <2>3, <2>4, ZenonT(60) DEF Sqlite!TypeOK, Sqlite!Times
  <2>6. Stamped' /\ CutRight'
    BY <2>1, <2>2, <2>4 DEF Stamped, CutRight, Sqlite!Seconds, Sqlite!TypeOK
  <2> QED
    BY <2>1, <2>5, <2>6 DEF Sqlite!AnswersAreFresh, Sqlite!CreationIsKept, ReadRight
<1> QED
  BY <1>1, <1>2, <1>3, <1>4, <1>5, <1>6, <1>7, <1>8, <1>9, <1>10, <1>11, <1>12, <1>13, <1>14
     DEF Sqlite!Next, Sqlite!Call, Sqlite!ListMetadata

\* An eviction deletes only entries that cache_get would have refused at that moment:
\* the text it compares with was cut from an earlier time.
LEMMA EvictsExpired ==
  ASSUME SqliteInv
  PROVE  Sqlite!EvictsOnlyExpired
<1> SUFFICES ASSUME NEW t \in Callers, Sqlite!EvictDelete(t), NEW key \in Keys,
                    cache[key] # None, cache'[key] = None
             PROVE  Sqlite!Expired(key)
  BY DEF Sqlite!EvictsOnlyExpired
<1>1. pc[t] = "evicting" /\ Sqlite!Older(cache[key].timestamp)
  BY DEF Sqlite!EvictDelete
<1>2. cutoff <= now - Ttl
  BY <1>1 DEF SqliteInv, CutRight
<1>3. /\ now \in 0 .. MaxTime /\ cutoff \in Sqlite!Times
      /\ cache[key] \in [value : 0 .. now, timestamp : Sqlite!Times]
  <2>1. now \in 0 .. MaxTime /\ cutoff \in Sqlite!Times
    BY Zenon DEF SqliteInv, Sqlite!TypeOK
  <2>2. cache \in [Keys -> [value : 0 .. now, timestamp : Sqlite!Times] \cup {None}]
    BY Zenon DEF SqliteInv, Sqlite!TypeOK
  <2> QED
    BY <2>1, <2>2
<1>4. now \in Int /\ cutoff \in Int /\ cache[key].timestamp \in Int
  <2>1. Sqlite!Times \subseteq Int
    BY StoresAssumption DEF Sqlite!Times
  <2>2. cutoff \in Int /\ cache[key].timestamp \in Int
    BY Zenon, <1>3, <2>1
  <2>3. now \in Int
    BY <1>3, StoresAssumption
  <2> QED
    BY <2>2, <2>3
<1> QED
  BY <1>1, <1>2, <1>4, StoresAssumption DEF Sqlite!Older, Sqlite!Expired, Sqlite!string_to_time

\* The same along a behaviour of SqliteStore.
THEOREM Evictions == Sqlite!Spec => [][Sqlite!EvictsOnlyExpired]_(Sqlite!vars)
<1>1. SqliteInv /\ [Sqlite!Next]_(Sqlite!vars) => [Sqlite!EvictsOnlyExpired]_(Sqlite!vars)
  BY EvictsExpired
<1> QED
  BY <1>1, SqliteStarts, SqliteSteps, PTL DEF Sqlite!Spec

------------------------------------------------------------------------------
(* MetadataIndex.                                                          *)

IndexShape == [postings : [Values -> SUBSET FilterIds], numeric : [Filters!Numbers -> SUBSET FilterIds]]

\* What the index of a field was told of each document since it was made.
Told(m, c, f) == [i \in FilterIds |-> IF m[i] # None /\ i \in c[f] THEN m[i][f] ELSE None]

\* An index of a field is right about what it was told: its postings are exact, its
\* numbers are those of documents that have them, and where any are missing there
\* was a load and the number has another spelling.
PostingsRight(postings, told_) == \A v \in Values : postings[v] = {i \in FilterIds : told_[i] = v}
Misses(i, told_, missing) ==
    missing /\ \E w \in Values : w # told_[i] /\ Number[w] = Number[told_[i]]
NumbersRight(numeric, f, told_, missing) ==
    /\ \A n \in Filters!Numbers : \A i \in numeric[n] :
          f \in NumericFields /\ told_[i] \in Values /\ Number[told_[i]] = n
    /\ f \in NumericFields => \A i \in FilterIds :
          told_[i] \in Values /\ Number[told_[i]] # None =>
             i \in numeric[Number[told_[i]]] \/ Misses(i, told_, missing)
IndexRight(index, f, told_, missing) ==
    /\ index \in IndexShape
    /\ PostingsRight(index.postings, told_) /\ NumbersRight(index.numeric, f, told_, missing)

FileRight(content) ==
    content # Filters!NoFile =>
       /\ content.metadata \in [FilterIds -> Filters!Metadata \cup {None}]
       /\ content.covered \in [Fields -> SUBSET FilterIds]
       /\ DOMAIN content.postings \subseteq Fields
       /\ \A f \in DOMAIN content.postings :
             /\ content.postings[f] \in [Values -> SUBSET FilterIds]
             /\ PostingsRight(content.postings[f], Told(content.metadata, content.covered, f))

\* The invariant: so is every index, and what the file has of it.
FilterTypes == /\ metadata \in [FilterIds -> Filters!Metadata \cup {None}]
               /\ covered \in [Fields -> SUBSET FilterIds]
               /\ indices \in [Fields -> IndexShape \cup {None}]
IndexesRight == \A f \in Filters!Indexed : IndexRight(indices[f], f, Told(metadata, covered, f), loaded)
FilterInv == FilterTypes /\ IndexesRight /\ FileRight(indexFile)

LEMMA NumbersAre == /\ Filters!Numbers \subseteq Int
                    /\ \A v \in Values : Number[v] # None => Number[v] \in Filters!Numbers
                    /\ None \notin IndexShape
BY NoneAssumption, StoresAssumption DEF Filters!Numbers, IndexShape

\* What is told of documents is a value or None.
LEMMA ToldIs ==
  ASSUME NEW m \in [FilterIds -> Filters!Metadata \cup {None}], NEW c, NEW f \in Fields
  PROVE  Told(m, c, f) \in [FilterIds -> Values \cup {None}]
<1> SUFFICES ASSUME NEW i \in FilterIds, m[i] # None
             PROVE  m[i][f] \in Values \cup {None}
  BY DEF Told
<1>1. m[i] \in Filters!Metadata
  OBVIOUS
<1> QED
  BY <1>1 DEF Filters!Metadata

\* insert on one field, of a document the index knows nothing of, keeps it right.
LEMMA InsertedRight ==
  ASSUME NEW f \in Fields, NEW index, NEW told_ \in [FilterIds -> Values \cup {None}], NEW missing,
         IndexRight(index, f, told_, missing), NEW i \in FilterIds, told_[i] = None,
         NEW v \in Values \cup {None}
  PROVE  IndexRight(Filters!Inserted(index, f, i, v), f, [told_ EXCEPT ![i] = v], missing)
<1> DEFINE new == Filters!Inserted(index, f, i, v)
           after == [told_ EXCEPT ![i] = v]
<1>1. CASE v = None
  <2>1. new = index /\ after = told_
    BY <1>1 DEF Filters!Inserted
  <2> QED
    BY <2>1
<1>2. CASE v # None
  <2>1. v \in Values /\ index \in IndexShape /\ None \notin Values
    BY <1>2, NoneAssumption DEF IndexRight
  <2>2. new = [postings |-> [index.postings EXCEPT ![v] = @ \cup {i}],
               numeric |-> IF f \in NumericFields /\ Number[v] # None
                           THEN [index.numeric EXCEPT ![Number[v]] = @ \cup {i}] ELSE index.numeric]
    BY <1>2 DEF Filters!Inserted
  <2>3. new \in IndexShape
    <3>1. [index.postings EXCEPT ![v] = @ \cup {i}] \in [Values -> SUBSET FilterIds]
      BY <2>1 DEF IndexShape
    <3>2. index.numeric \in [Filters!Numbers -> SUBSET FilterIds]
          /\ [index.numeric EXCEPT ![Number[v]] = @ \cup {i}] \in [Filters!Numbers -> SUBSET FilterIds]
      BY <2>1 DEF IndexShape
    <3> QED
      BY <2>2, <3>1, <3>2 DEF IndexShape
  <2>4. PostingsRight(new.postings, after)
    BY <2>1, <2>2 DEF IndexRight, PostingsRight, IndexShape
  <2>5. NumbersRight(new.numeric, f, after, missing)
    <3>1. NumbersRight(index.numeric, f, told_, missing)
      BY DEF IndexRight
    <3>2. \A n \in Filters!Numbers : i \notin index.numeric[n]
      BY <2>1, <3>1 DEF NumbersRight
    <3>3. ASSUME NEW n \in Filters!Numbers, NEW j \in new.numeric[n]
          PROVE  f \in NumericFields /\ after[j] \in Values /\ Number[after[j]] = n
      BY <2>1, <2>2, <3>1, <3>2, <3>3, NumbersAre DEF NumbersRight, IndexShape
    <3>4. ASSUME f \in NumericFields, NEW j \in FilterIds, after[j] \in Values, Number[after[j]] # None
          PROVE  j \in new.numeric[Number[after[j]]] \/ Misses(j, after, missing)
      <4>1. CASE j = i
        BY <2>1, <2>2, <3>4, <4>1, NumbersAre DEF IndexShape
      <4>2. CASE j # i
        <5>1. after[j] = told_[j]
          BY <4>2
        <5>2. j \in index.numeric[Number[after[j]]] \/ Misses(j, told_, missing)
          BY <3>1, <3>4, <5>1 DEF NumbersRight
        <5>3. j \in index.numeric[Number[after[j]]] => j \in new.numeric[Number[after[j]]]
          BY <2>1, <2>2, <3>4, NumbersAre DEF IndexShape
        <5> QED
          BY <5>1, <5>2, <5>3 DEF Misses
      <4> QED
        BY <4>1, <4>2
    <3> QED
      BY <3>3, <3>4 DEF NumbersRight
  <2> QED
    BY <2>3, <2>4, <2>5 DEF IndexRight
<1> QED
  BY <1>1, <1>2

\* remove on one field keeps the index right, also where the value the caller names
\* was never told.
LEMMA RemovedRight ==
  ASSUME NEW f \in Fields, NEW index, NEW told_ \in [FilterIds -> Values \cup {None}], NEW missing,
         IndexRight(index, f, told_, missing), NEW i \in FilterIds, NEW v \in Values \cup {None},
         told_[i] \in {v, None}
  PROVE  IndexRight(Filters!Removed(index, f, i, v), f, [told_ EXCEPT ![i] = None], missing)
<1> DEFINE new == Filters!Removed(index, f, i, v)
           after == [told_ EXCEPT ![i] = None]
<1>1. CASE v = None
  <2>1. new = index /\ after = told_
    BY <1>1 DEF Filters!Removed
  <2> QED
    BY <2>1
<1>2. CASE v # None
  <2>1. v \in Values /\ index \in IndexShape /\ None \notin Values
    BY <1>2, NoneAssumption DEF IndexRight
  <2>2. new = [postings |-> [index.postings EXCEPT ![v] = @ \ {i}],
               numeric |-> IF f \in NumericFields /\ Number[v] # None
                           THEN [index.numeric EXCEPT ![Number[v]] = @ \ {i}] ELSE index.numeric]
    BY <1>2 DEF Filters!Removed
  <2>3. new \in IndexShape
    <3>1. [index.postings EXCEPT ![v] = @ \ {i}] \in [Values -> SUBSET FilterIds]
      BY <2>1 DEF IndexShape
    <3>2. index.numeric \in [Filters!Numbers -> SUBSET FilterIds]
          /\ [index.numeric EXCEPT ![Number[v]] = @ \ {i}] \in [Filters!Numbers -> SUBSET FilterIds]
      BY <2>1 DEF IndexShape
    <3> QED
      BY <2>2, <3>1, <3>2 DEF IndexShape
  <2>4. PostingsRight(new.postings, after)
    BY <2>1, <2>2 DEF IndexRight, PostingsRight, IndexShape
  <2>5. NumbersRight(new.numeric, f, after, missing)
    <3>1. NumbersRight(index.numeric, f, told_, missing)
      BY DEF IndexRight
    <3>2. ASSUME NEW n \in Filters!Numbers
          PROVE  new.numeric[n] = index.numeric[n] \ {i}
      <4>1. i \in index.numeric[n] => f \in NumericFields /\ told_[i] = v /\ Number[v] = n
        BY <2>1, <3>1 DEF NumbersRight
      <4>2. n # None
        BY <3>2, NoneAssumption, NumbersAre
      <4> QED
        BY <2>1, <2>2, <4>1, <4>2, NumbersAre DEF IndexShape
    <3>3. ASSUME NEW n \in Filters!Numbers, NEW j \in new.numeric[n]
          PROVE  f \in NumericFields /\ after[j] \in Values /\ Number[after[j]] = n
      <4>1. j \in index.numeric[n] /\ j # i /\ j \in FilterIds
        BY <2>1, <3>2, <3>3 DEF IndexShape
      <4> QED
        BY <3>1, <4>1 DEF NumbersRight
    <3>4. ASSUME f \in NumericFields, NEW j \in FilterIds, after[j] \in Values, Number[after[j]] # None
          PROVE  j \in new.numeric[Number[after[j]]] \/ Misses(j, after, missing)
      <4>1. j # i /\ after[j] = told_[j]
        BY <2>1, <3>4
      <4>2. j \in index.numeric[Number[after[j]]] \/ Misses(j, told_, missing)
        BY <3>1, <3>4, <4>1 DEF NumbersRight
      <4> QED
        BY <3>2, <3>4, <4>1, <4>2, NumbersAre DEF Misses
    <3> QED
      BY <3>3, <3>4 DEF NumbersRight
  <2> QED
    BY <2>3, <2>4, <2>5 DEF IndexRight
<1> QED
  BY <1>1, <1>2

LEMMA FilterStarts == Filters!Init => FilterInv
<1> SUFFICES ASSUME Filters!Init
             PROVE  FilterInv
  OBVIOUS
<1>1. /\ indices = [f \in Fields |-> None] /\ indexFile = Filters!NoFile
      /\ metadata = [i \in FilterIds |-> None] /\ covered = [f \in Fields |-> {}]
  BY DEF Filters!Init
<1>2. Filters!Indexed = {}
  BY <1>1 DEF Filters!Indexed
<1> QED
  BY <1>1, <1>2 DEF FilterInv, FilterTypes, IndexesRight, FileRight

\* Each operation of an index keeps it right, and so do a save and a load.
LEMMA FilterSteps ==
  ASSUME FilterInv, [Filters!Next]_(Filters!vars)
  PROVE  FilterInv'
<1> DEFINE told_(f) == Told(metadata, covered, f)
<1>0. /\ metadata \in [FilterIds -> Filters!Metadata \cup {None}]
      /\ covered \in [Fields -> SUBSET FilterIds]
      /\ indices \in [Fields -> IndexShape \cup {None}]
      /\ \A f \in Filters!Indexed : IndexRight(indices[f], f, told_(f), loaded)
      /\ FileRight(indexFile)
  BY DEF FilterInv, FilterTypes, IndexesRight
<1>a. /\ None \notin Values /\ None \notin Filters!Metadata /\ None \notin IndexShape
  BY NoneAssumption, NumbersAre DEF Filters!Metadata
<1>b. \A f \in Filters!Indexed : f \in Fields /\ told_(f) \in [FilterIds -> Values \cup {None}]
  BY <1>0, ToldIs DEF Filters!Indexed
\* What is to be shown of a step.
<1>c. ASSUME metadata' \in [FilterIds -> Filters!Metadata \cup {None}],
             covered' \in [Fields -> SUBSET FilterIds],
             indices' \in [Fields -> IndexShape \cup {None}],
             \A f \in {g \in Fields : indices'[g] # None} :
                IndexRight(indices'[f], f, Told(metadata', covered', f), loaded'),
             FileRight(indexFile')
      PROVE  FilterInv'
  <2>1. FileRight(indexFile)'
    BY Zenon, <1>c DEF FileRight, PostingsRight, Filters!Metadata, Filters!NoFile, Told
  <2>2. IndexesRight'
    BY Zenon, <1>c DEF IndexesRight, IndexRight, PostingsRight, NumbersRight, Misses, IndexShape,
                       Filters!Numbers, Filters!Indexed, Told
  <2>3. FilterTypes'
    BY Zenon, <1>c DEF FilterTypes, IndexShape, Filters!Numbers, Filters!Metadata
  <2> QED
    BY Zenon, <2>1, <2>2, <2>3 DEF FilterInv
<1>1. ASSUME UNCHANGED Filters!vars
      PROVE  FilterInv'
  BY <1>0, <1>1, <1>c DEF Filters!vars, Filters!Indexed
<1>2. ASSUME NEW f \in Fields, Filters!CreateIndex(f)
      PROVE  FilterInv'
  <2>1. /\ indices' = [indices EXCEPT ![f] = Filters!Empty] /\ covered' = [covered EXCEPT ![f] = {}]
        /\ UNCHANGED <<indexFile, metadata, loaded>>
    BY <1>2 DEF Filters!CreateIndex
  <2>2. Filters!Empty \in IndexShape
    BY DEF Filters!Empty, IndexShape
  <2>3. Told(metadata', covered', f) = [i \in FilterIds |-> None]
    BY <1>0, <2>1 DEF Told
  <2>4. IndexRight(Filters!Empty, f, [i \in FilterIds |-> None], loaded)
    BY <1>a, <2>2 DEF IndexRight, PostingsRight, NumbersRight, Filters!Empty
  <2>5. \A g \in Fields \ {f} : Told(metadata', covered', g) = told_(g)
    BY <1>0, <2>1 DEF Told
  <2>6. \A g \in Fields : indices'[g] # None =>
           IndexRight(indices'[g], g, Told(metadata', covered', g), loaded')
    BY <1>0, <2>1, <2>3, <2>4, <2>5 DEF Filters!Indexed
  <2> QED
    BY <1>0, <1>c, <2>1, <2>2, <2>6
<1>3. ASSUME NEW f \in Fields, Filters!DropIndex(f)
      PROVE  FilterInv'
  BY <1>0, <1>3, <1>c DEF Filters!DropIndex, Filters!Indexed
<1>4. ASSUME NEW i \in FilterIds, NEW m \in Filters!Metadata, Filters!Insert(i, m)
      PROVE  FilterInv'
  <2>1. /\ metadata[i] = None /\ metadata' = [metadata EXCEPT ![i] = m]
        /\ indices' = [f \in Fields |-> IF f \in Filters!Indexed
                                        THEN Filters!Inserted(indices[f], f, i, m[f]) ELSE None]
        /\ covered' = [f \in Fields |-> covered[f] \cup {i}]
        /\ UNCHANGED <<indexFile, loaded>>
    BY <1>4 DEF Filters!Insert
  <2>2. ASSUME NEW f \in Filters!Indexed
        PROVE  IndexRight(indices'[f], f, Told(metadata', covered', f), loaded')
    <3>1. f \in Fields /\ m[f] \in Values \cup {None} /\ told_(f)[i] = None
      BY <1>b, <2>1 DEF Told, Filters!Metadata
    <3>2. IndexRight(Filters!Inserted(indices[f], f, i, m[f]), f, [told_(f) EXCEPT ![i] = m[f]], loaded)
      BY <1>0, <1>b, <3>1, InsertedRight
    <3>3. Told(metadata', covered', f) = [told_(f) EXCEPT ![i] = m[f]]
      BY <1>0, <1>a, <2>1, <3>1 DEF Told
    <3> QED
      BY <2>1, <3>1, <3>2, <3>3
  <2>3. \A f \in Fields : indices'[f] # None => f \in Filters!Indexed
    BY <2>1
  <2>4. indices' \in [Fields -> IndexShape \cup {None}]
    BY <2>1, <2>2, <2>3 DEF IndexRight
  <2> QED
    BY <1>0, <1>c, <2>1, <2>2, <2>3, <2>4
<1>5. ASSUME NEW i \in FilterIds, NEW m \in Filters!Metadata, Filters!Update(i, m)
      PROVE  FilterInv'
  <2> DEFINE Old(f) == Filters!Removed(indices[f], f, i, metadata[i][f])
  <2>1. /\ metadata[i] # None /\ metadata' = [metadata EXCEPT ![i] = m]
        /\ indices' = [f \in Fields |-> IF f \in Filters!Indexed
                                        THEN Filters!Inserted(Old(f), f, i, m[f]) ELSE None]
        /\ covered' = [f \in Fields |-> covered[f] \cup {i}]
        /\ UNCHANGED <<indexFile, loaded>>
    BY <1>5 DEF Filters!Update
  <2>2. ASSUME NEW f \in Filters!Indexed
        PROVE  IndexRight(indices'[f], f, Told(metadata', covered', f), loaded')
    <3>1. /\ f \in Fields /\ m[f] \in Values \cup {None} /\ metadata[i][f] \in Values \cup {None}
          /\ told_(f)[i] \in {metadata[i][f], None}
      BY <1>0, <1>b, <2>1 DEF Told, Filters!Metadata
    <3>2. IndexRight(Old(f), f, [told_(f) EXCEPT ![i] = None], loaded)
      BY <1>0, <1>b, <3>1, RemovedRight
    <3>3. /\ [told_(f) EXCEPT ![i] = None] \in [FilterIds -> Values \cup {None}]
          /\ [told_(f) EXCEPT ![i] = None][i] = None
          /\ [[told_(f) EXCEPT ![i] = None] EXCEPT ![i] = m[f]] = [told_(f) EXCEPT ![i] = m[f]]
      BY <1>b
    <3> HIDE DEF told_, Old
    <3>4. IndexRight(Filters!Inserted(Old(f), f, i, m[f]), f, [told_(f) EXCEPT ![i] = m[f]], loaded)
      BY <3>1, <3>2, <3>3, InsertedRight
    <3> USE DEF told_, Old
    <3>5. Told(metadata', covered', f) = [told_(f) EXCEPT ![i] = m[f]]
      BY <1>0, <1>a, <2>1, <3>1 DEF Told
    <3> QED
      BY <2>1, <3>1, <3>4, <3>5
  <2>3. \A f \in Fields : indices'[f] # None => f \in Filters!Indexed
    BY <2>1
  <2>4. indices' \in [Fields -> IndexShape \cup {None}]
    BY <2>1, <2>2, <2>3 DEF IndexRight
  <2> QED
    BY <1>0, <1>c, <2>1, <2>2, <2>3, <2>4
<1>6. ASSUME NEW i \in FilterIds, Filters!Remove(i)
      PROVE  FilterInv'
  <2>1. /\ metadata[i] # None /\ metadata' = [metadata EXCEPT ![i] = None]
        /\ indices' = [f \in Fields |-> IF f \in Filters!Indexed
                                        THEN Filters!Removed(indices[f], f, i, metadata[i][f]) ELSE None]
        /\ UNCHANGED <<indexFile, covered, loaded>>
    BY <1>6 DEF Filters!Remove
  <2>2. ASSUME NEW f \in Filters!Indexed
        PROVE  IndexRight(indices'[f], f, Told(metadata', covered', f), loaded')
    <3>1. /\ f \in Fields /\ metadata[i][f] \in Values \cup {None}
          /\ told_(f)[i] \in {metadata[i][f], None}
      BY <1>0, <1>b, <2>1 DEF Told, Filters!Metadata
    <3>2. IndexRight(Filters!Removed(indices[f], f, i, metadata[i][f]), f,
                     [told_(f) EXCEPT ![i] = None], loaded)
      BY <1>0, <1>b, <3>1, RemovedRight
    <3>3. Told(metadata', covered', f) = [told_(f) EXCEPT ![i] = None]
      BY <1>0, <2>1, <3>1 DEF Told
    <3> QED
      BY <2>1, <3>1, <3>2, <3>3
  <2>3. \A f \in Fields : indices'[f] # None => f \in Filters!Indexed
    BY <2>1
  <2>4. indices' \in [Fields -> IndexShape \cup {None}]
    BY <2>1, <2>2, <2>3 DEF IndexRight
  <2> QED
    BY <1>0, <1>c, <2>1, <2>2, <2>3, <2>4
<1>7. ASSUME Filters!Save
      PROVE  FilterInv'
  <2>1. /\ indexFile' = [postings |-> [f \in Filters!Indexed |-> indices[f].postings],
                         metadata |-> metadata, covered |-> covered]
        /\ UNCHANGED <<indices, metadata, covered, loaded>>
    BY <1>7 DEF Filters!Save
  <2>2. \A f \in Filters!Indexed : /\ f \in Fields /\ indices[f].postings \in [Values -> SUBSET FilterIds]
                                   /\ PostingsRight(indices[f].postings, told_(f))
    BY <1>0, <1>b DEF IndexRight, IndexShape
  <2>3. FileRight(indexFile')
    BY <1>0, <2>1, <2>2 DEF FileRight
  <2> QED
    BY <1>0, <1>c, <2>1, <2>3 DEF Filters!Indexed
<1>8. ASSUME Filters!Load
      PROVE  FilterInv'
  <2>1. /\ indexFile # Filters!NoFile /\ metadata' = indexFile.metadata /\ covered' = indexFile.covered
        /\ loaded' = TRUE /\ UNCHANGED indexFile
    BY <1>8 DEF Filters!Load
  <2> DEFINE P == indexFile.postings
  <2>2. /\ metadata' \in [FilterIds -> Filters!Metadata \cup {None}]
        /\ covered' \in [Fields -> SUBSET FilterIds] /\ DOMAIN P \subseteq Fields
        /\ \A f \in DOMAIN P : /\ P[f] \in [Values -> SUBSET FilterIds]
                               /\ PostingsRight(P[f], Told(metadata', covered', f))
    BY <1>0, <2>1 DEF FileRight
  <2>3. PICK numeric \in [DOMAIN P -> [Filters!Numbers -> SUBSET FilterIds]] :
           /\ \A f \in DOMAIN P : numeric[f] \in Filters!NumericIndexes(f, P[f])
           /\ indices' = [f \in Fields |-> IF f \in DOMAIN P
                                           THEN [postings |-> P[f], numeric |-> numeric[f]] ELSE None]
    BY <1>8 DEF Filters!Load
  <2>4. ASSUME NEW f \in DOMAIN P
        PROVE  IndexRight(indices'[f], f, Told(metadata', covered', f), loaded')
    <3> DEFINE after == Told(metadata', covered', f)
    <3>1. /\ f \in Fields /\ numeric[f] \in [Filters!Numbers -> SUBSET FilterIds]
          /\ P[f] \in [Values -> SUBSET FilterIds] /\ PostingsRight(P[f], after)
          /\ indices'[f] = [postings |-> P[f], numeric |-> numeric[f]]
      BY <2>2, <2>3
    <3>2. \A n \in Filters!Numbers :
             IF f \in NumericFields /\ Filters!Spellings(P[f], n) # {}
             THEN \E v \in Filters!Spellings(P[f], n) : numeric[f][n] = P[f][v]
             ELSE numeric[f][n] = {}
      BY <2>3 DEF Filters!NumericIndexes
    <3> HIDE DEF after, P
    <3>3. ASSUME NEW n \in Filters!Numbers, NEW i \in numeric[f][n]
          PROVE  f \in NumericFields /\ after[i] \in Values /\ Number[after[i]] = n
      <4>1. f \in NumericFields /\ \E v \in Filters!Spellings(P[f], n) : numeric[f][n] = P[f][v]
        BY <3>2, <3>3
      <4>2. PICK v \in Values : Number[v] = n /\ i \in P[f][v]
        BY <3>3, <4>1 DEF Filters!Spellings
      <4> QED
        BY <3>1, <4>1, <4>2 DEF PostingsRight
    <3>4. ASSUME f \in NumericFields, NEW i \in FilterIds, after[i] \in Values, Number[after[i]] # None
          PROVE  i \in numeric[f][Number[after[i]]] \/ Misses(i, after, TRUE)
      <4> DEFINE n == Number[after[i]]
      <4>1. n \in Filters!Numbers /\ i \in P[f][after[i]]
        BY <3>1, <3>4, NumbersAre DEF PostingsRight
      <4>2. PICK v \in Filters!Spellings(P[f], n) : numeric[f][n] = P[f][v]
        BY <3>2, <3>4, <4>1 DEF Filters!Spellings
      <4> QED
        BY <3>4, <4>1, <4>2 DEF Filters!Spellings, Misses
    <3>5. NumbersRight(numeric[f], f, after, loaded')
      BY <2>1, <3>3, <3>4 DEF NumbersRight
    <3> QED
      BY <3>1, <3>5 DEF IndexRight, IndexShape, after
  <2>5. \A f \in Fields : indices'[f] # None => f \in DOMAIN P
    BY <2>3
  <2>6. indices' \in [Fields -> IndexShape \cup {None}]
    BY <2>3, <2>4, <2>5 DEF IndexRight
  <2>7. FileRight(indexFile')
    BY <1>0, <2>1
  <2> QED
    BY <1>c, <2>2, <2>4, <2>5, <2>6, <2>7
<1> QED
  BY <1>1, <1>2, <1>3, <1>4, <1>5, <1>6, <1>7, <1>8 DEF Filters!Next

\* A query on an indexed field answers what meets its condition, and what of it it
\* misses is misspelt.
LEMMA QueriesRight ==
  ASSUME FilterInv, NEW c \in Filters!Conditions, c.field \in Filters!Indexed, NEW i \in FilterIds
  PROVE  /\ i \in Filters!Query(c) => Filters!Meets(i, c)
         /\ Filters!Meets(i, c) => i \in Filters!Query(c) \/ Filters!Misspelt(i, c)
<1> DEFINE f == c.field
           told_ == Told(metadata, covered, f)
<1>1. /\ f \in Fields /\ IndexRight(indices[f], f, told_, loaded)
      /\ metadata \in [FilterIds -> Filters!Metadata \cup {None}]
      /\ told_ \in [FilterIds -> Values \cup {None}]
  BY ToldIs DEF FilterInv, FilterTypes, IndexesRight, Filters!Indexed
<1>2. /\ indices[f].postings \in [Values -> SUBSET FilterIds]
      /\ indices[f].numeric \in [Filters!Numbers -> SUBSET FilterIds]
      /\ PostingsRight(indices[f].postings, told_)
      /\ NumbersRight(indices[f].numeric, f, told_, loaded)
  BY <1>1 DEF IndexRight, IndexShape
<1>3. None \notin Values /\ told_[i] = IF metadata[i] # None /\ i \in covered[f] THEN metadata[i][f] ELSE None
  BY NoneAssumption DEF Told
<1> HIDE DEF told_
<1>4. CASE c \in [op : {"Equal"}, field : Fields, value : Values]
  <2>1. c.op = "Equal" /\ c.value \in Values
    BY <1>4
  <2>2. Filters!Query(c) = indices[f].postings[c.value]
    BY <2>1 DEF Filters!Query, Filters!Exact
  <2>3. Filters!Meets(i, c) <=> told_[i] = c.value
    BY <1>3, <2>1 DEF Filters!Meets
  <2> QED
    BY <1>2, <2>1, <2>2, <2>3 DEF PostingsRight
<1>5. CASE c \in [op : {"LessThan", "GreaterOrEqual"}, field : NumericFields,
                  bound : UNION {{n, n + 1} : n \in Filters!Numbers}]
  <2> DEFINE fitting == {n \in Filters!Numbers : IF c.op = "LessThan" THEN n < c.bound ELSE n >= c.bound}
             v == metadata[i][f]
  <2>1. c.op \in {"LessThan", "GreaterOrEqual"} /\ f \in NumericFields
    BY <1>5
  <2>2. Filters!Query(c) = UNION {indices[f].numeric[n] : n \in fitting}
    <3>1. CASE c.op = "LessThan"
      BY <2>1, <3>1 DEF Filters!Query, Filters!Within
    <3>2. CASE c.op = "GreaterOrEqual"
      BY <2>1, <3>2 DEF Filters!Query, Filters!Within
    <3> QED
      BY <2>1, <3>1, <3>2
  <2>3. ASSUME i \in Filters!Query(c)
        PROVE  Filters!Meets(i, c)
    <3>1. PICK n \in fitting : i \in indices[f].numeric[n]
      BY <2>2, <2>3
    <3>2. told_[i] \in Values /\ Number[told_[i]] = n /\ n # None
      BY <1>2, <3>1, NumbersAre, NoneAssumption DEF NumbersRight
    <3>3. told_[i] = v /\ metadata[i] # None /\ i \in covered[f] /\ v # None
      BY <1>3, <3>2
    <3> QED
      BY <2>1, <3>1, <3>2, <3>3 DEF Filters!Meets
  <2>4. ASSUME Filters!Meets(i, c)
        PROVE  i \in Filters!Query(c) \/ Filters!Misspelt(i, c)
    <3>1. /\ metadata[i] # None /\ i \in covered[f] /\ v # None /\ Number[v] # None
          /\ IF c.op = "LessThan" THEN Number[v] < c.bound ELSE Number[v] >= c.bound
      BY <2>1, <2>4 DEF Filters!Meets
    <3>2. told_[i] = v /\ v \in Values
      BY <1>1, <1>3, <3>1
    <3>3. Number[v] \in fitting
      BY <3>1, <3>2, NumbersAre
    <3>4. CASE i \in indices[f].numeric[Number[v]]
      BY <2>2, <3>3, <3>4
    <3>5. CASE i \notin indices[f].numeric[Number[v]]
      <4>1. loaded /\ \E w \in Values : w # v /\ Number[w] = Number[v]
        BY <1>2, <2>1, <3>1, <3>2, <3>5 DEF NumbersRight, Misses
      <4> QED
        BY <2>1, <4>1 DEF Filters!Misspelt
    <3> QED
      BY <3>4, <3>5
  <2> QED
    BY <2>3, <2>4
<1> QED
  BY <1>4, <1>5 DEF Filters!Conditions

\* A query answers documents.
LEMMA QueriesAre ==
  ASSUME FilterInv, NEW c \in Filters!Conditions, c.field \in Filters!Indexed
  PROVE  Filters!Query(c) \subseteq FilterIds
<1> DEFINE index == indices[c.field]
<1>1. index.postings \in [Values -> SUBSET FilterIds] /\ index.numeric \in [Filters!Numbers -> SUBSET FilterIds]
  BY DEF FilterInv, IndexesRight, IndexRight, IndexShape
<1>2. CASE c \in [op : {"Equal"}, field : Fields, value : Values]
  BY <1>1, <1>2 DEF Filters!Query, Filters!Exact
<1>3. CASE c \in [op : {"LessThan", "GreaterOrEqual"}, field : NumericFields,
                  bound : UNION {{n, n + 1} : n \in Filters!Numbers}]
  <2>1. \A fitting \in SUBSET Filters!Numbers : Filters!Within(c.field, fitting) \subseteq FilterIds
    BY <1>1 DEF Filters!Within
  <2>2. CASE c.op = "LessThan"
    BY <2>1, <2>2 DEF Filters!Query
  <2>3. CASE c.op = "GreaterOrEqual"
    BY <2>1, <2>3 DEF Filters!Query
  <2> QED
    BY <1>3, <2>2, <2>3
<1> QED
  BY <1>2, <1>3 DEF Filters!Conditions

\* What the invariant says of the filters.
LEMMA FiltersAnswer == FilterInv => Filters!TypeOK /\ Filters!FiltersExact
<1> SUFFICES ASSUME FilterInv
             PROVE  Filters!TypeOK /\ Filters!FiltersExact
  OBVIOUS
<1>1. Filters!TypeOK
  <2>1. \A f \in Filters!Indexed : indices[f] \in IndexShape /\ IndexRight(indices[f], f, Told(metadata, covered, f), loaded)
    BY DEF FilterInv, IndexesRight, IndexRight
  <2> QED
    BY <2>1 DEF FilterInv, FilterTypes, IndexRight, PostingsRight, IndexShape, Filters!TypeOK
<1>2. Filters!FiltersExact
  <2> DEFINE asked(c) == Filters!Query(c)
             fit(c)   == {i \in FilterIds : Filters!Meets(i, c)}
  <2>1. \A c, d \in Filters!Conditions : {c.field, d.field} \subseteq Filters!Indexed =>
          /\ Filters!QueryAnd({asked(c), asked(d)}) \subseteq fit(c) \cap fit(d)
          /\ Filters!QueryOr({asked(c), asked(d)}) \subseteq fit(c) \cup fit(d)
          /\ \A i \in ((fit(c) \cap fit(d)) \ Filters!QueryAnd({asked(c), asked(d)}))
                      \cup ((fit(c) \cup fit(d)) \ Filters!QueryOr({asked(c), asked(d)})) :
                Filters!Misspelt(i, c) \/ Filters!Misspelt(i, d)
    <3> SUFFICES ASSUME NEW c \in Filters!Conditions, NEW d \in Filters!Conditions,
                        c.field \in Filters!Indexed, d.field \in Filters!Indexed
                 PROVE  /\ Filters!QueryAnd({asked(c), asked(d)}) \subseteq fit(c) \cap fit(d)
                        /\ Filters!QueryOr({asked(c), asked(d)}) \subseteq fit(c) \cup fit(d)
                        /\ \A i \in ((fit(c) \cap fit(d)) \ Filters!QueryAnd({asked(c), asked(d)}))
                                    \cup ((fit(c) \cup fit(d)) \ Filters!QueryOr({asked(c), asked(d)})) :
                              Filters!Misspelt(i, c) \/ Filters!Misspelt(i, d)
      OBVIOUS
    <3>1. Filters!QueryAnd({asked(c), asked(d)}) = asked(c) \cap asked(d)
      BY DEF Filters!QueryAnd
    <3>2. Filters!QueryOr({asked(c), asked(d)}) = asked(c) \cup asked(d)
      BY DEF Filters!QueryOr
    <3>3. asked(c) \cup asked(d) \subseteq FilterIds
      BY QueriesAre
    <3> QED
      BY <3>1, <3>2, <3>3, QueriesRight
  <2> QED
    BY <2>1 DEF Filters!FiltersExact
<1> QED
  BY <1>1, <1>2

------------------------------------------------------------------------------
(* MemoryMappedFile.                                                       *)

Record == [data : Addresses \cup {None}, capacity : Nat, writable : BOOLEAN,
           fd : Nat \cup {None}, path : Paths \cup {None}]
Region == [path : Paths, length : Nat, writable : BOOLEAN]

FileTypes == /\ mapped \in [Objects -> Record]
             /\ regions \in [Addresses -> Region \cup {None}]
             /\ fds \in [DOMAIN fds -> Paths \cup {None}] /\ DOMAIN fds \subseteq Nat
             /\ lengths \in [Paths -> Nat \cup {None}]
             /\ dirty \subseteq Paths

Open(o) == mapped[o].fd # None

\* Whichever calls fail: an open object has its descriptor, no two have the same file,
\* every descriptor that is taken has its object, and every region one of its file
\* that points at it, and is in the file.
OpenRight == \A o \in Objects :
    /\ Open(o) => /\ mapped[o].fd \in DOMAIN fds /\ mapped[o].path \in Paths
                  /\ fds[mapped[o].fd] = mapped[o].path
    /\ mapped[o].data # None => Open(o)
OpenOnce == \A o, p \in Objects : Open(o) /\ Open(p) /\ mapped[o].path = mapped[p].path => o = p
FdsHeld == \A d \in DOMAIN fds : fds[d] # None => \E o \in Objects : mapped[o].fd = d
RegionsPointedAt == \A a \in Addresses : regions[a] # None =>
    /\ \E o \in Objects : mapped[o].data = a /\ mapped[o].path = regions[a].path
    /\ lengths[regions[a].path] # None /\ lengths[regions[a].path] >= regions[a].length

FileInv == FileTypes /\ OpenRight /\ OpenOnce /\ FdsHeld /\ RegionsPointedAt

\* What the kernel gives is free.
LEMMA LowestIsFree ==
  ASSUME NEW table, DOMAIN table \subseteq Nat, Faulty!Free(table) # {}
  PROVE  Faulty!Lowest(table) \in Faulty!Free(table)
<1> DEFINE free == Faulty!Free(table)
<1>1. free \subseteq Nat /\ free # {}
  BY DEF Faulty!Free
<1>2. PICK d \in free : \A e \in free : ~(<<e, d>> \in OpToRel(<, Nat))
  <2> HIDE DEF free
  <2> QED
    BY <1>1, WFMin, NatLessThanWellFounded
<1>3. \A e \in free : ~(e < d)
  <2> HIDE DEF free
  <2> QED
    BY <1>1, <1>2 DEF OpToRel
<1>4. \A e \in free : d <= e
  <2> HIDE DEF free
  <2> QED
    BY <1>1, <1>3
<1> QED
  BY <1>2, <1>4 DEF Faulty!Lowest

\* What unmap and close of an object leave of the kernel's tables: what is not its own.
LEMMA Dropped ==
  ASSUME FileInv, NEW o \in Objects
  PROVE  /\ Faulty!Unmapped(o) \in [Addresses -> Region \cup {None}]
         /\ \A a \in Addresses : Faulty!Unmapped(o)[a] = IF a = mapped[o].data THEN None ELSE regions[a]
         /\ Faulty!FreedOf(o) \in [DOMAIN fds -> Paths \cup {None}]
         /\ \A d \in DOMAIN fds : Faulty!FreedOf(o)[d] = IF d = mapped[o].fd THEN None ELSE fds[d]
<1>1. regions \in [Addresses -> Region \cup {None}] /\ fds \in [DOMAIN fds -> Paths \cup {None}]
  BY DEF FileInv, FileTypes
<1>2. None \notin Addresses /\ None \notin DOMAIN fds
  BY NoneAssumption, StoresAssumption DEF FileInv, FileTypes
<1> QED
  BY <1>1, <1>2 DEF Faulty!Unmapped, Faulty!FreedOf

\* Two open objects have two descriptors, and a region whose file only one object has
\* is that object's.
LEMMA OpenApart ==
  ASSUME FileInv
  PROVE  /\ \A o, p \in Objects : Open(o) /\ mapped[o].fd = mapped[p].fd => o = p
         /\ \A o \in Objects, a \in Addresses :
               regions[a] # None /\ a # mapped[o].data => Faulty!Elsewhere(o, regions[a].path)
<1>1. ASSUME NEW o \in Objects, NEW p \in Objects, Open(o), mapped[o].fd = mapped[p].fd
      PROVE  o = p
  BY <1>1 DEF FileInv, OpenRight, OpenOnce, Open
<1>2. ASSUME NEW o \in Objects, NEW a \in Addresses, regions[a] # None, a # mapped[o].data
      PROVE  Faulty!Elsewhere(o, regions[a].path)
  <2>1. PICK p \in Objects : mapped[p].data = a /\ mapped[p].path = regions[a].path
    BY <1>2 DEF FileInv, RegionsPointedAt
  <2>2. a # None
    BY NoneAssumption, StoresAssumption
  <2> QED
    BY <1>2, <2>1, <2>2 DEF FileInv, OpenRight, Open, Faulty!Elsewhere
<1> QED
  BY <1>1, <1>2

\* A step that gives up an object's file, of which also the length may change while
\* no other object has it.
LEMMA GivenUp ==
  ASSUME FileInv, NEW o \in Objects, NEW new \in Record, new.data = None, new.fd = None,
         mapped' = [mapped EXCEPT ![o] = new],
         regions' = Faulty!Unmapped(o), fds' = Faulty!FreedOf(o), dirty' \subseteq Paths,
         lengths' \in [Paths -> Nat \cup {None}],
         \A path \in Paths : Faulty!Elsewhere(o, path) => lengths'[path] = lengths[path]
  PROVE  FileInv'
<1>1. FileTypes'
  BY Dropped DEF FileInv, FileTypes
<1>2. OpenRight'
  BY Dropped, OpenApart DEF FileInv, FileTypes, OpenRight, Open
<1>3. OpenOnce'
  BY DEF FileInv, FileTypes, OpenOnce, Open
<1>4. FdsHeld'
  BY Dropped DEF FileInv, FileTypes, FdsHeld
<1>5. ASSUME NEW a \in Addresses, regions'[a] # None
      PROVE  /\ \E p \in Objects : mapped'[p].data = a /\ mapped'[p].path = regions'[a].path
             /\ lengths'[regions'[a].path] # None /\ lengths'[regions'[a].path] >= regions'[a].length
  <2>1. regions[a] # None /\ a # mapped[o].data /\ regions'[a] = regions[a] /\ regions[a] \in Region
    BY <1>5, Dropped DEF FileInv, FileTypes
  <2>2. PICK p \in Objects : mapped[p].data = a /\ mapped[p].path = regions[a].path
    BY <2>1 DEF FileInv, RegionsPointedAt
  <2>3. mapped'[p] = mapped[p]
    BY <2>1, <2>2 DEF FileInv, FileTypes
  <2>4. lengths'[regions[a].path] = lengths[regions[a].path]
    BY <2>1, OpenApart DEF Region
  <2>5. lengths[regions[a].path] # None /\ lengths[regions[a].path] >= regions[a].length
    BY <2>1 DEF FileInv, RegionsPointedAt
  <2> QED
    BY <2>1, <2>2, <2>3, <2>4, <2>5
<1> QED
  BY <1>1, <1>2, <1>3, <1>4, <1>5 DEF FileInv, RegionsPointedAt

\* A step that opens a file in an object, as long as the kernel's map has room.
LEMMA TakenUp ==
  ASSUME FileInv, NEW o \in Objects, NEW path \in Paths, NEW writable \in BOOLEAN, NEW length \in Nat,
         ~Faulty!Elsewhere(o, path), Faulty!Opened(o, path, writable, length), dirty' \subseteq Paths,
         lengths' \in [Paths -> Nat \cup {None}], lengths'[path] = length,
         \A other \in Paths \ {path} : lengths'[other] = lengths[other]
  PROVE  FileInv'
<1> DEFINE place == Faulty!Lowest(Faulty!Unmapped(o))
           d == Faulty!Lowest(Faulty!FreedOf(o))
           new == [data |-> place, capacity |-> length, writable |-> writable, fd |-> d, path |-> path]
           region == [path |-> path, length |-> length, writable |-> writable]
<1>1. /\ mapped' = [mapped EXCEPT ![o] = new]
      /\ regions' = [Faulty!Unmapped(o) EXCEPT ![place] = region]
      /\ fds' = [Faulty!FreedOf(o) EXCEPT ![d] = path]
  BY DEF Faulty!Opened
<1>2. place \in Addresses /\ Faulty!Unmapped(o)[place] = None
  <2>1. Faulty!Free(Faulty!Unmapped(o)) # {} /\ DOMAIN Faulty!Unmapped(o) = Addresses
    BY Dropped DEF Faulty!Opened
  <2> QED
    BY <2>1, LowestIsFree, StoresAssumption DEF Faulty!Free
<1>3. d \in DOMAIN fds /\ Faulty!FreedOf(o)[d] = None
  <2>1. Faulty!Free(Faulty!FreedOf(o)) # {} /\ DOMAIN Faulty!FreedOf(o) = DOMAIN fds
    BY Dropped DEF Faulty!Opened
  <2> QED
    BY <2>1, LowestIsFree DEF Faulty!Free, FileInv, FileTypes
<1> HIDE DEF place, d
<1>4. new \in Record /\ region \in Region /\ None \notin Paths /\ place # None /\ d # None
  BY <1>2, <1>3, NoneAssumption, StoresAssumption DEF Record, Region, FileInv, FileTypes
<1>5. FileTypes'
  BY <1>1, <1>2, <1>3, <1>4, Dropped DEF FileInv, FileTypes
<1>6. \A p \in Objects \ {o} : Open(p) => /\ mapped[p].fd # d /\ mapped[p].fd # mapped[o].fd
                                          /\ fds'[mapped[p].fd] = fds[mapped[p].fd]
  BY <1>1, <1>3, <1>4, Dropped, OpenApart DEF FileInv, FileTypes, OpenRight, Open
<1>7. OpenRight'
  BY <1>1, <1>3, <1>4, <1>5, <1>6, Dropped DEF FileInv, FileTypes, OpenRight, Open
<1>8. OpenOnce'
  BY <1>1, <1>4 DEF FileInv, FileTypes, OpenOnce, Open, Faulty!Elsewhere
<1>9. ASSUME NEW e \in DOMAIN fds', fds'[e] # None
      PROVE  \E p \in Objects : mapped'[p].fd = e
  <2>1. DOMAIN fds' = DOMAIN fds
    BY <1>1, Dropped
  <2>2. CASE e = d
    <3>1. mapped'[o].fd = d
      BY <1>1 DEF FileInv, FileTypes
    <3> QED
      BY <2>2, <3>1
  <2>3. CASE e # d
    <3>1. fds[e] # None /\ e # mapped[o].fd
      BY <1>1, <1>9, <2>1, <2>3, Dropped
    <3>2. PICK p \in Objects : mapped[p].fd = e
      BY <2>1, <3>1 DEF FileInv, FdsHeld
    <3>3. mapped'[p] = mapped[p]
      BY <1>1, <3>1, <3>2 DEF FileInv, FileTypes
    <3> QED
      BY <3>2, <3>3
  <2> QED
    BY <2>2, <2>3
<1>10. ASSUME NEW a \in Addresses, regions'[a] # None
       PROVE  /\ \E p \in Objects : mapped'[p].data = a /\ mapped'[p].path = regions'[a].path
              /\ lengths'[regions'[a].path] # None /\ lengths'[regions'[a].path] >= regions'[a].length
  <2>1. CASE a = place
    <3>1. regions'[a] = region /\ mapped'[o] = new
      BY <1>1, <1>2, <2>1, Dropped DEF FileInv, FileTypes
    <3>2. length # None
      BY NoneAssumption
    <3> QED
      BY <2>1, <3>1, <3>2
  <2>2. CASE a # place
    <3>1. regions[a] # None /\ a # mapped[o].data /\ regions'[a] = regions[a] /\ regions[a] \in Region
      BY <1>1, <1>2, <1>10, <2>2, Dropped DEF FileInv, FileTypes
    <3>2. PICK p \in Objects : mapped[p].data = a /\ mapped[p].path = regions[a].path
      BY <3>1 DEF FileInv, RegionsPointedAt
    <3>3. mapped'[p] = mapped[p]
      BY <1>1, <3>1, <3>2 DEF FileInv, FileTypes
    <3>4. regions[a].path # path /\ regions[a].path \in Paths
      BY <3>1, OpenApart DEF Region
    <3>5. lengths[regions[a].path] # None /\ lengths[regions[a].path] >= regions[a].length
      BY <3>1 DEF FileInv, RegionsPointedAt
    <3> QED
      BY <3>1, <3>2, <3>3, <3>4, <3>5
  <2> QED
    BY <2>1, <2>2
<1> QED
  BY <1>5, <1>7, <1>8, <1>9, <1>10 DEF FileInv, FdsHeld, RegionsPointedAt

\* A resize gives room for what was asked.
LEMMA RoundedUpIs ==
  ASSUME NEW length \in Nat
  PROVE  Faulty!RoundedUp(length) \in Nat /\ Faulty!RoundedUp(length) >= length
BY DEF Faulty!RoundedUp, Faulty!Page

\* To flush marks nothing dirty.
LEMMA FlushedIs ==
  ASSUME FileInv, NEW o \in Objects, NEW after \in Faulty!Flushed(o)
  PROVE  after \subseteq Paths
BY DEF Faulty!Flushed, FileInv, FileTypes

LEMMA FileStarts == Faulty!Init => FileInv
<1> SUFFICES ASSUME Faulty!Init
             PROVE  FileInv
  OBVIOUS
<1>1. /\ mapped = [o \in Objects |-> Faulty!Fresh] /\ regions = [a \in Addresses |-> None]
      /\ fds = [d \in DOMAIN fds |-> None] /\ DOMAIN fds \subseteq Nat
      /\ lengths \in [Paths -> {None, 0, 2}] /\ dirty = {}
  BY DEF Faulty!Init, Faulty!Page
<1>2. Faulty!Fresh \in Record /\ Faulty!Fresh.fd = None /\ Faulty!Fresh.data = None
  BY DEF Faulty!Fresh, Record
<1> HIDE DEF Faulty!Fresh
<1>3. FileTypes
  BY <1>1, <1>2 DEF FileTypes
<1> QED
  BY <1>1, <1>2, <1>3 DEF FileInv, OpenRight, OpenOnce, FdsHeld, RegionsPointedAt, Open

\* Each call keeps it, whichever fails.
LEMMA FileSteps ==
  ASSUME FileInv, [Faulty!Next]_(Faulty!vars)
  PROVE  FileInv'
<1>0. /\ mapped \in [Objects -> Record] /\ lengths \in [Paths -> Nat \cup {None}] /\ dirty \subseteq Paths
      /\ regions \in [Addresses -> Region \cup {None}]
  BY DEF FileInv, FileTypes
<1>1. CASE UNCHANGED Faulty!vars
  BY <1>1 DEF Faulty!vars, FileInv, FileTypes, OpenRight, OpenOnce, FdsHeld, RegionsPointedAt, Open
<1>2. ASSUME NEW o \in Objects, Faulty!Close(o) \/ Faulty!Destroy(o)
      PROVE  FileInv'
  <2>1. PICK writable \in BOOLEAN : mapped' = [mapped EXCEPT ![o] = [Faulty!Fresh EXCEPT !.writable = writable]]
    BY <1>0, <1>2 DEF Faulty!Close, Faulty!Destroy, Faulty!Fresh, Record
  <2>2. /\ regions' = Faulty!Unmapped(o) /\ fds' = Faulty!FreedOf(o) /\ UNCHANGED lengths
        /\ dirty' \subseteq Paths
    BY <1>2, FlushedIs DEF Faulty!Close, Faulty!Destroy
  <2> DEFINE new == [Faulty!Fresh EXCEPT !.writable = writable]
  <2>3. new \in Record /\ new.data = None /\ new.fd = None
    BY DEF Faulty!Fresh, Record
  <2> HIDE DEF new
  <2> QED
    BY <1>0, <2>1, <2>2, <2>3, GivenUp DEF new
\* An open that fails.
<1>3. ASSUME NEW o \in Objects, NEW writable \in BOOLEAN, NEW length \in Nat,
             Faulty!Failed(o, writable, length), dirty' \subseteq Paths,
             lengths' \in [Paths -> Nat \cup {None}],
             \A path \in Paths : Faulty!Elsewhere(o, path) => lengths'[path] = lengths[path]
      PROVE  FileInv'
  <2> DEFINE new == [Faulty!Fresh EXCEPT !.writable = writable, !.capacity = length]
  <2>1. /\ mapped' = [mapped EXCEPT ![o] = new]
        /\ regions' = Faulty!Unmapped(o) /\ fds' = Faulty!FreedOf(o)
    BY <1>3 DEF Faulty!Failed
  <2>2. new \in Record /\ new.data = None /\ new.fd = None
    BY DEF Faulty!Fresh, Record
  <2> HIDE DEF new
  <2> QED
    BY <1>3, <2>1, <2>2, GivenUp
<1>4. ASSUME NEW o \in Objects, NEW path \in Paths, NEW writable \in BOOLEAN,
             Faulty!OpenExisting(o, path, writable)
      PROVE  FileInv'
  <2> DEFINE length == IF lengths[path] = None THEN 0 ELSE lengths[path]
  <2>1. length \in Nat /\ ~Faulty!Elsewhere(o, path) /\ UNCHANGED lengths /\ dirty' \subseteq Paths
    BY <1>0, <1>4, FlushedIs DEF Faulty!OpenExisting
  <2>2. Faulty!Failed(o, writable, length) \/ (length > 0 /\ Faulty!Opened(o, path, writable, length))
    BY <1>4 DEF Faulty!OpenExisting
  <2>3. length > 0 => lengths[path] = length
    OBVIOUS
  <2> HIDE DEF length
  <2>4. CASE Faulty!Failed(o, writable, length)
    BY <1>0, <1>3, <2>1, <2>4
  <2>5. CASE length > 0 /\ Faulty!Opened(o, path, writable, length)
    BY <1>0, <2>1, <2>3, <2>5, TakenUp
  <2> QED
    BY <2>2, <2>4, <2>5
<1>5. ASSUME NEW o \in Objects, NEW path \in Paths, NEW length \in Lengths, Faulty!OpenWrite(o, path, length)
      PROVE  FileInv'
  <2>1. length \in Nat /\ ~Faulty!Elsewhere(o, path) /\ dirty' \subseteq Paths
    BY <1>5, FlushedIs, StoresAssumption DEF Faulty!OpenWrite
  <2>2. \/ Faulty!Failed(o, TRUE, length) /\ UNCHANGED lengths
        \/ \E l \in Nat : Faulty!Failed(o, TRUE, length) /\ lengths' = [lengths EXCEPT ![path] = l]
        \/ Faulty!Opened(o, path, TRUE, length) /\ lengths' = [lengths EXCEPT ![path] = length]
    BY <1>5, <2>1 DEF Faulty!OpenWrite
  <2>3. CASE Faulty!Failed(o, TRUE, length) /\ UNCHANGED lengths
    BY <1>0, <1>3, <2>1, <2>3
  <2>4. ASSUME NEW l \in Nat, Faulty!Failed(o, TRUE, length), lengths' = [lengths EXCEPT ![path] = l]
        PROVE  FileInv'
    <3>1. /\ lengths' \in [Paths -> Nat \cup {None}]
          /\ \A other \in Paths : Faulty!Elsewhere(o, other) => lengths'[other] = lengths[other]
      BY <1>0, <2>1, <2>4
    <3> QED
      BY <1>3, <2>1, <2>4, <3>1
  <2>5. CASE Faulty!Opened(o, path, TRUE, length) /\ lengths' = [lengths EXCEPT ![path] = length]
    <3>1. /\ lengths' \in [Paths -> Nat \cup {None}] /\ lengths'[path] = length
          /\ \A other \in Paths \ {path} : lengths'[other] = lengths[other]
      BY <1>0, <2>1, <2>5
    <3> QED
      BY <2>1, <2>5, <3>1, TakenUp
  <2> QED
    BY <2>2, <2>3, <2>4, <2>5
<1>6. ASSUME NEW o \in Objects, NEW asked \in Lengths, Faulty!Resize(o, asked)
      PROVE  FileInv'
  <2> DEFINE length == Faulty!RoundedUp(asked)
             place == Faulty!Lowest(Faulty!Unmapped(o))
             path == mapped[o].path
             region == [path |-> path, length |-> length, writable |-> TRUE]
  <2>1. length \in Nat /\ dirty' \subseteq Paths /\ UNCHANGED fds
    BY <1>6, FlushedIs, RoundedUpIs, StoresAssumption DEF Faulty!Resize
  <2>2. \/ regions' = Faulty!Unmapped(o) /\ UNCHANGED <<mapped, lengths>>
        \/ /\ Open(o) /\ lengths' = [lengths EXCEPT ![path] = length]
           /\ mapped' = [mapped EXCEPT ![o].data = None] /\ regions' = Faulty!Unmapped(o)
        \/ /\ Open(o) /\ lengths' = [lengths EXCEPT ![path] = length]
           /\ Faulty!Free(Faulty!Unmapped(o)) # {}
           /\ mapped' = [mapped EXCEPT ![o].data = place, ![o].capacity = length]
           /\ regions' = [Faulty!Unmapped(o) EXCEPT ![place] = region]
    BY <1>6 DEF Faulty!Resize, Open
  <2> HIDE DEF length
  <2>3. ASSUME Open(o), NEW a \in Addresses, regions[a] # None, a # mapped[o].data
        PROVE  regions[a].path # path
    BY <2>3, OpenApart DEF FileInv, OpenOnce, Open, Faulty!Elsewhere
  <2>4. Open(o) => path \in Paths
    BY DEF FileInv, OpenRight
  <2>5. CASE regions' = Faulty!Unmapped(o) /\ UNCHANGED <<mapped, lengths>>
    <3>1. FileTypes'
      BY <2>1, <2>5, Dropped DEF FileInv, FileTypes
    <3>2. OpenRight' /\ OpenOnce' /\ FdsHeld'
      BY <2>1, <2>5 DEF FileInv, OpenRight, OpenOnce, FdsHeld, Open
    <3>3. RegionsPointedAt'
      BY <2>5, Dropped DEF FileInv, RegionsPointedAt
    <3> QED
      BY <3>1, <3>2, <3>3 DEF FileInv
  <2>6. CASE /\ Open(o) /\ lengths' = [lengths EXCEPT ![path] = length]
             /\ mapped' = [mapped EXCEPT ![o].data = None] /\ regions' = Faulty!Unmapped(o)
    <3>1. \A p \in Objects : /\ mapped'[p].fd = mapped[p].fd /\ mapped'[p].path = mapped[p].path
                             /\ mapped'[p].data = IF p = o THEN None ELSE mapped[p].data
      BY <1>0, <2>6 DEF Record
    <3>2. FileTypes'
      <4>1. mapped' \in [Objects -> Record] /\ lengths' \in [Paths -> Nat \cup {None}]
        BY <1>0, <2>1, <2>6 DEF Record
      <4> QED
        BY <2>1, <2>6, <4>1, Dropped DEF FileInv, FileTypes
    <3>3. OpenRight' /\ OpenOnce' /\ FdsHeld'
      BY <2>1, <3>1 DEF FileInv, OpenRight, OpenOnce, FdsHeld, Open
    <3>4. RegionsPointedAt'
      <4>1. ASSUME NEW a \in Addresses, regions'[a] # None
            PROVE  /\ regions[a] # None /\ a # mapped[o].data /\ regions'[a] = regions[a]
                   /\ lengths'[regions[a].path] = lengths[regions[a].path]
        BY <1>0, <2>3, <2>6, <4>1, Dropped
      <4> QED
        BY <3>1, <4>1 DEF FileInv, RegionsPointedAt
    <3> QED
      BY <3>2, <3>3, <3>4 DEF FileInv
  <2>7. CASE /\ Open(o) /\ lengths' = [lengths EXCEPT ![path] = length]
             /\ Faulty!Free(Faulty!Unmapped(o)) # {}
             /\ mapped' = [mapped EXCEPT ![o].data = place, ![o].capacity = length]
             /\ regions' = [Faulty!Unmapped(o) EXCEPT ![place] = region]
    <3>1. place \in Addresses
      <4>1. DOMAIN Faulty!Unmapped(o) = Addresses
        BY Dropped
      <4> QED
        BY <2>7, <4>1, LowestIsFree, StoresAssumption DEF Faulty!Free
    <3> HIDE DEF place
    <3>2. \A p \in Objects : /\ mapped'[p].fd = mapped[p].fd /\ mapped'[p].path = mapped[p].path
                             /\ mapped'[p].data = IF p = o THEN place ELSE mapped[p].data
      BY <1>0, <2>7 DEF Record
    <3>3. FileTypes'
      <4>1. region \in Region
        BY <2>1, <2>4, <2>7 DEF Region
      <4>2. mapped' \in [Objects -> Record]
        BY <1>0, <2>1, <2>7, <3>1, ZenonT(60) DEF Record
      <4>3. lengths' \in [Paths -> Nat \cup {None}]
        BY <1>0, <2>1, <2>7
      <4> QED
        BY <2>1, <2>7, <4>1, <4>2, <4>3, Dropped DEF FileInv, FileTypes
    <3>4. OpenRight' /\ OpenOnce' /\ FdsHeld'
      <4>1. OpenRight'
        BY <2>1, <2>7, <3>2 DEF FileInv, OpenRight, Open
      <4>2. OpenOnce' /\ FdsHeld'
        BY <2>1, <3>2 DEF FileInv, OpenOnce, FdsHeld, Open
      <4> QED
        BY <4>1, <4>2
    <3>5. ASSUME NEW a \in Addresses, regions'[a] # None
          PROVE  /\ \E p \in Objects : mapped'[p].data = a /\ mapped'[p].path = regions'[a].path
                 /\ lengths'[regions'[a].path] # None /\ lengths'[regions'[a].path] >= regions'[a].length
      <4>1. CASE a = place
        <5>1. regions'[a] = region /\ lengths'[path] = length /\ length # None
          BY <1>0, <2>1, <2>4, <2>7, <3>1, <4>1, Dropped, NoneAssumption
        <5> QED
          BY <2>1, <3>2, <4>1, <5>1
      <4>2. CASE a # place
        <5>1. /\ regions[a] # None /\ a # mapped[o].data /\ regions'[a] = regions[a]
              /\ lengths'[regions[a].path] = lengths[regions[a].path]
          BY <1>0, <2>3, <2>7, <3>1, <3>5, <4>2, Dropped
        <5> QED
          BY <3>2, <5>1 DEF FileInv, RegionsPointedAt
      <4> QED
        BY <4>1, <4>2
    <3> QED
      BY <3>3, <3>4, <3>5 DEF FileInv, RegionsPointedAt
  <2> QED
    BY <2>2, <2>5, <2>6, <2>7
<1>7. ASSUME NEW o \in Objects, NEW p \in Objects, Faulty!Move(o, p)
      PROVE  FileInv'
  <2>1. /\ o # p /\ mapped' = [mapped EXCEPT ![o] = mapped[p], ![p] = Faulty!Fresh]
        /\ regions' = Faulty!Unmapped(o) /\ fds' = Faulty!FreedOf(o)
        /\ UNCHANGED lengths /\ dirty' \subseteq Paths
    BY <1>7, FlushedIs DEF Faulty!Move
  <2>2. Faulty!Fresh \in Record /\ Faulty!Fresh.data = None /\ Faulty!Fresh.fd = None
    BY DEF Faulty!Fresh, Record
  <2> HIDE DEF Faulty!Fresh
  <2>3. \A q \in Objects : mapped'[q] = IF q = o THEN mapped[p] ELSE IF q = p THEN Faulty!Fresh ELSE mapped[q]
    BY <1>0, <2>1
  <2>4. FileTypes'
    BY <2>1, <2>2, Dropped DEF FileInv, FileTypes
  <2>5. OpenRight'
    BY <2>1, <2>2, <2>3, Dropped, OpenApart DEF FileInv, FileTypes, OpenRight, Open
  <2>6. OpenOnce'
    BY <2>1, <2>2, <2>3 DEF FileInv, OpenOnce, Open
  <2>7. FdsHeld'
    <3>1. ASSUME NEW d \in DOMAIN fds, fds'[d] # None
          PROVE  \E q \in Objects : mapped'[q].fd = d
      <4>1. d # mapped[o].fd /\ fds[d] # None
        BY <2>1, <3>1, Dropped
      <4>2. PICK q \in Objects : mapped[q].fd = d
        BY <4>1 DEF FileInv, FdsHeld
      <4> QED
        BY <2>1, <2>3, <4>1, <4>2
    <3>2. DOMAIN fds' = DOMAIN fds
      BY <2>1, Dropped
    <3> QED
      BY <3>1, <3>2 DEF FdsHeld
  <2>8. ASSUME NEW a \in Addresses, regions'[a] # None
        PROVE  /\ \E q \in Objects : mapped'[q].data = a /\ mapped'[q].path = regions'[a].path
               /\ lengths'[regions'[a].path] # None /\ lengths'[regions'[a].path] >= regions'[a].length
    <3>1. a # mapped[o].data /\ regions[a] # None /\ regions'[a] = regions[a]
      BY <2>1, <2>8, Dropped
    <3>2. PICK q \in Objects : mapped[q].data = a /\ mapped[q].path = regions[a].path
      BY <3>1 DEF FileInv, RegionsPointedAt
    <3>3. \E r \in Objects : mapped'[r].data = a /\ mapped'[r].path = regions[a].path
      <4>1. q # o
        BY <3>1, <3>2
      <4>2. CASE q = p
        BY <2>3, <3>2, <4>2
      <4>3. CASE q # p
        BY <2>3, <3>2, <4>1, <4>3
      <4> QED
        BY <4>2, <4>3
    <3> QED
      BY <2>1, <3>1, <3>3 DEF FileInv, RegionsPointedAt
  <2> QED
    BY <2>4, <2>5, <2>6, <2>7, <2>8 DEF FileInv, RegionsPointedAt
<1>8. ASSUME NEW o \in Objects, Faulty!Write(o) \/ Faulty!Sync(o)
      PROVE  FileInv'
  <2>1. UNCHANGED <<mapped, regions, fds, lengths>>
    BY <1>8 DEF Faulty!Write, Faulty!Sync
  <2>2. dirty' \subseteq Paths
    <3>1. CASE Faulty!Write(o)
      <4>1. /\ mapped[o].data \in Addresses /\ regions[mapped[o].data] \in Region
            /\ dirty' = dirty \cup {regions[mapped[o].data].path}
        BY <1>0, <3>1 DEF Faulty!Write, Record
      <4> QED
        BY <1>0, <4>1 DEF Region
    <3>2. CASE Faulty!Sync(o)
      BY <3>2, FlushedIs DEF Faulty!Sync
    <3> QED
      BY <1>8, <3>1, <3>2
  <2> QED
    BY <2>1, <2>2 DEF FileInv, FileTypes, OpenRight, OpenOnce, FdsHeld, RegionsPointedAt, Open
<1> QED
  BY <1>1, <1>2, <1>4, <1>5, <1>6, <1>7, <1>8 DEF Faulty!Next

LEMMA FilesAnswer == FileInv => Faulty!DescriptorsAreHeld /\ Faulty!RegionsAreInFiles
<1> SUFFICES ASSUME FileInv
             PROVE  Faulty!DescriptorsAreHeld /\ Faulty!RegionsAreInFiles
  OBVIOUS
<1>1. ASSUME NEW d \in Faulty!Taken(fds)
      PROVE  \E o \in Objects : {p \in Objects : mapped[p].fd = d} = {o}
  <2>1. d \in DOMAIN fds /\ fds[d] # None /\ d # None
    BY NoneAssumption DEF Faulty!Taken, FileInv, FileTypes
  <2>2. PICK o \in Objects : mapped[o].fd = d
    BY <2>1 DEF FileInv, FdsHeld
  <2>3. \A p \in Objects : mapped[p].fd = d => p = o
    BY <2>1, <2>2, OpenApart DEF Open
  <2> QED
    BY <2>2, <2>3
<1>2. /\ \A o \in Objects : mapped[o].fd # None => fds[mapped[o].fd] = mapped[o].path
      /\ \A o \in Faulty!Mapped : mapped[o].fd # None
  BY DEF FileInv, OpenRight, Open, Faulty!Mapped
<1>3. Faulty!RegionsAreInFiles
  BY DEF FileInv, FileTypes, RegionsPointedAt, Faulty!RegionsAreInFiles, Faulty!Taken
<1> QED
  BY <1>1, <1>2, <1>3 DEF Faulty!DescriptorsAreHeld

\* The calls are the same where only open and mmap may fail ...
LEMMA SameCalls ==
  /\ \A c : Mapping!MayFail(c) => Faulty!MayFail(c)
  /\ Mapping!Fresh = Faulty!Fresh /\ Mapping!Page = Faulty!Page
  /\ \A length : Mapping!RoundedUp(length) = Faulty!RoundedUp(length)
  /\ \A o : Mapping!Unmapped(o) = Faulty!Unmapped(o) /\ Mapping!FreedOf(o) = Faulty!FreedOf(o)
  /\ \A o, path : Mapping!Elsewhere(o, path) = Faulty!Elsewhere(o, path)
  /\ \A table : Mapping!Free(table) = Faulty!Free(table) /\ Mapping!Lowest(table) = Faulty!Lowest(table)
<1>1. /\ \A c : Mapping!MayFail(c) => Faulty!MayFail(c)
      /\ Mapping!Fresh = Faulty!Fresh /\ Mapping!Page = Faulty!Page
      /\ \A length : Mapping!RoundedUp(length) = Faulty!RoundedUp(length)
      /\ \A o : Mapping!Unmapped(o) = Faulty!Unmapped(o) /\ Mapping!FreedOf(o) = Faulty!FreedOf(o)
      /\ \A o, path : Mapping!Elsewhere(o, path) = Faulty!Elsewhere(o, path)
      /\ \A table : Mapping!Free(table) = Faulty!Free(table)
  BY DEF Mapping!MayFail, Faulty!MayFail, Mapping!Fresh, Faulty!Fresh, Mapping!Page, Faulty!Page,
         Mapping!RoundedUp, Faulty!RoundedUp, Mapping!Unmapped, Faulty!Unmapped,
         Mapping!FreedOf, Faulty!FreedOf, Mapping!Elsewhere, Faulty!Elsewhere, Mapping!Free, Faulty!Free
<1>2. \A table : Mapping!Lowest(table) = Faulty!Lowest(table)
  BY Zenon DEF Mapping!Lowest, Faulty!Lowest, Mapping!Free, Faulty!Free
<1> QED
  BY <1>1, <1>2

\* ... and what happens there may happen where all may fail.
LEMMA FewerFaults == /\ Mapping!Init => Faulty!Init
                     /\ [Mapping!Next]_(Mapping!vars) => [Faulty!Next]_(Faulty!vars)
<1>1. Mapping!Init => Faulty!Init
  BY DEF Mapping!Init, Faulty!Init, Mapping!Fresh, Faulty!Fresh, Mapping!Page, Faulty!Page,
         Mapping!Cardinality, Faulty!Cardinality
<1>3. \A o : Mapping!Flushed(o) \subseteq Faulty!Flushed(o)
  BY DEF Mapping!MayFail, Faulty!MayFail, Mapping!Flushed, Faulty!Flushed
<1>5. ASSUME NEW o \in Objects
      PROVE  /\ Mapping!Close(o) => Faulty!Close(o)
             /\ Mapping!Destroy(o) => Faulty!Destroy(o)
             /\ Mapping!Sync(o) => Faulty!Sync(o)
             /\ Mapping!Write(o) => Faulty!Write(o)
             /\ \A p \in Objects : Mapping!Move(o, p) => Faulty!Move(o, p)
  BY SameCalls, <1>3 DEF Mapping!Close, Faulty!Close, Mapping!Destroy, Faulty!Destroy, Mapping!Sync, Faulty!Sync,
                    Mapping!Write, Faulty!Write, Mapping!Move, Faulty!Move
<1>6. ASSUME NEW o \in Objects
      PROVE  /\ \A writable, length : Mapping!Failed(o, writable, length) => Faulty!Failed(o, writable, length)
             /\ \A path, writable, length :
                   Mapping!Opened(o, path, writable, length) => Faulty!Opened(o, path, writable, length)
  BY Zenon, SameCalls DEF Mapping!Failed, Faulty!Failed, Mapping!Opened, Faulty!Opened
<1>7. ASSUME NEW o \in Objects, NEW path \in Paths
      PROVE  /\ \A writable \in BOOLEAN :
                   Mapping!OpenExisting(o, path, writable) => Faulty!OpenExisting(o, path, writable)
             /\ \A length \in Lengths : Mapping!OpenWrite(o, path, length) => Faulty!OpenWrite(o, path, length)
  BY SameCalls, <1>3, <1>6 DEF Mapping!OpenExisting, Faulty!OpenExisting, Mapping!OpenWrite, Faulty!OpenWrite
<1>8. ASSUME NEW o \in Objects, NEW asked \in Lengths
      PROVE  Mapping!Resize(o, asked) => Faulty!Resize(o, asked)
  BY SameCalls, <1>3 DEF Mapping!Resize, Faulty!Resize
<1>9. Mapping!Next => Faulty!Next
  BY <1>5, <1>7, <1>8 DEF Mapping!Next, Faulty!Next
<1>10. UNCHANGED Mapping!vars => UNCHANGED Faulty!vars
  BY DEF Mapping!vars, Faulty!vars
<1> QED
  BY <1>1, <1>9, <1>10

\* As long as no ftruncate and no msync fails: the region of an object is its own and
\* is what it knows, and what was written is not out of reach.
OwnRegions == \A o \in Objects : mapped[o].data # None =>
    regions[mapped[o].data] = [path |-> mapped[o].path, length |-> mapped[o].capacity,
                               writable |-> mapped[o].writable]
OneObject == \A o, p \in Objects : mapped[o].data # None /\ mapped[o].data = mapped[p].data => o = p

MappingInv == FileInv /\ OwnRegions /\ OneObject /\ Mapping!WritesAreHeld

\* What a flush of an object leaves dirty is held by another.
LEMMA FlushedHeld ==
  ASSUME MappingInv, NEW o \in Objects, NEW after \in Mapping!Flushed(o)
  PROVE  /\ after \subseteq dirty
         /\ \A path \in after : \E q \in Objects \ {o} :
               mapped[q].data # None /\ mapped[q].path = path /\ mapped[q].writable
<1>1. after = IF mapped[o].data = None \/ ~mapped[o].writable \/ regions[mapped[o].data] = None
              THEN dirty ELSE dirty \ {regions[mapped[o].data].path}
  BY DEF Mapping!Flushed, Mapping!MayFail
<1>2. ASSUME NEW path \in after
      PROVE  \E q \in Objects \ {o} : mapped[q].data # None /\ mapped[q].path = path /\ mapped[q].writable
  <2>1. PICK q \in Objects : mapped[q].data # None /\ mapped[q].path = path /\ mapped[q].writable
    BY <1>1, <1>2 DEF MappingInv, Mapping!WritesAreHeld, Mapping!Mapped
  <2>2. CASE q = o
    <3>1. regions[mapped[o].data] = [path |-> mapped[o].path, length |-> mapped[o].capacity,
                                     writable |-> mapped[o].writable]
      BY <2>1, <2>2 DEF MappingInv, OwnRegions
    <3>2. mapped[o].data \in Addresses /\ regions \in [Addresses -> Region \cup {None}]
          /\ mapped[o].path \in Paths /\ mapped[o].capacity \in Nat /\ mapped[o].writable \in BOOLEAN
      BY <2>1, <2>2 DEF MappingInv, FileInv, FileTypes, OpenRight, Record
    <3>3. regions[mapped[o].data] # None
      BY <3>1, <3>2, NoneAssumption
    <3> QED
      BY <1>1, <1>2, <2>1, <2>2, <3>1, <3>3
  <2> QED
    BY <2>1, <2>2
<1> QED
  BY <1>1, <1>2

\* Nor does unmap touch what another object maps.
LEMMA LeftAlone ==
  ASSUME MappingInv, NEW o \in Objects, NEW q \in Objects \ {o}, mapped[q].data # None
  PROVE  /\ mapped[q].data \in Addresses /\ mapped[q].data # mapped[o].data
         /\ Faulty!Unmapped(o)[mapped[q].data] = regions[mapped[q].data]
         /\ regions[mapped[q].data] # None
<1>1. mapped[q].data \in Addresses /\ mapped[q].data # mapped[o].data
  BY DEF MappingInv, OneObject, FileInv, FileTypes, Record
<1>2. mapped[q].path \in Paths /\ mapped[q].capacity \in Nat /\ mapped[q].writable \in BOOLEAN
  BY DEF MappingInv, FileInv, FileTypes, OpenRight, Record
<1>3. regions[mapped[q].data] # None
  <2> DEFINE region == [path |-> mapped[q].path, length |-> mapped[q].capacity, writable |-> mapped[q].writable]
  <2>1. regions[mapped[q].data] = region
    BY DEF MappingInv, OwnRegions
  <2>2. region \in [path : Paths, length : Nat, writable : BOOLEAN]
    BY <1>2
  <2> HIDE DEF region
  <2> QED
    BY <2>1, <2>2, NoneAssumption
<1>4. FileInv
  BY DEF MappingInv
<1> QED
  BY <1>1, <1>3, <1>4, Dropped

LEMMA MappingStarts == Mapping!Init => MappingInv
<1> SUFFICES ASSUME Mapping!Init
             PROVE  MappingInv
  OBVIOUS
<1>1. FileInv
  BY FewerFaults, FileStarts
<1>2. (\A o \in Objects : mapped[o].data = None) /\ dirty = {}
  BY DEF Mapping!Init, Mapping!Fresh
<1> QED
  BY <1>1, <1>2 DEF MappingInv, OwnRegions, OneObject, Mapping!WritesAreHeld

LEMMA MappingSteps ==
  ASSUME MappingInv, [Mapping!Next]_(Mapping!vars)
  PROVE  MappingInv'
<1> DEFINE Holds(q, path) == mapped[q].data # None /\ mapped[q].path = path /\ mapped[q].writable
<1>0. /\ FileInv /\ FileInv'
      /\ mapped \in [Objects -> Record] /\ regions \in [Addresses -> Region \cup {None}]
      /\ None \notin Addresses
  <2>1. FileInv
    BY DEF MappingInv
  <2>2. [Faulty!Next]_(Faulty!vars)
    BY FewerFaults
  <2>3. FileInv'
    BY <2>1, <2>2, FileSteps
  <2> QED
    BY <2>1, <2>3, NoneAssumption, StoresAssumption DEF FileInv, FileTypes
<1>1. CASE UNCHANGED Mapping!vars
  BY <1>0, <1>1 DEF Mapping!vars, MappingInv, OwnRegions, OneObject, Mapping!WritesAreHeld, Mapping!Mapped
\* Of a step in which all other objects stay as they were, with their regions, and what
\* is dirty is another's or this one's.
<1>2. ASSUME NEW o \in Objects, NEW new \in Record, mapped' = [mapped EXCEPT ![o] = new],
             \A q \in Objects \ {o} : mapped[q].data # None => /\ regions'[mapped[q].data] = regions[mapped[q].data]
                                                               /\ mapped[q].data # new.data,
             new.data # None => regions'[new.data] = [path |-> new.path, length |-> new.capacity,
                                                      writable |-> new.writable],
             \A path \in dirty' : \/ \E q \in Objects \ {o} : Holds(q, path)
                                  \/ new.data # None /\ new.path = path /\ new.writable
      PROVE  MappingInv'
  <2>1. \A q \in Objects : mapped'[q] = IF q = o THEN new ELSE mapped[q]
    BY <1>0, <1>2
  <2>2. OwnRegions'
    BY <1>2, <2>1 DEF MappingInv, OwnRegions
  <2>3. OneObject'
    BY <1>2, <2>1 DEF MappingInv, OneObject
  <2>4. Mapping!WritesAreHeld'
    BY <1>2, <2>1 DEF Mapping!WritesAreHeld, Mapping!Mapped
  <2> QED
    BY <1>0, <2>2, <2>3, <2>4 DEF MappingInv
\* Of a step after which the object maps nothing.
<1>3. ASSUME NEW o \in Objects, NEW new \in Record, new.data = None, mapped' = [mapped EXCEPT ![o] = new],
             regions' = Faulty!Unmapped(o),
             NEW after \in Mapping!Flushed(o), dirty' \subseteq after
      PROVE  MappingInv'
  <2>1. \A q \in Objects \ {o} : mapped[q].data # None => /\ regions'[mapped[q].data] = regions[mapped[q].data]
                                                          /\ mapped[q].data # new.data
    BY <1>3, LeftAlone
  <2>2. \A path \in dirty' : \E q \in Objects \ {o} : Holds(q, path)
    BY <1>3, FlushedHeld
  <2> QED
    BY <1>2, <1>3, <2>1, <2>2, ZenonT(60)
\* Of one after which it maps what the kernel found free.
<1>4. ASSUME NEW o \in Objects, NEW new \in Record, mapped' = [mapped EXCEPT ![o] = new],
             new.data = Faulty!Lowest(Faulty!Unmapped(o)), Faulty!Free(Faulty!Unmapped(o)) # {},
             regions' = [Faulty!Unmapped(o) EXCEPT ![new.data] =
                            [path |-> new.path, length |-> new.capacity, writable |-> new.writable]],
             NEW after \in Mapping!Flushed(o), dirty' \subseteq after
      PROVE  MappingInv'
  <2> DEFINE place == Faulty!Lowest(Faulty!Unmapped(o))
  <2>1. DOMAIN Faulty!Unmapped(o) = Addresses
    BY <1>0, Dropped
  <2>2. place \in Addresses /\ Faulty!Unmapped(o)[place] = None
    BY <1>4, <2>1, LowestIsFree, StoresAssumption DEF Faulty!Free
  <2> HIDE DEF place
  <2>3. regions'[place] = [path |-> new.path, length |-> new.capacity, writable |-> new.writable]
    BY <1>4, <2>1, <2>2 DEF place
  <2>4. ASSUME NEW q \in Objects \ {o}, mapped[q].data # None
        PROVE  regions'[mapped[q].data] = regions[mapped[q].data] /\ mapped[q].data # place
    BY <1>4, <2>1, <2>2, <2>4, LeftAlone DEF place
  <2>5. \A path \in dirty' : \E q \in Objects \ {o} : Holds(q, path)
    BY <1>4, FlushedHeld
  <2>6. new.data = place
    BY <1>4 DEF place
  <2>7. regions'[new.data] = [path |-> new.path, length |-> new.capacity, writable |-> new.writable]
    BY <2>3, <2>6
  <2>8. \A q \in Objects \ {o} : mapped[q].data # None => /\ regions'[mapped[q].data] = regions[mapped[q].data]
                                                          /\ mapped[q].data # new.data
    BY <2>4, <2>6
  <2>9. mapped' = [mapped EXCEPT ![o] = new]
    BY <1>4
  <2> QED
    BY <1>2, <2>5, <2>7, <2>8, <2>9
<1>5. ASSUME NEW o \in Objects, Mapping!Close(o) \/ Mapping!Destroy(o)
      PROVE  MappingInv'
  <2>1. PICK writable \in BOOLEAN : mapped' = [mapped EXCEPT ![o] = [Faulty!Fresh EXCEPT !.writable = writable]]
    BY <1>0, <1>5, SameCalls DEF Mapping!Close, Mapping!Destroy, Faulty!Fresh, Record
  <2> DEFINE new == [Faulty!Fresh EXCEPT !.writable = writable]
  <2>2. new \in Record /\ new.data = None
    BY DEF Faulty!Fresh, Record
  <2>3. regions' = Faulty!Unmapped(o) /\ dirty' \in Mapping!Flushed(o)
    BY <1>5, SameCalls DEF Mapping!Close, Mapping!Destroy
  <2>4. mapped' = [mapped EXCEPT ![o] = new]
    BY <2>1
  <2> HIDE DEF new
  <2> QED
    BY <1>3, <2>2, <2>3, <2>4
<1>6. ASSUME NEW o \in Objects, NEW writable \in BOOLEAN, NEW length \in Nat,
             Mapping!Failed(o, writable, length), NEW after \in Mapping!Flushed(o), dirty' \subseteq after
      PROVE  MappingInv'
  <2> DEFINE new == [Faulty!Fresh EXCEPT !.writable = writable, !.capacity = length]
  <2>1. mapped' = [mapped EXCEPT ![o] = new] /\ regions' = Faulty!Unmapped(o)
    BY <1>6, SameCalls DEF Mapping!Failed
  <2>2. new \in Record /\ new.data = None
    BY DEF Faulty!Fresh, Record
  <2> HIDE DEF new
  <2> QED
    BY <1>3, <1>6, <2>1, <2>2
<1>7. ASSUME NEW o \in Objects, NEW path \in Paths, NEW writable \in BOOLEAN, NEW length \in Nat,
             Mapping!Opened(o, path, writable, length), NEW after \in Mapping!Flushed(o), dirty' \subseteq after
      PROVE  MappingInv'
  <2> DEFINE place == Faulty!Lowest(Faulty!Unmapped(o))
             d == Faulty!Lowest(Faulty!FreedOf(o))
             new == [data |-> place, capacity |-> length, writable |-> writable, fd |-> d, path |-> path]
  <2>1. /\ mapped' = [mapped EXCEPT ![o] = new]
        /\ regions' = [Faulty!Unmapped(o) EXCEPT ![place] =
                          [path |-> path, length |-> length, writable |-> writable]]
        /\ Faulty!Free(Faulty!Unmapped(o)) # {}
    BY <1>7, SameCalls DEF Mapping!Opened
  <2> HIDE DEF place, d
  <2>2. mapped'[o] = new /\ mapped' \in [Objects -> Record]
    BY <1>0, <2>1 DEF FileInv, FileTypes
  <2>3. /\ new.data = place /\ new.path = path /\ new.capacity = length /\ new.writable = writable
        /\ new \in Record
    BY <2>2
  <2> HIDE DEF new
  <2> QED
    BY <1>4, <1>7, <2>1, <2>3 DEF place
<1>8. ASSUME NEW o \in Objects, NEW path \in Paths,
             \/ \E writable \in BOOLEAN : Mapping!OpenExisting(o, path, writable)
             \/ \E length \in Lengths : Mapping!OpenWrite(o, path, length)
      PROVE  MappingInv'
  <2>1. ASSUME NEW writable \in BOOLEAN, Mapping!OpenExisting(o, path, writable)
        PROVE  MappingInv'
    <3> DEFINE length == IF lengths[path] = None THEN 0 ELSE lengths[path]
    <3>1. /\ length \in Nat /\ dirty' \in Mapping!Flushed(o)
          /\ Mapping!Failed(o, writable, length) \/ Mapping!Opened(o, path, writable, length)
      BY <1>0, <2>1 DEF Mapping!OpenExisting, FileInv, FileTypes
    <3> HIDE DEF length
    <3> QED
      BY <1>6, <1>7, <3>1
  <2>2. ASSUME NEW length \in Lengths, Mapping!OpenWrite(o, path, length)
        PROVE  MappingInv'
    <3>1. /\ length \in Nat
          /\ Mapping!Failed(o, TRUE, length) \/ Mapping!Opened(o, path, TRUE, length)
          /\ \E after \in Mapping!Flushed(o) : dirty' \subseteq after
      BY <2>2, StoresAssumption DEF Mapping!OpenWrite
    <3>2. PICK after \in Mapping!Flushed(o) : dirty' \subseteq after
      BY <3>1
    <3> QED
      BY <1>6, <1>7, <3>1, <3>2
  <2> QED
    BY <1>8, <2>1, <2>2
<1>9. ASSUME NEW o \in Objects, NEW asked \in Lengths, Mapping!Resize(o, asked)
      PROVE  MappingInv'
  <2> DEFINE length == Faulty!RoundedUp(asked)
             place == Faulty!Lowest(Faulty!Unmapped(o))
             closed == [mapped[o] EXCEPT !.data = None]
             grown == [mapped[o] EXCEPT !.data = place, !.capacity = length]
  <2>1. mapped[o] \in Record /\ mapped[o].writable = TRUE /\ length \in Nat
        /\ dirty' \in Mapping!Flushed(o)
    BY <1>0, <1>9, RoundedUpIs, StoresAssumption DEF Mapping!Resize, Record
  <2>2. \/ mapped[o].fd = None /\ regions' = Faulty!Unmapped(o) /\ UNCHANGED mapped
        \/ mapped' = [mapped EXCEPT ![o].data = None] /\ regions' = Faulty!Unmapped(o)
        \/ /\ Faulty!Free(Faulty!Unmapped(o)) # {}
           /\ mapped' = [mapped EXCEPT ![o].data = place, ![o].capacity = length]
           /\ regions' = [Faulty!Unmapped(o) EXCEPT ![place] =
                             [path |-> mapped[o].path, length |-> length, writable |-> TRUE]]
    BY <1>9, SameCalls DEF Mapping!Resize, Mapping!MayFail
  <2> HIDE DEF length
  <2>3. CASE mapped[o].fd = None /\ regions' = Faulty!Unmapped(o) /\ UNCHANGED mapped
    <3>1. mapped[o].data = None /\ mapped' = [mapped EXCEPT ![o] = mapped[o]]
      BY <1>0, <2>3 DEF FileInv, OpenRight, Open
    <3> QED
      BY <1>3, <2>1, <2>3, <3>1
  <2>4. CASE mapped' = [mapped EXCEPT ![o].data = None] /\ regions' = Faulty!Unmapped(o)
    <3>1. closed \in Record /\ closed.data = None /\ mapped' = [mapped EXCEPT ![o] = closed]
      BY <1>0, <2>1, <2>4 DEF Record
    <3> HIDE DEF closed
    <3> QED
      BY <1>3, <2>1, <2>4, <3>1
  <2>5. CASE /\ Faulty!Free(Faulty!Unmapped(o)) # {}
             /\ mapped' = [mapped EXCEPT ![o].data = place, ![o].capacity = length]
             /\ regions' = [Faulty!Unmapped(o) EXCEPT ![place] =
                               [path |-> mapped[o].path, length |-> length, writable |-> TRUE]]
    <3>1. place \in Addresses
      <4>1. DOMAIN Faulty!Unmapped(o) = Addresses
        BY <1>0, Dropped
      <4> QED
        BY <2>5, <4>1, LowestIsFree, StoresAssumption DEF Faulty!Free
    <3> HIDE DEF place
    <3>2. /\ grown \in Record /\ grown.data = place /\ grown.capacity = length
          /\ grown.path = mapped[o].path /\ grown.writable = TRUE
          /\ mapped' = [mapped EXCEPT ![o] = grown]
      BY <1>0, <2>1, <2>5, <3>1 DEF Record
    <3> HIDE DEF grown
    <3>3. regions' = [Faulty!Unmapped(o) EXCEPT ![grown.data] =
                         [path |-> grown.path, length |-> grown.capacity, writable |-> grown.writable]]
      BY <2>5, <3>2
    <3> QED
      BY <1>4, <2>1, <2>5, <3>2, <3>3 DEF place
  <2> QED
    BY <2>2, <2>3, <2>4, <2>5
<1>10. ASSUME NEW o \in Objects, NEW p \in Objects, Mapping!Move(o, p)
       PROVE  MappingInv'
  <2>1. /\ o # p /\ mapped' = [mapped EXCEPT ![o] = mapped[p], ![p] = Faulty!Fresh]
        /\ regions' = Faulty!Unmapped(o) /\ dirty' \in Mapping!Flushed(o)
    BY <1>10, SameCalls DEF Mapping!Move
  <2>2. Faulty!Fresh.data = None
    BY DEF Faulty!Fresh
  <2> HIDE DEF Faulty!Fresh
  <2>3. mapped'[o] = mapped[p] /\ mapped'[p] = Faulty!Fresh
        /\ \A q \in Objects \ {o, p} : mapped'[q] = mapped[q]
    BY <1>0, <2>1
  <2>4. \A q \in Objects \ {o} : mapped[q].data # None => regions'[mapped[q].data] = regions[mapped[q].data]
    BY <2>1, LeftAlone
  <2>5. OwnRegions'
    <3>1. ASSUME NEW q \in Objects, mapped'[q].data # None
          PROVE  regions'[mapped'[q].data] = [path |-> mapped'[q].path, length |-> mapped'[q].capacity,
                                              writable |-> mapped'[q].writable]
      <4>1. PICK r \in Objects \ {o} : mapped'[q] = mapped[r] /\ mapped[r].data # None
        BY <2>1, <2>2, <2>3, <3>1
      <4> QED
        BY <2>4, <4>1 DEF MappingInv, OwnRegions
    <3> QED
      BY <3>1 DEF OwnRegions
  <2>6. OneObject'
    <3> SUFFICES ASSUME NEW q \in Objects, NEW r \in Objects, mapped'[q].data # None,
                        mapped'[q].data = mapped'[r].data
                 PROVE  q = r
      BY DEF OneObject
    <3> DEFINE From(x) == IF x = o THEN p ELSE x
    <3>1. ASSUME NEW x \in {q, r}
          PROVE  x # p /\ mapped'[x] = mapped[From(x)]
      BY <2>1, <2>2, <2>3
    <3>2. From(q) = From(r)
      BY <3>1 DEF MappingInv, OneObject
    <3> QED
      BY <3>1, <3>2
  <2>7. Mapping!WritesAreHeld'
    <3>1. ASSUME NEW path \in dirty'
          PROVE  \E q \in Objects : mapped'[q].data # None /\ mapped'[q].path = path /\ mapped'[q].writable
      <4>1. PICK q \in Objects \ {o} : Holds(q, path)
        BY <2>1, <3>1, FlushedHeld
      <4>2. CASE q = p
        BY <2>3, <4>1, <4>2
      <4>3. CASE q # p
        BY <2>3, <4>1, <4>3
      <4> QED
        BY <4>2, <4>3
    <3> QED
      BY <3>1 DEF Mapping!WritesAreHeld, Mapping!Mapped
  <2> QED
    BY <1>0, <2>5, <2>6, <2>7 DEF MappingInv
<1>11. ASSUME NEW o \in Objects, Mapping!Write(o) \/ Mapping!Sync(o)
       PROVE  MappingInv'
  <2>1. UNCHANGED <<mapped, regions>>
    BY <1>11 DEF Mapping!Write, Mapping!Sync
  <2>2. \A path \in dirty' : \E q \in Objects : Holds(q, path)
    <3>1. CASE Mapping!Write(o)
      <4>1. Holds(o, regions[mapped[o].data].path) /\ dirty' = dirty \cup {regions[mapped[o].data].path}
        <5>1. /\ mapped[o].data # None /\ mapped[o].writable
              /\ dirty' = dirty \cup {regions[mapped[o].data].path}
          BY <3>1 DEF Mapping!Write
        <5>2. regions[mapped[o].data] = [path |-> mapped[o].path, length |-> mapped[o].capacity,
                                         writable |-> mapped[o].writable]
          BY <5>1 DEF MappingInv, OwnRegions
        <5> QED
          BY <5>1, <5>2
      <4> QED
        BY <4>1 DEF MappingInv, Mapping!WritesAreHeld, Mapping!Mapped
    <3>2. CASE Mapping!Sync(o)
      BY <3>2, FlushedHeld DEF Mapping!Sync
    <3> QED
      BY <1>11, <3>1, <3>2
  <2>3. Mapping!WritesAreHeld'
    BY <2>1, <2>2 DEF Mapping!WritesAreHeld, Mapping!Mapped
  <2> QED
    BY <1>0, <2>1, <2>3 DEF MappingInv, OwnRegions, OneObject
<1> QED
  BY <1>1, <1>5, <1>8, <1>9, <1>10, <1>11 DEF Mapping!Next

\* What the invariant says of the regions.
LEMMA MappingAnswers ==
  MappingInv => /\ Mapping!DescriptorsAreHeld /\ Mapping!RegionsAreHeld
                /\ Mapping!RegionsAreInFiles /\ Mapping!WritesAreHeld
<1> SUFFICES ASSUME MappingInv
             PROVE  /\ Mapping!DescriptorsAreHeld /\ Mapping!RegionsAreHeld
                    /\ Mapping!RegionsAreInFiles /\ Mapping!WritesAreHeld
  OBVIOUS
<1>1. FileInv /\ OwnRegions /\ OneObject /\ Mapping!WritesAreHeld
  BY DEF MappingInv
<1>2. Faulty!DescriptorsAreHeld /\ Faulty!RegionsAreInFiles
  BY <1>1, FilesAnswer
<1>3. Mapping!DescriptorsAreHeld /\ Mapping!RegionsAreInFiles
  BY <1>2 DEF Mapping!DescriptorsAreHeld, Faulty!DescriptorsAreHeld, Mapping!RegionsAreInFiles,
              Faulty!RegionsAreInFiles, Mapping!Taken, Faulty!Taken, Mapping!Mapped, Faulty!Mapped
<1>4. ASSUME NEW a \in Mapping!Taken(regions)
      PROVE  \E o \in Objects : {p \in Objects : mapped[p].data = a} = {o}
  <2>1. a \in Addresses /\ regions[a] # None /\ a # None
    BY <1>1, NoneAssumption, StoresAssumption DEF Mapping!Taken, FileInv, FileTypes
  <2>2. PICK o \in Objects : mapped[o].data = a
    BY <1>1, <2>1 DEF FileInv, RegionsPointedAt
  <2>3. \A p \in Objects : mapped[p].data = a => p = o
    BY <1>1, <2>1, <2>2 DEF OneObject
  <2> QED
    BY <2>2, <2>3
<1>5. ASSUME NEW o \in Mapping!Mapped
      PROVE  /\ regions[mapped[o].data] # None
             /\ regions[mapped[o].data] = [path |-> mapped[o].path, length |-> mapped[o].capacity,
                                           writable |-> mapped[o].writable]
  <2> DEFINE region == [path |-> mapped[o].path, length |-> mapped[o].capacity, writable |-> mapped[o].writable]
  <2>1. o \in Objects /\ mapped[o].data # None
    BY DEF Mapping!Mapped
  <2>2. regions[mapped[o].data] = region
    BY <1>1, <2>1 DEF OwnRegions
  <2>3. region \in [path : Paths, length : Nat, writable : BOOLEAN]
    BY <1>1, <2>1 DEF FileInv, FileTypes, OpenRight, Record
  <2> HIDE DEF region
  <2>4. regions[mapped[o].data] # None
    BY <2>2, <2>3, NoneAssumption
  <2> QED
    BY <2>2, <2>4 DEF region
<1> QED
  BY <1>1, <1>3, <1>4, <1>5 DEF Mapping!RegionsAreHeld

------------------------------------------------------------------------------
\* However they are called, whatever fails and however long they run, the stores keep
\* what StoresHold says: descriptors and regions are given back once, writes are never
\* out of reach, cached answers are within their time, documents keep the time they
\* were made, and filters are exact.
THEOREM StoresStay == StoresSpec => []StoresHold
<1>1. SqliteInv => Sqlite!TypeOK /\ Sqlite!AnswersAreFresh /\ Sqlite!CreationIsKept
  BY DEF SqliteInv
<1>2. /\ instance = "mapping" => MappingInv
      /\ instance = "faulty" => FileInv
      /\ instance = "sqlite" => SqliteInv
      /\ instance = "filters" => FilterInv
      => StoresHold
  BY <1>1, MappingAnswers, FilesAnswer, FiltersAnswer DEF StoresHold
<1>3. Mapping!Spec => []MappingInv
  BY MappingStarts, MappingSteps, PTL DEF Mapping!Spec
<1>4. Faulty!Spec => []FileInv
  BY FileStarts, FileSteps, PTL DEF Faulty!Spec
<1>5. Sqlite!Spec => []SqliteInv
  BY SqliteStarts, SqliteSteps, PTL DEF Sqlite!Spec
<1>6. Filters!Spec => []FilterInv
  BY FilterStarts, FilterSteps, PTL DEF Filters!Spec
<1>7. StoresSpec => [](instance = "mapping" => MappingInv)
  <2>1. ~(instance = "mapping") /\ [FALSE]_instance => ~(instance = "mapping")'
    OBVIOUS
  <2> QED
    BY <1>3, <2>1, PTL DEF StoresSpec
<1>8. StoresSpec => [](instance = "faulty" => FileInv)
  <2>1. ~(instance = "faulty") /\ [FALSE]_instance => ~(instance = "faulty")'
    OBVIOUS
  <2> QED
    BY <1>4, <2>1, PTL DEF StoresSpec
<1>9. StoresSpec => [](instance = "sqlite" => SqliteInv)
  <2>1. ~(instance = "sqlite") /\ [FALSE]_instance => ~(instance = "sqlite")'
    OBVIOUS
  <2> QED
    BY <1>5, <2>1, PTL DEF StoresSpec
<1>10. StoresSpec => [](instance = "filters" => FilterInv)
  <2>1. ~(instance = "filters") /\ [FALSE]_instance => ~(instance = "filters")'
    OBVIOUS
  <2> QED
    BY <1>6, <2>1, PTL DEF StoresSpec
<1> QED
  BY <1>2, <1>7, <1>8, <1>9, <1>10, PTL

------------------------------------------------------------------------------
(* HybridSearch: the engine.                                               *)

LEMMA SameCardinality == \A S : Hybrid!Cardinality(S) = Cardinality(S)
  BY DEF Hybrid!Cardinality, Cardinality

\* The documents that are there, those among them that hold a term, and all their
\* words.
Kept(docs) == {i \in TextIds : docs[i] # None}
Under(docs, t) == {i \in Kept(docs) : HowOften[docs[i]][t] > 0}
AllWords(docs) == UNION {{i} \X Hybrid!Tokens(docs[i]) : i \in Kept(docs)}

Docs == [TextIds -> Texts \cup {None}]
Engines == [documents : Docs, postings : [Terms -> Seq(TextIds \X Nat)], frequency : [Terms -> Int],
            total_documents : Int, total_terms : Int]

\* A list has each document of the term once, with how often the term occurs in it.
EachOnce(list) == \A m, n \in DOMAIN list : list[m][1] = list[n][1] => m = n
Lists(list, docs, t) ==
    /\ EachOnce(list)
    /\ {list[n] : n \in DOMAIN list} = {<<i, HowOften[docs[i]][t]>> : i \in Under(docs, t)}

Mirror(e) ==
    /\ e \in Engines
    /\ e.total_documents = Cardinality(Kept(e.documents))
    /\ e.total_terms = Cardinality(AllWords(e.documents))
    /\ \A t \in Terms : /\ e.frequency[t] = Cardinality(Under(e.documents, t))
                        /\ Lists(e.postings[t], e.documents, t)

EngineInv == /\ Mirror(engine)
             /\ engineFile = Hybrid!NoFile \/ engineFile \in Docs

\* Sets that share nothing.
LEMMA Apart ==
  ASSUME NEW A, NEW B, IsFiniteSet(A), IsFiniteSet(B), A \cap B = {}
  PROVE  Cardinality(A \cup B) = Cardinality(A) + Cardinality(B)
<1>1. Cardinality(A \cup B) = Cardinality(A) + Cardinality(B) - Cardinality(A \cap B)
  BY FS_Union
<1>2. Cardinality(A \cap B) = 0
  BY FS_EmptySet
<1>3. Cardinality(A) \in Nat /\ Cardinality(B) \in Nat
  BY FS_CardinalityType
<1> QED
  BY <1>1, <1>2, <1>3

LEMMA TokensFinite ==
  ASSUME NEW c \in Texts
  PROVE  IsFiniteSet(Hybrid!Tokens(c)) /\ Hybrid!Length(c) = Cardinality(Hybrid!Tokens(c))
<1> DEFINE X(t) == {t} \X (1 .. HowOften[c][t])
<1> DEFINE f == [t \in Terms |-> X(t)]
<1> DEFINE R == {X(t) : t \in Terms}
<1>1. \A t \in Terms : HowOften[c][t] \in Nat
  BY EngineAssumption
<1>2. ASSUME NEW t \in Terms PROVE IsFiniteSet(X(t))
  <2>1. IsFiniteSet({t}) /\ IsFiniteSet(1 .. HowOften[c][t])
    <3>1. HowOften[c][t] \in Int
      BY <1>1
    <3>2. \A n \in Int : IsFiniteSet(1 .. n)
      <4>1. 1 \in Int
        OBVIOUS
      <4> QED
        BY ONLY <4>1, FS_Interval
    <3>3. IsFiniteSet(1 .. HowOften[c][t])
      BY ONLY <3>1, <3>2, Zenon
    <3>4. IsFiniteSet({t})
      BY FS_Singleton
    <3> QED
      BY <3>3, <3>4
  <2> QED
    BY <2>1, FS_Product
<1>3. f \in Surjection(Terms, R)
  BY DEF Surjection
<1>4. IsFiniteSet(R)
  <2> HIDE DEF f, R
  <2> QED
    BY <1>3, FS_Surjection, EngineAssumption
<1>5. IsFiniteSet(UNION R)
  <2>1. \A T \in R : IsFiniteSet(T)
    BY <1>2
  <2> HIDE DEF R
  <2> QED
    BY <1>4, <2>1, FS_UNION
<1>6. Hybrid!Tokens(c) = UNION R
  BY DEF Hybrid!Tokens
<1> QED
  BY <1>5, <1>6, SameCardinality DEF Hybrid!Length

LEMMA KeptFinite ==
  ASSUME NEW docs
  PROVE  IsFiniteSet(Kept(docs)) /\ \A t : IsFiniteSet(Under(docs, t))
<1>1. Kept(docs) \in SUBSET TextIds
  BY DEF Kept
<1>2. \A t : Under(docs, t) \in SUBSET TextIds
  BY DEF Kept, Under
<1> QED
  BY <1>1, <1>2, FS_Subset, EngineAssumption

LEMMA WordsFinite ==
  ASSUME NEW docs \in Docs
  PROVE  IsFiniteSet(AllWords(docs))
<1> DEFINE X(i) == {i} \X Hybrid!Tokens(docs[i])
<1> DEFINE f == [i \in Kept(docs) |-> X(i)]
<1> DEFINE R == {X(i) : i \in Kept(docs)}
<1>1. ASSUME NEW i \in Kept(docs) PROVE IsFiniteSet(X(i))
  <2>1. docs[i] \in Texts
    BY DEF Kept, Docs
  <2>2. IsFiniteSet({i}) /\ IsFiniteSet(Hybrid!Tokens(docs[i]))
    BY <2>1, TokensFinite, FS_Singleton
  <2> QED
    BY <2>2, FS_Product
<1>2. f \in Surjection(Kept(docs), R)
  BY DEF Surjection
<1>3. IsFiniteSet(R)
  <2> HIDE DEF f, R
  <2> QED
    BY <1>2, KeptFinite, FS_Surjection
<1>4. \A T \in R : IsFiniteSet(T)
  BY <1>1
<1>5. AllWords(docs) = UNION R
  BY DEF AllWords
<1> HIDE DEF R
<1> QED
  BY <1>3, <1>4, <1>5, FS_UNION

\* The counts with one document more.
Grown(docs, more, i, c) ==
    /\ more \in Docs
    /\ Cardinality(Kept(docs)) \in Nat /\ Cardinality(AllWords(docs)) \in Nat
    /\ Cardinality(Kept(more)) = Cardinality(Kept(docs)) + 1
    /\ Hybrid!Length(c) \in Nat
    /\ Cardinality(AllWords(more)) = Cardinality(AllWords(docs)) + Hybrid!Length(c)
    /\ \A t \in Terms :
          /\ Under(more, t) = Under(docs, t) \cup (IF HowOften[c][t] > 0 THEN {i} ELSE {})
          /\ i \notin Under(docs, t)
          /\ Cardinality(Under(docs, t)) \in Nat
          /\ Cardinality(Under(more, t)) = Cardinality(Under(docs, t)) + IF HowOften[c][t] > 0 THEN 1 ELSE 0

LEMMA OneMoreText ==
  ASSUME NEW docs \in Docs, NEW i \in TextIds, docs[i] = None, NEW c \in Texts,
         NEW more, more = [docs EXCEPT ![i] = c]
  PROVE  Grown(docs, more, i, c)
<1>1. more \in Docs /\ c # None
  BY EngineAssumption DEF Docs
<1>2. Kept(more) = Kept(docs) \cup {i} /\ i \notin Kept(docs)
  BY <1>1 DEF Kept, Docs
<1>3. Cardinality(Kept(docs)) \in Nat /\ Cardinality(Kept(more)) = Cardinality(Kept(docs)) + 1
  BY <1>2, KeptFinite, FS_AddElement, FS_CardinalityType
<1>4. Cardinality(AllWords(docs)) \in Nat /\ IsFiniteSet(AllWords(docs))
  BY WordsFinite, FS_CardinalityType
<1>5. IsFiniteSet(Hybrid!Tokens(c)) /\ Hybrid!Length(c) = Cardinality(Hybrid!Tokens(c)) /\ Hybrid!Length(c) \in Nat
  BY TokensFinite, FS_CardinalityType
<1> DEFINE new == {i} \X Hybrid!Tokens(c)
<1>6. IsFiniteSet(new) /\ Cardinality(new) = Hybrid!Length(c)
  <2>1. IsFiniteSet({i}) /\ Cardinality({i}) = 1
    BY FS_Singleton
  <2>2. IsFiniteSet(new) /\ Cardinality(new) = 1 * Cardinality(Hybrid!Tokens(c))
    BY <1>5, <2>1, FS_Product
  <2> HIDE DEF new
  <2> QED
    BY <1>5, <2>2
<1>7. AllWords(more) = AllWords(docs) \cup new /\ AllWords(docs) \cap new = {}
  <2>1. \A j \in Kept(docs) : more[j] = docs[j] /\ j # i
    BY <1>2 DEF Kept, Docs
  <2>2. more[i] = c
    BY DEF Docs
  <2>3. AllWords(more) = AllWords(docs) \cup new
    <3> DEFINE X(j) == {j} \X Hybrid!Tokens(docs[j])
    <3> DEFINE Y(j) == {j} \X Hybrid!Tokens(more[j])
    <3>1. AllWords(docs) = UNION {X(j) : j \in Kept(docs)} /\ AllWords(more) = UNION {Y(j) : j \in Kept(more)}
      BY DEF AllWords
    <3>2. \A j \in Kept(docs) : Y(j) = X(j)
      BY <2>1
    <3>3. Y(i) = new
      BY <2>2
    <3> HIDE DEF X, Y, new
    <3>4. AllWords(more) \subseteq AllWords(docs) \cup new
      BY <1>2, <3>1, <3>2, <3>3
    <3>5. AllWords(docs) \subseteq AllWords(more)
      BY <1>2, <3>1, <3>2
    <3>6. new \subseteq AllWords(more)
      BY <1>2, <3>1, <3>3
    <3> QED
      BY <3>4, <3>5, <3>6
  <2>4. \A w \in AllWords(docs) : w \notin new
    <3> SUFFICES ASSUME NEW j \in Kept(docs), NEW w \in {j} \X Hybrid!Tokens(docs[j]), w \in new PROVE FALSE
      BY DEF AllWords
    <3>1. w[1] = j /\ w[1] = i
      OBVIOUS
    <3> QED
      BY <2>1, <3>1
  <2> QED
    BY <2>3, <2>4
<1>8. Cardinality(AllWords(more)) = Cardinality(AllWords(docs)) + Hybrid!Length(c)
  <2> HIDE DEF new
  <2>1. Cardinality(AllWords(docs) \cup new) = Cardinality(AllWords(docs)) + Cardinality(new)
    BY <1>4, <1>6, <1>7, Apart
  <2> QED
    BY <1>6, <1>7, <2>1
<1>9. ASSUME NEW t \in Terms
      PROVE  /\ Under(more, t) = Under(docs, t) \cup (IF HowOften[c][t] > 0 THEN {i} ELSE {})
             /\ i \notin Under(docs, t)
             /\ Cardinality(Under(docs, t)) \in Nat
             /\ Cardinality(Under(more, t)) = Cardinality(Under(docs, t)) + IF HowOften[c][t] > 0 THEN 1 ELSE 0
  <2>1. \A j \in Kept(docs) : more[j] = docs[j] /\ j # i
    BY <1>2 DEF Kept, Docs
  <2>2. more[i] = c
    BY DEF Docs
  <2>3. /\ Under(more, t) = Under(docs, t) \cup (IF HowOften[c][t] > 0 THEN {i} ELSE {})
        /\ i \notin Under(docs, t)
    BY <1>2, <2>1, <2>2 DEF Under
  <2>4. Cardinality(Under(docs, t)) \in Nat /\ IsFiniteSet(Under(docs, t))
    BY KeptFinite, FS_CardinalityType
  <2>5. CASE HowOften[c][t] > 0
    <3>1. Under(more, t) = Under(docs, t) \cup {i}
      BY <2>3, <2>5
    <3> QED
      BY <2>3, <2>4, <2>5, <3>1, FS_AddElement
  <2>6. CASE ~(HowOften[c][t] > 0)
    <3>1. Under(more, t) = Under(docs, t)
      BY <2>3, <2>6
    <3> QED
      BY <2>3, <2>4, <2>6, <3>1
  <2> QED
    BY <2>5, <2>6
<1> QED
  BY <1>1, <1>3, <1>4, <1>5, <1>8, <1>9 DEF Grown

Entries == TextIds \X Nat

\* A posting added to a list.
LEMMA ListMore ==
  ASSUME NEW list \in Seq(Entries), NEW docs \in Docs, NEW t \in Terms, Lists(list, docs, t),
         NEW i \in TextIds, docs[i] = None, NEW c \in Texts, NEW more, more = [docs EXCEPT ![i] = c],
         NEW longer, longer = IF HowOften[c][t] > 0 THEN Append(list, <<i, HowOften[c][t]>>) ELSE list
  PROVE  longer \in Seq(Entries) /\ Lists(longer, more, t)
<1> DEFINE new == <<i, HowOften[c][t]>>
<1>1. HowOften[c][t] \in Nat /\ new \in Entries /\ new[1] = i
  BY EngineAssumption DEF Entries
<1>2. /\ i \notin Under(docs, t)
      /\ Under(more, t) = Under(docs, t) \cup (IF HowOften[c][t] > 0 THEN {i} ELSE {})
  <2>1. c # None /\ more[i] = c /\ \A j \in TextIds : j # i => more[j] = docs[j]
    BY EngineAssumption DEF Docs
  <2>2. ASSUME NEW j
        PROVE  /\ j \in Under(more, t) => j \in Under(docs, t) \/ (j = i /\ HowOften[c][t] > 0)
               /\ j \in Under(docs, t) => j # i /\ j \in Under(more, t)
               /\ HowOften[c][t] > 0 => i \in Under(more, t)
    BY <2>1 DEF Under, Kept
  <2> QED
    BY <2>2
<1>3. /\ \A j \in Under(docs, t) : j # i /\ more[j] = docs[j]
      /\ more[i] = c
  BY <1>2 DEF Docs, Under, Kept
<1>4. CASE ~(HowOften[c][t] > 0)
  <2>1. longer = list /\ Under(more, t) = Under(docs, t)
    BY <1>2, <1>4
  <2>2. {<<j, HowOften[more[j]][t]>> : j \in Under(more, t)} = {<<j, HowOften[docs[j]][t]>> : j \in Under(docs, t)}
    BY <1>3, <2>1
  <2> QED
    BY <2>1, <2>2 DEF Lists
<1>5. CASE HowOften[c][t] > 0
  <2>1. longer = Append(list, new) /\ Under(more, t) = Under(docs, t) \cup {i}
    BY <1>2, <1>5
  <2> HIDE DEF new
  <2>2. /\ longer \in Seq(Entries) /\ DOMAIN longer = DOMAIN list \cup {Len(list) + 1}
        /\ DOMAIN list = 1 .. Len(list) /\ Len(list) \in Nat
        /\ \A n \in DOMAIN list : longer[n] = list[n]
        /\ longer[Len(list) + 1] = new
    BY ONLY <1>1, <2>1, list \in Seq(Entries)
  <2>3. \A n \in DOMAIN list : \E j \in Under(docs, t) : list[n] = <<j, HowOften[docs[j]][t]>>
    <3>1. \A n \in DOMAIN list : list[n] \in {<<j, HowOften[docs[j]][t]>> : j \in Under(docs, t)}
      BY DEF Lists
    <3> QED
      BY <3>1
  <2>4. \A n \in DOMAIN list : list[n][1] # i
    BY <1>3, <2>3
  <2>5. EachOnce(longer)
    BY <1>1, <2>2, <2>4 DEF EachOnce, Lists
  <2>6. {longer[n] : n \in DOMAIN longer} = {list[n] : n \in DOMAIN list} \cup {new}
    BY <2>2
  <2>7. {<<j, HowOften[more[j]][t]>> : j \in Under(more, t)}
        = {<<j, HowOften[docs[j]][t]>> : j \in Under(docs, t)} \cup {new}
    <3> DEFINE P(j) == <<j, HowOften[more[j]][t]>>
    <3> DEFINE Q(j) == <<j, HowOften[docs[j]][t]>>
    <3>1. new = P(i)
      BY <1>3 DEF new
    <3>2. \A j \in Under(docs, t) : P(j) = Q(j)
      BY <1>3
    <3>3. {P(j) : j \in Under(more, t)} = {Q(j) : j \in Under(docs, t)} \cup {new}
      <4> DEFINE R == {Q(j) : j \in Under(docs, t)}
      <4>1. ASSUME NEW j \in Under(more, t) PROVE P(j) \in R \cup {new}
        <5>1. CASE j = i
          BY <3>1, <5>1
        <5>2. CASE j # i
          <6>1. j \in Under(docs, t)
            BY <2>1, <5>2
          <6>2. Q(j) \in R
            BY <6>1
          <6> HIDE DEF P, Q, R
          <6> QED
            BY <3>2, <6>1, <6>2
        <5> QED
          BY <5>1, <5>2
      <4>2. ASSUME NEW j \in Under(docs, t) PROVE Q(j) \in {P(l) : l \in Under(more, t)}
        <5>1. P(j) = Q(j) /\ j \in Under(more, t)
          BY <2>1, <3>2
        <5> HIDE DEF P, Q
        <5> QED
          BY <5>1
      <4>3. new \in {P(l) : l \in Under(more, t)}
        <5> HIDE DEF P
        <5> QED
          BY <2>1, <3>1
      <4> HIDE DEF P, Q
      <4> QED
        BY <4>1, <4>2, <4>3
    <3> QED
      BY <3>3
  <2>8. Lists(longer, more, t)
    BY <2>5, <2>6, <2>7 DEF Lists
  <2> QED
    BY <2>2, <2>8
<1> QED
  BY <1>4, <1>5

\* What is left of a list without a document.
LEMMA Drops ==
  ASSUME NEW list \in Seq(Entries), EachOnce(list), NEW i \in TextIds
  PROVE  /\ Hybrid!Dropped(list, i) \in Seq(Entries)
         /\ EachOnce(Hybrid!Dropped(list, i))
         /\ {Hybrid!Dropped(list, i)[n] : n \in DOMAIN Hybrid!Dropped(list, i)}
            = {e \in {list[n] : n \in DOMAIN list} : e[1] # i}
<1> DEFINE N == Len(list)
<1> DEFINE S == Seq(Entries)
<1> DEFINE next(k, acc) == IF list[k][1] = i THEN acc ELSE Append(acc, list[k])
<1> DEFINE step == [k \in 1 .. N |-> [acc \in S |-> next(k, acc)]]
<1> DEFINE body(f) == [n \in 0 .. N |-> IF n = 0 THEN <<>>
                                        ELSE IF list[n][1] = i THEN f[n - 1] ELSE Append(f[n - 1], list[n])]
<1>1. N \in Nat /\ DOMAIN list = 1 .. N /\ \A k \in 1 .. N : list[k] \in Entries
  OBVIOUS
<1>2. step \in [1 .. N -> [S -> S]]
  <2>1. ASSUME NEW k \in 1 .. N, NEW acc \in S PROVE next(k, acc) \in S
    BY <1>1
  <2> HIDE DEF next, S, N
  <2> QED
    BY <2>1
<1>3. \E f : f = body(f)
  <2>1. <<>> \in S
    OBVIOUS
  <2>2. PICK f : Run(N, S, <<>>, step, f)
    <3> HIDE DEF S, N, step
    <3> QED
      BY <1>1, <1>2, <2>1, Recursion
  <2>3. f \in [0 .. N -> S] /\ f[0] = <<>> /\ \A k \in 1 .. N : f[k] = step[k][f[k - 1]]
    BY <2>2 DEF Run
  <2>4. ASSUME NEW k \in 1 .. N PROVE f[k] = next(k, f[k - 1])
    <3>1. k - 1 \in 0 .. N
      BY <1>1
    <3>2. f[k - 1] \in S
      BY <2>3, <3>1
    <3> QED
      BY <2>3, <3>2
  <2>5. f = body(f)
    <3> DEFINE Value(n) == IF n = 0 THEN <<>> ELSE next(n, f[n - 1])
    <3>1. f = [n \in 0 .. N |-> f[n]]
      BY <2>3
    <3>2. ASSUME NEW n \in 0 .. N PROVE f[n] = Value(n)
      <4>1. n = 0 \/ n \in 1 .. N
        BY <1>1
      <4> HIDE DEF next, N
      <4> QED
        BY <2>3, <2>4, <4>1
    <3>3. body(f) = [n \in 0 .. N |-> Value(n)]
      OBVIOUS
    <3> HIDE DEF Value, body, N
    <3> QED
      BY <3>1, <3>2, <3>3
  <2> QED
    BY <2>5
<1> DEFINE shorter == CHOOSE f : f = body(f)
<1>4. shorter = body(shorter)
  <2> HIDE DEF body
  <2> QED
    BY <1>3
<1>5. Hybrid!Dropped(list, i) = shorter[N]
  BY Zenon DEF Hybrid!Dropped
<1> HIDE DEF shorter
<1> DEFINE Good(n) == /\ shorter[n] \in S /\ EachOnce(shorter[n])
                      /\ {shorter[n][m] : m \in DOMAIN shorter[n]} = {list[m] : m \in {m \in 1 .. n : list[m][1] # i}}
<1> DEFINE G == {n \in 0 .. N : Good(n)}
<1>6. 0 \in G
  <2>1. shorter[0] = <<>>
    BY <1>1, <1>4
  <2>2. EachOnce(<<>>) /\ <<>> \in S /\ DOMAIN <<>> = {}
    BY DEF EachOnce
  <2>3. {shorter[0][m] : m \in DOMAIN shorter[0]} = {} /\ {m \in 1 .. 0 : list[m][1] # i} = {}
    BY <2>1, <2>2
  <2>4. Good(0)
    BY <2>1, <2>2, <2>3
  <2> HIDE DEF Good
  <2> QED
    BY <1>1, <2>4
<1>7. ASSUME NEW n \in 1 .. N, n - 1 \in G PROVE n \in G
  <2>1. Good(n - 1) /\ n \in 0 .. N
    <3> HIDE DEF Good
    <3> QED
      BY <1>1, <1>7
  <2>2. shorter[n] = next(n, shorter[n - 1])
    <3>1. \A m \in 0 .. N : shorter[m] = body(shorter)[m]
      <4> HIDE DEF body
      <4> QED
        BY <1>4
    <3>2. n # 0
      BY <1>1
    <3> QED
      BY <2>1, <3>1, <3>2
  <2> DEFINE was == shorter[n - 1]
  <2> DEFINE Old == {list[m] : m \in {m \in 1 .. n - 1 : list[m][1] # i}}
  <2> DEFINE New == {list[m] : m \in {m \in 1 .. n : list[m][1] # i}}
  <2>3. was \in S /\ EachOnce(was) /\ {was[m] : m \in DOMAIN was} = Old
    BY <2>1
  <2>4. \A m \in 1 .. n : m = n \/ m \in 1 .. n - 1
    BY <1>1
  <2>5. CASE list[n][1] = i
    <3>1. New = Old
      BY <1>1, <2>4, <2>5
    <3>2. shorter[n] = was
      BY <2>2, <2>5
    <3> HIDE DEF was, New, Old, S
    <3>3. shorter[n] \in S /\ EachOnce(shorter[n]) /\ {shorter[n][m] : m \in DOMAIN shorter[n]} = New
      BY <2>3, <3>1, <3>2
    <3> QED
      BY <2>1, <3>3 DEF New
  <2>6. CASE list[n][1] # i
    <3>1. New = Old \cup {list[n]}
      BY <1>1, <2>4, <2>6
    <3>2. shorter[n] = Append(was, list[n]) /\ list[n] \in Entries
      BY <1>1, <2>2, <2>6
    <3> DEFINE longer == Append(was, list[n])
    <3> HIDE DEF was
    <3>3. /\ longer \in S /\ DOMAIN longer = DOMAIN was \cup {Len(was) + 1}
          /\ DOMAIN was = 1 .. Len(was) /\ Len(was) \in Nat
          /\ \A m \in DOMAIN was : longer[m] = was[m]
          /\ longer[Len(was) + 1] = list[n]
      BY <2>3, <3>2
    <3>4. \A m \in DOMAIN was : was[m][1] # list[n][1]
      <4> SUFFICES ASSUME NEW m \in DOMAIN was PROVE was[m][1] # list[n][1]
        OBVIOUS
      <4>1. was[m] \in Old
        BY <2>3
      <4>2. PICK k \in 1 .. n - 1 : was[m] = list[k]
        BY <4>1
      <4>3. k # n /\ k \in DOMAIN list /\ n \in DOMAIN list
        BY <1>1
      <4> QED
        BY <4>2, <4>3 DEF EachOnce
    <3> HIDE DEF longer, New, Old, S
    <3>5. EachOnce(longer)
      BY <2>3, <3>3, <3>4 DEF EachOnce
    <3>6. {longer[m] : m \in DOMAIN longer} = New
      BY <2>3, <3>1, <3>3
    <3>7. shorter[n] \in S /\ EachOnce(shorter[n]) /\ {shorter[n][m] : m \in DOMAIN shorter[n]} = New
      BY <3>2, <3>3, <3>5, <3>6 DEF longer
    <3> QED
      BY <2>1, <3>7 DEF New
  <2> QED
    BY <2>5, <2>6
<1> HIDE DEF G
<1>8. \A n \in 0 .. N : n \in G
  BY ONLY <1>1, <1>6, <1>7, Interval
<1>9. Good(N)
  <2>1. N \in G
    BY <1>1, <1>8
  <2> QED
    BY <2>1 DEF G
<1>10. {list[m] : m \in {m \in 1 .. N : list[m][1] # i}} = {e \in {list[n] : n \in DOMAIN list} : e[1] # i}
  BY <1>1
<1> QED
  BY <1>5, <1>9, <1>10

\* A list without a document is that of the documents without it.
LEMMA ListLess ==
  ASSUME NEW list \in Seq(Entries), NEW docs \in Docs, NEW t \in Terms, Lists(list, docs, t),
         NEW i \in TextIds, docs[i] # None, NEW less, less = [docs EXCEPT ![i] = None]
  PROVE  /\ Hybrid!Dropped(list, i) \in Seq(Entries) /\ Lists(Hybrid!Dropped(list, i), less, t)
         /\ HowOften[docs[i]][t] <= 0 => Lists(list, less, t)
         /\ Under(less, t) = {} => Lists(<<>>, less, t)
<1> DEFINE left == Hybrid!Dropped(list, i)
<1>1. EachOnce(list) /\ {list[n] : n \in DOMAIN list} = {<<j, HowOften[docs[j]][t]>> : j \in Under(docs, t)}
  BY DEF Lists
<1>2. /\ left \in Seq(Entries) /\ EachOnce(left)
      /\ {left[n] : n \in DOMAIN left} = {e \in {list[n] : n \in DOMAIN list} : e[1] # i}
  BY <1>1, Drops
<1>3. Under(less, t) = Under(docs, t) \ {i} /\ \A j \in Under(less, t) : less[j] = docs[j]
  BY DEF Under, Kept, Docs
<1>4. {<<j, HowOften[less[j]][t]>> : j \in Under(less, t)}
      = {e \in {<<j, HowOften[docs[j]][t]>> : j \in Under(docs, t)} : e[1] # i}
  <2> DEFINE P(j) == <<j, HowOften[less[j]][t]>>
  <2> DEFINE Q(j) == <<j, HowOften[docs[j]][t]>>
  <2>1. \A j \in Under(less, t) : P(j) = Q(j)
    BY <1>3
  <2>2. \A j : Q(j)[1] = j
    OBVIOUS
  <2>3. {P(j) : j \in Under(less, t)} = {e \in {Q(j) : j \in Under(docs, t)} : e[1] # i}
    <3>1. ASSUME NEW j \in Under(less, t)
          PROVE  P(j) \in {Q(l) : l \in Under(docs, t)} /\ P(j)[1] # i
      <4>1. j \in Under(docs, t) /\ j # i /\ P(j) = Q(j)
        BY <1>3, <2>1
      <4>2. P(j)[1] # i
        BY <4>1, <2>2
      <4> HIDE DEF P, Q
      <4> QED
        BY <4>1, <4>2
    <3>2. ASSUME NEW j \in Under(docs, t), Q(j)[1] # i PROVE Q(j) \in {P(l) : l \in Under(less, t)}
      <4>1. j \in Under(less, t) /\ P(j) = Q(j)
        BY <1>3, <2>1, <2>2, <3>2
      <4> HIDE DEF P, Q
      <4> QED
        BY <4>1
    <3> HIDE DEF P, Q
    <3> QED
      BY <3>1, <3>2
  <2> QED
    BY <2>3
<1> HIDE DEF left
<1>5. Lists(left, less, t)
  BY <1>1, <1>2, <1>4 DEF Lists
<1>6. ASSUME HowOften[docs[i]][t] <= 0 PROVE Lists(list, less, t)
  <2>1. i \notin Under(docs, t)
    <3>1. HowOften[docs[i]][t] \in Nat
      BY EngineAssumption DEF Docs
    <3> QED
      BY <1>6, <3>1 DEF Under
  <2>2. Under(less, t) = Under(docs, t)
    BY <1>3, <2>1
  <2>3. {<<j, HowOften[less[j]][t]>> : j \in Under(less, t)} = {<<j, HowOften[docs[j]][t]>> : j \in Under(docs, t)}
    BY <1>3, <2>2
  <2> QED
    BY <1>1, <2>3 DEF Lists
<1>7. ASSUME Under(less, t) = {} PROVE Lists(<<>>, less, t)
  <2>1. DOMAIN <<>> = {}
    OBVIOUS
  <2> QED
    BY <1>7, <2>1 DEF Lists, EachOnce
<1> QED
  BY <1>2, <1>5, <1>6, <1>7 DEF left

\* add_document, of whatever engine.
LEMMA WithIs ==
  ASSUME NEW e \in Engines, NEW i \in TextIds, NEW c \in Texts
  PROVE  /\ Hybrid!With(e, i, c) \in Engines
         /\ Hybrid!With(e, i, c).documents = [e.documents EXCEPT ![i] = c]
         /\ Hybrid!With(e, i, c).total_documents = e.total_documents + 1
         /\ Hybrid!With(e, i, c).total_terms = e.total_terms + Hybrid!Length(c)
         /\ \A t \in Terms :
               /\ Hybrid!With(e, i, c).frequency[t] = e.frequency[t] + IF HowOften[c][t] > 0 THEN 1 ELSE 0
               /\ Hybrid!With(e, i, c).postings[t] = IF HowOften[c][t] > 0 THEN Append(e.postings[t], <<i, HowOften[c][t]>>)
                                                     ELSE e.postings[t]
<1> DEFINE w == Hybrid!With(e, i, c)
<1> DEFINE ps == [t \in Terms |-> IF t \in Hybrid!TermsOf(c) THEN Append(e.postings[t], <<i, HowOften[c][t]>>)
                                  ELSE e.postings[t]]
<1> DEFINE fs == [t \in Terms |-> e.frequency[t] + IF t \in Hybrid!TermsOf(c) THEN 1 ELSE 0]
<1>1. w = [documents |-> [e.documents EXCEPT ![i] = c], postings |-> ps, frequency |-> fs,
           total_documents |-> e.total_documents + 1, total_terms |-> e.total_terms + Hybrid!Length(c)]
  BY DEF Hybrid!With
<1>2. \A t \in Terms : t \in Hybrid!TermsOf(c) <=> HowOften[c][t] > 0
  BY DEF Hybrid!TermsOf
<1>3. Hybrid!Length(c) \in Nat
  BY TokensFinite, FS_CardinalityType
<1>4. [e.documents EXCEPT ![i] = c] \in Docs
  BY DEF Engines, Docs
<1>5. ps \in [Terms -> Seq(TextIds \X Nat)]
  <2> SUFFICES ASSUME NEW t \in Terms
               PROVE  (IF t \in Hybrid!TermsOf(c) THEN Append(e.postings[t], <<i, HowOften[c][t]>>)
                       ELSE e.postings[t]) \in Seq(TextIds \X Nat)
    OBVIOUS
  <2>1. e.postings[t] \in Seq(TextIds \X Nat) /\ <<i, HowOften[c][t]>> \in TextIds \X Nat
    BY EngineAssumption DEF Engines
  <2> QED
    BY <2>1
<1>6. fs \in [Terms -> Int] /\ e.total_documents + 1 \in Int /\ e.total_terms + Hybrid!Length(c) \in Int
  BY <1>3 DEF Engines
<1>7. \A t \in Terms :
         /\ fs[t] = e.frequency[t] + IF HowOften[c][t] > 0 THEN 1 ELSE 0
         /\ ps[t] = IF HowOften[c][t] > 0 THEN Append(e.postings[t], <<i, HowOften[c][t]>>) ELSE e.postings[t]
  BY <1>2
<1> HIDE DEF w, ps, fs
<1>8. w \in Engines
  BY <1>1, <1>4, <1>5, <1>6 DEF Engines
<1>9. w.documents = [e.documents EXCEPT ![i] = c] /\ w.postings = ps /\ w.frequency = fs
      /\ w.total_documents = e.total_documents + 1 /\ w.total_terms = e.total_terms + Hybrid!Length(c)
  BY <1>1
<1> QED
  BY <1>7, <1>8, <1>9 DEF w

\* add_document of an id that is free.
LEMMA WithMirrors ==
  ASSUME NEW e, Mirror(e), NEW i \in TextIds, e.documents[i] = None, NEW c \in Texts
  PROVE  Mirror(Hybrid!With(e, i, c))
<1> DEFINE docs == e.documents
<1> DEFINE more == [docs EXCEPT ![i] = c]
<1> DEFINE w == Hybrid!With(e, i, c)
<1>1. e \in Engines /\ docs \in Docs
  BY DEF Mirror, Engines
<1>2. /\ w \in Engines /\ w.documents = more
      /\ w.total_documents = e.total_documents + 1 /\ w.total_terms = e.total_terms + Hybrid!Length(c)
      /\ \A t \in Terms :
            /\ w.frequency[t] = e.frequency[t] + IF HowOften[c][t] > 0 THEN 1 ELSE 0
            /\ w.postings[t] = IF HowOften[c][t] > 0 THEN Append(e.postings[t], <<i, HowOften[c][t]>>) ELSE e.postings[t]
  BY <1>1, WithIs
<1> HIDE DEF w
<1>3. /\ Cardinality(Kept(more)) = Cardinality(Kept(docs)) + 1
      /\ Cardinality(AllWords(more)) = Cardinality(AllWords(docs)) + Hybrid!Length(c)
      /\ \A t \in Terms :
            Cardinality(Under(more, t)) = Cardinality(Under(docs, t)) + IF HowOften[c][t] > 0 THEN 1 ELSE 0
  <2>1. Grown(docs, more, i, c)
    BY <1>1, OneMoreText
  <2> QED
    BY <2>1 DEF Grown
<1>4. w.total_documents = Cardinality(Kept(more)) /\ w.total_terms = Cardinality(AllWords(more))
  BY <1>2, <1>3 DEF Mirror
<1>5. ASSUME NEW t \in Terms
      PROVE  w.frequency[t] = Cardinality(Under(more, t)) /\ Lists(w.postings[t], more, t)
  <2>1. w.frequency[t] = Cardinality(Under(more, t))
    BY <1>2, <1>3 DEF Mirror
  <2>2. e.postings[t] \in Seq(Entries) /\ Lists(e.postings[t], docs, t)
    BY <1>1 DEF Mirror, Engines, Entries
  <2> DEFINE list == e.postings[t]
  <2> DEFINE longer == w.postings[t]
  <2>3. longer = IF HowOften[c][t] > 0 THEN Append(list, <<i, HowOften[c][t]>>) ELSE list
    BY <1>2
  <2> HIDE DEF list, longer, docs
  <2>4. docs[i] = None
    BY DEF docs
  <2>5. Lists(longer, more, t)
    BY <1>1, <2>2, <2>3, <2>4, ListMore DEF list
  <2> QED
    BY <2>1, <2>5 DEF longer
<1>6. Mirror(w)
  <2>1. w.documents = more
    BY <1>2
  <2> HIDE DEF more
  <2> QED
    BY <1>2, <1>4, <1>5, <2>1 DEF Mirror
<1> QED
  BY <1>6 DEF w

\* remove_document.
LEMMA WithoutMirrors ==
  ASSUME NEW e, Mirror(e), NEW i \in TextIds, e.documents[i] # None
  PROVE  /\ Mirror(Hybrid!Without(e, i))
         /\ Hybrid!Without(e, i).documents = [e.documents EXCEPT ![i] = None]
<1> DEFINE docs == e.documents
<1> DEFINE less == [docs EXCEPT ![i] = None]
<1> DEFINE c == docs[i]
<1> DEFINE w == Hybrid!Without(e, i)
<1> DEFINE ps == [t \in Terms |-> IF t \notin Hybrid!TermsOf(c) THEN e.postings[t]
                                  ELSE IF e.frequency[t] - 1 = 0 THEN <<>> ELSE Hybrid!Dropped(e.postings[t], i)]
<1> DEFINE fs == [t \in Terms |-> IF t \in Hybrid!TermsOf(c) THEN e.frequency[t] - 1 ELSE e.frequency[t]]
<1>1. e \in Engines /\ docs \in Docs /\ c \in Texts /\ less \in Docs /\ less[i] = None
  BY DEF Mirror, Engines, Docs
<1>2. w = [documents |-> less, postings |-> ps, frequency |-> fs,
           total_documents |-> e.total_documents - 1, total_terms |-> e.total_terms - Hybrid!Length(c)]
  BY DEF Hybrid!Without
<1>3. docs = [less EXCEPT ![i] = c]
  BY <1>1 DEF Docs
<1> HIDE DEF less, c, w
<1>4. /\ Cardinality(Kept(less)) \in Nat /\ Cardinality(AllWords(less)) \in Nat /\ Hybrid!Length(c) \in Nat
      /\ Cardinality(Kept(docs)) = Cardinality(Kept(less)) + 1
      /\ Cardinality(AllWords(docs)) = Cardinality(AllWords(less)) + Hybrid!Length(c)
      /\ \A t \in Terms :
            /\ Cardinality(Under(less, t)) \in Nat
            /\ Cardinality(Under(docs, t)) = Cardinality(Under(less, t)) + IF HowOften[c][t] > 0 THEN 1 ELSE 0
  <2> HIDE DEF docs
  <2>1. less \in Docs /\ less[i] = None /\ c \in Texts /\ docs = [less EXCEPT ![i] = c]
    BY <1>1, <1>3
  <2>2. Grown(less, docs, i, c)
    BY <2>1, OneMoreText
  <2> QED
    BY <2>2 DEF Grown
<1>5. \A t \in Terms : (t \in Hybrid!TermsOf(c) <=> HowOften[c][t] > 0) /\ HowOften[c][t] \in Nat
  BY <1>1, EngineAssumption DEF Hybrid!TermsOf
<1>6. ASSUME NEW t \in Terms
      PROVE  fs[t] = Cardinality(Under(less, t)) /\ ps[t] \in Seq(Entries) /\ Lists(ps[t], less, t)
  <2> DEFINE list == e.postings[t]
  <2>1. /\ list \in Seq(Entries) /\ Lists(list, docs, t) /\ e.frequency[t] = Cardinality(Under(docs, t))
        /\ docs[i] # None
    BY <1>1 DEF Mirror, Engines, Entries
  <2>2. fs[t] = Cardinality(Under(less, t))
    BY <1>4, <1>5, <2>1, SMTT(60)
  <2> DEFINE left == Hybrid!Dropped(list, i)
  <2>3. /\ left \in Seq(Entries) /\ Lists(left, less, t)
        /\ HowOften[c][t] <= 0 => Lists(list, less, t)
        /\ Under(less, t) = {} => Lists(<<>>, less, t)
    <3> HIDE DEF list, docs
    <3> QED
      BY <1>1, <2>1, ListLess DEF less, c
  <2>4. ps[t] = IF ~(HowOften[c][t] > 0) THEN list ELSE IF fs[t] = 0 THEN <<>> ELSE left
    BY <1>5
  <2>5. Cardinality(Under(less, t)) = 0 => Under(less, t) = {}
    BY KeptFinite, FS_EmptySet
  <2>6. <<>> \in Seq(Entries)
    OBVIOUS
  <2> HIDE DEF ps, fs, list, left, docs
  <2> QED
    BY <1>5, <2>1, <2>2, <2>3, <2>4, <2>5, <2>6
<1>7. ps \in [Terms -> Seq(TextIds \X Nat)] /\ fs \in [Terms -> Int]
  <2>1. \A t \in Terms : ps[t] \in Seq(TextIds \X Nat) /\ fs[t] \in Int
    <3> HIDE DEF ps, fs
    <3> QED
      BY <1>4, <1>6 DEF Entries
  <2>2. ps = [t \in Terms |-> ps[t]] /\ fs = [t \in Terms |-> fs[t]]
    OBVIOUS
  <2> HIDE DEF ps, fs
  <2> QED
    BY <2>1, <2>2
<1> HIDE DEF ps, fs
<1>8. /\ e.total_documents - 1 \in Int /\ e.total_terms - Hybrid!Length(c) \in Int
      /\ e.total_documents - 1 = Cardinality(Kept(less))
      /\ e.total_terms - Hybrid!Length(c) = Cardinality(AllWords(less))
  BY <1>1, <1>4 DEF Mirror, Engines
<1>9. w.documents = less /\ w.postings = ps /\ w.frequency = fs
      /\ w.total_documents = e.total_documents - 1 /\ w.total_terms = e.total_terms - Hybrid!Length(c)
  BY <1>2
<1>10. w \in Engines
  BY <1>1, <1>2, <1>7, <1>8 DEF Engines
<1>11. Mirror(w)
  BY <1>6, <1>8, <1>9, <1>10 DEF Mirror
<1> QED
  BY <1>9, <1>11 DEF w, less

LEMMA FreshMirrors == /\ Mirror(Hybrid!Fresh)
                      /\ Hybrid!Fresh.documents = [i \in TextIds |-> None]
<1> DEFINE docs == [i \in TextIds |-> None]
<1> DEFINE ps == [t \in Terms |-> <<>>]
<1> DEFINE fs == [t \in Terms |-> 0]
<1>1. Hybrid!Fresh = [documents |-> docs, postings |-> ps, frequency |-> fs, total_documents |-> 0, total_terms |-> 0]
  BY DEF Hybrid!Fresh
<1>2. docs \in Docs
  BY DEF Docs
<1>3. ps \in [Terms -> Seq(TextIds \X Nat)] /\ fs \in [Terms -> Int]
  OBVIOUS
<1>4. Kept(docs) = {} /\ \A t : Under(docs, t) = {}
  BY DEF Kept, Under
<1>5. AllWords(docs) = {} /\ Cardinality({}) = 0
  BY <1>4, FS_EmptySet DEF AllWords
<1>6. ASSUME NEW t \in Terms
      PROVE  ps[t] = <<>> /\ fs[t] = 0 /\ Lists(<<>>, docs, t)
  <2>1. DOMAIN <<>> = {}
    OBVIOUS
  <2>2. EachOnce(<<>>)
    BY <2>1 DEF EachOnce
  <2>3. {<<>>[n] : n \in DOMAIN <<>>} = {} /\ {<<i, HowOften[docs[i]][t]>> : i \in Under(docs, t)} = {}
    BY <1>4, <2>1
  <2> QED
    BY <2>2, <2>3 DEF Lists
<1> HIDE DEF docs, ps, fs
<1>7. Hybrid!Fresh \in Engines
  BY <1>1, <1>2, <1>3 DEF Engines
<1>8. Mirror(Hybrid!Fresh)
  BY <1>1, <1>4, <1>5, <1>6, <1>7 DEF Mirror
<1> QED
  BY <1>1, <1>8 DEF docs

\* What is read of a file's documents.
Text(docs, i) == Reread[docs[i]]
Reads(docs, T) == [i \in TextIds |-> IF i \in T THEN Text(docs, i) ELSE None]

\* load adds the documents of a file one by one.
LEMMA RebuiltMirrors ==
  ASSUME engineFile \in Docs
  PROVE  /\ Mirror(Hybrid!Rebuilt)
         /\ Hybrid!Rebuilt.documents = Reads(engineFile, Kept(engineFile))
<1> DEFINE S == Hybrid!InFile
<1> DEFINE added(e, i) == Hybrid!With(e, i, Reread[engineFile[i]])
<1> DEFINE step == [i \in S |-> [e \in Engines |-> added(e, i)]]
<1> DEFINE body(f) == [T \in SUBSET S |->
                         IF T = {} THEN Hybrid!Fresh
                         ELSE LET i == CHOOSE i \in T : TRUE
                              IN  Hybrid!With(f[T \ {i}], i, Reread[engineFile[i]])]
<1>1. S = Kept(engineFile) /\ S \subseteq TextIds /\ IsFiniteSet(S)
  <2>1. S = Kept(engineFile) /\ S \subseteq TextIds
    BY DEF Hybrid!InFile, Kept, Docs
  <2> QED
    BY <2>1, KeptFinite
<1>2. \A i \in S : Reread[engineFile[i]] \in Texts
  BY EngineAssumption DEF Hybrid!InFile, Docs
<1>3. step \in [S -> [Engines -> Engines]]
  <2>1. ASSUME NEW i \in S, NEW e \in Engines PROVE added(e, i) \in Engines
    BY <1>1, <1>2, WithIs
  <2> HIDE DEF added, S
  <2> QED
    BY <2>1
<1>4. Hybrid!Fresh \in Engines
  BY FreshMirrors DEF Mirror
<1>5. \E f : f = body(f)
  <2>1. PICK f : SetRun(S, Engines, Hybrid!Fresh, step, f)
    <3> HIDE DEF S, step
    <3> QED
      BY <1>1, <1>3, <1>4, SubsetRecursion
  <2>2. /\ f \in [SUBSET S -> Engines] /\ f[{}] = Hybrid!Fresh
        /\ \A T \in SUBSET S : T # {} => f[T] = step[AnyOf(T)][f[T \ {AnyOf(T)}]]
    BY <2>1 DEF SetRun
  <2> DEFINE Value(T) == IF T = {} THEN Hybrid!Fresh
                         ELSE Hybrid!With(f[T \ {AnyOf(T)}], AnyOf(T), Reread[engineFile[AnyOf(T)]])
  <2>3. ASSUME NEW T \in SUBSET S PROVE f[T] = Value(T)
    <3>1. CASE T = {}
      BY <2>2, <3>1
    <3>2. CASE T # {}
      <4>1. AnyOf(T) \in T
        BY <3>2 DEF AnyOf
      <4>2. AnyOf(T) \in S /\ T \ {AnyOf(T)} \in SUBSET S
        BY <4>1
      <4>3. f[T \ {AnyOf(T)}] \in Engines
        BY <2>2, <4>2
      <4>4. step[AnyOf(T)][f[T \ {AnyOf(T)}]] = added(f[T \ {AnyOf(T)}], AnyOf(T))
        <5> HIDE DEF S, added
        <5> QED
          BY <4>2, <4>3
      <4> HIDE DEF step
      <4> QED
        BY <2>2, <3>2, <4>4
    <3> QED
      BY <3>1, <3>2
  <2>4. body(f) = [T \in SUBSET S |-> Value(T)]
    BY DEF AnyOf
  <2>5. f = [T \in SUBSET S |-> f[T]]
    BY <2>2
  <2>6. f = body(f)
    <3> HIDE DEF Value, body, S
    <3> QED
      BY <2>3, <2>4, <2>5
  <2> HIDE DEF body
  <2> QED
    BY <2>6
<1> DEFINE read == CHOOSE f : f = body(f)
<1>6. read = body(read)
  <2> HIDE DEF body
  <2> QED
    BY <1>5
<1>7. Hybrid!Rebuilt = read[S]
  BY Zenon DEF Hybrid!Rebuilt
<1> HIDE DEF read
<1> DEFINE Good(T) == Mirror(read[T]) /\ read[T].documents = Reads(engineFile, T)
<1> DEFINE G == {T \in SUBSET S : Good(T)}
<1>8. ASSUME NEW T \in SUBSET S, \A U \in SUBSET T : U # T => U \in G
      PROVE  T \in G
  <2>1. \A U \in SUBSET S : read[U] = body(read)[U]
    <3> HIDE DEF body
    <3> QED
      BY <1>6
  <2>2. CASE T = {}
    <3>1. read[T] = Hybrid!Fresh
      BY <2>1, <2>2
    <3>2. Reads(engineFile, {}) = [i \in TextIds |-> None]
      BY DEF Reads
    <3> QED
      BY <2>2, <3>1, <3>2, FreshMirrors
  <2>3. CASE T # {}
    <3> DEFINE i == CHOOSE i \in T : TRUE
    <3> DEFINE U == T \ {i}
    <3> DEFINE c == Reread[engineFile[i]]
    <3>1. i \in T
      BY <2>3
    <3>2. read[T] = Hybrid!With(read[U], i, c)
      <4>1. body(read)[T] = Hybrid!With(read[U], i, c)
        BY <2>3
      <4> HIDE DEF body, i
      <4> QED
        BY <2>1, <4>1
    <3> HIDE DEF i
    <3>3. i \in TextIds /\ c \in Texts /\ c = Text(engineFile, i)
      BY <1>1, <1>2, <3>1 DEF Text
    <3>4. Good(U)
      <4>1. U \in SUBSET T /\ U # T
        BY <3>1
      <4>2. U \in G
        BY <1>8, <4>1
      <4> HIDE DEF Good
      <4> QED
        BY <4>2
    <3> HIDE DEF U, c
    <3>5. Mirror(read[U]) /\ read[U].documents = Reads(engineFile, U) /\ read[U] \in Engines
      BY <3>4 DEF Mirror
    <3>6. Reads(engineFile, U)[i] = None
      BY <3>3 DEF U, Reads
    <3>7. Mirror(read[T])
      <4>1. read[U].documents[i] = None
        BY <3>5, <3>6
      <4> QED
        BY <3>2, <3>3, <3>5, <4>1, WithMirrors
    <3>8. read[T].documents = [Reads(engineFile, U) EXCEPT ![i] = c]
      <4>1. Hybrid!With(read[U], i, c).documents = [read[U].documents EXCEPT ![i] = c]
        BY <3>3, <3>5, WithIs
      <4> QED
        BY <3>2, <3>5, <4>1
    <3>9. [Reads(engineFile, U) EXCEPT ![i] = c] = Reads(engineFile, T)
      <4>1. \A j \in TextIds : IF j = i THEN j \in T ELSE (j \in U <=> j \in T)
        BY <3>1 DEF U
      <4> QED
        BY <3>3, <4>1 DEF Reads
    <3> QED
      BY <3>7, <3>8, <3>9
  <2> QED
    BY <2>2, <2>3
<1> HIDE DEF G
<1>9. \A T \in SUBSET S : T \in G
  <2> HIDE DEF S
  <2> QED
    BY ONLY <1>1, <1>8, Subsets
<1>10. Good(S)
  <2>1. S \in G
    BY <1>9
  <2> HIDE DEF Good
  <2> QED
    BY <2>1 DEF G
<1> QED
  BY <1>1, <1>7, <1>10

LEMMA EngineStarts == Hybrid!EngineInit => EngineInv
  BY FreshMirrors DEF Hybrid!EngineInit, EngineInv

\* update_document of an id that is not there.
LEMMA Cleared ==
  ASSUME NEW e, Mirror(e), NEW i \in TextIds,
         NEW cleared, cleared = IF e.documents[i] = None THEN e ELSE Hybrid!Without(e, i)
  PROVE  Mirror(cleared) /\ cleared.documents[i] = None
<1>1. CASE e.documents[i] = None
  BY <1>1
<1>2. CASE e.documents[i] # None
  <2>1. Mirror(cleared) /\ cleared.documents = [e.documents EXCEPT ![i] = None]
    BY <1>2, WithoutMirrors
  <2>2. i \in DOMAIN e.documents
    BY DEF Mirror, Engines, Docs
  <2> QED
    BY <2>1, <2>2
<1> QED
  BY <1>1, <1>2

LEMMA EngineSteps == EngineInv /\ [Hybrid!EngineNext]_(Hybrid!engineVars) => EngineInv'
<1> SUFFICES ASSUME EngineInv, [Hybrid!EngineNext]_(Hybrid!engineVars) PROVE EngineInv'
  OBVIOUS
<1>1. Mirror(engine) /\ engine \in Engines /\ engine.documents \in Docs
  BY DEF EngineInv, Mirror, Engines
<1>2. Mirror(engine)' = Mirror(engine')
  BY DEF Mirror, Engines, Docs, Kept, AllWords, Under, Lists, EachOnce, Hybrid!Tokens
<1>3. CASE UNCHANGED Hybrid!engineVars
  <2>1. engine' = engine /\ engineFile' = engineFile
    BY <1>3 DEF Hybrid!engineVars
  <2>2. Mirror(engine')
    BY <1>1, <2>1
  <2>3. engineFile' = Hybrid!NoFile \/ engineFile' \in Docs
    BY <2>1 DEF EngineInv
  <2> QED
    BY <1>2, <2>2, <2>3 DEF EngineInv, Docs, Hybrid!NoFile
<1>4. ASSUME NEW i \in TextIds, NEW c \in Texts, Hybrid!AddDocument(i, c) PROVE EngineInv'
  <2>1. engine.documents[i] = None /\ engine' = Hybrid!With(engine, i, c) /\ engineFile' = engineFile
    BY <1>4 DEF Hybrid!AddDocument, Hybrid!Addable
  <2>2. Mirror(engine')
    BY <1>1, <2>1, WithMirrors
  <2> QED
    BY <1>2, <2>1, <2>2 DEF EngineInv
<1>5. ASSUME NEW i \in TextIds, NEW c \in Texts, Hybrid!UpdateDocument(i, c) PROVE EngineInv'
  <2> DEFINE cleared == IF engine.documents[i] = None THEN engine ELSE Hybrid!Without(engine, i)
  <2>1. /\ engine' = IF Hybrid!TermsOf(c) # {} THEN Hybrid!With(cleared, i, c) ELSE cleared
        /\ engineFile' = engineFile
    BY <1>5 DEF Hybrid!UpdateDocument
  <2>2. Mirror(cleared) /\ cleared.documents[i] = None
    BY <1>1, Cleared
  <2> HIDE DEF cleared
  <2>3. Mirror(engine')
    BY <2>1, <2>2, WithMirrors
  <2> QED
    BY <1>2, <2>1, <2>3 DEF EngineInv
<1>6. ASSUME NEW i \in TextIds, Hybrid!RemoveDocument(i) PROVE EngineInv'
  <2>1. engine.documents[i] # None /\ engine' = Hybrid!Without(engine, i) /\ engineFile' = engineFile
    BY <1>6 DEF Hybrid!RemoveDocument
  <2>2. Mirror(engine')
    BY <1>1, <2>1, WithoutMirrors
  <2> QED
    BY <1>2, <2>1, <2>2 DEF EngineInv
<1>7. CASE Hybrid!Save
  <2>1. engine' = engine /\ engineFile' \in Docs
    BY <1>1, <1>7 DEF Hybrid!Save
  <2> QED
    BY <1>1, <1>2, <2>1 DEF EngineInv
<1>8. CASE Hybrid!SaveInPart
  <2>1. engine' = engine /\ engineFile' \in Docs
    <3> DEFINE Left(i) == {None} \cup IF engine.documents[i] = None THEN {} ELSE CutShort[engine.documents[i]]
    <3>1. PICK less \in SUBSET TextIds : \E i \in less : \E rest \in Left(i) :
             engineFile' = [j \in TextIds |-> IF j = i THEN rest
                                              ELSE IF j \in less THEN None ELSE engine.documents[j]]
      BY <1>8 DEF Hybrid!SaveInPart
    <3>2. \A i \in TextIds : Left(i) \subseteq Texts \cup {None}
      BY <1>1, EngineAssumption DEF Docs
    <3> HIDE DEF Left
    <3>3. engine' = engine
      BY <1>8 DEF Hybrid!SaveInPart
    <3> QED
      BY <1>1, <3>1, <3>2, <3>3 DEF Docs
  <2> QED
    BY <1>1, <1>2, <2>1 DEF EngineInv
<1>9. CASE Hybrid!Load
  <2>1. engineFile # Hybrid!NoFile /\ engine' = Hybrid!Rebuilt /\ engineFile' = engineFile
    BY <1>9 DEF Hybrid!Load
  <2>2. Mirror(engine')
    BY <2>1, RebuiltMirrors DEF EngineInv
  <2> QED
    BY <1>2, <2>1, <2>2 DEF EngineInv
<1>10. CASE Hybrid!Restart
  <2>1. engine' = Hybrid!Fresh /\ engineFile' = engineFile
    BY <1>10 DEF Hybrid!Restart
  <2>2. Mirror(engine')
    BY <2>1, FreshMirrors
  <2> QED
    BY <1>2, <2>1, <2>2 DEF EngineInv
<1> QED
  BY <1>3, <1>4, <1>5, <1>6, <1>7, <1>8, <1>9, <1>10 DEF Hybrid!EngineNext

\* Each document once, a list is as long as the documents are many.
LEMMA LongAs ==
  ASSUME NEW list \in Seq(Entries), NEW docs, NEW t, Lists(list, docs, t)
  PROVE  Len(list) = Cardinality(Under(docs, t))
<1> DEFINE U == Under(docs, t)
<1> DEFINE f == [n \in DOMAIN list |-> list[n][1]]
<1> DEFINE entry(i) == <<i, HowOften[docs[i]][t]>>
<1>1. DOMAIN list = 1 .. Len(list) /\ Len(list) \in Nat
  OBVIOUS
<1>2. EachOnce(list) /\ {list[n] : n \in DOMAIN list} = {entry(i) : i \in U} /\ \A i : entry(i)[1] = i
  BY DEF Lists
<1> HIDE DEF entry
<1>3. \A n \in DOMAIN list : \E i \in U : list[n] = entry(i)
  BY <1>2
<1>4. \A i \in U : \E n \in DOMAIN list : list[n] = entry(i)
  BY <1>2
<1> HIDE DEF U
<1>5. \A n \in DOMAIN list : list[n][1] \in U
  BY <1>2, <1>3
<1>6. f \in Bijection(DOMAIN list, U)
  <2>1. f \in [DOMAIN list -> U]
    BY <1>5
  <2>2. \A m, n \in DOMAIN list : f[m] = f[n] => m = n
    BY <1>2 DEF EachOnce
  <2>3. \A i \in U : \E n \in DOMAIN list : f[n] = i
    BY <1>2, <1>4
  <2> HIDE DEF f
  <2> QED
    BY <2>1, <2>2, <2>3 DEF Bijection, Injection, Surjection, IsInjective
<1>7. IsFiniteSet(DOMAIN list) /\ Cardinality(DOMAIN list) = Len(list)
  BY <1>1, FS_Interval
<1>8. ExistsBijection(DOMAIN list, U)
  <2> HIDE DEF f
  <2> QED
    BY <1>6 DEF ExistsBijection
<1> QED
  BY <1>7, <1>8, FS_Bijection DEF U

LEMMA EngineAnswers == EngineInv => Hybrid!IndexMirrors
<1> SUFFICES ASSUME EngineInv PROVE Hybrid!IndexMirrors
  OBVIOUS
<1> DEFINE docs == engine.documents
<1>1. Mirror(engine) /\ engine \in Engines /\ docs \in Docs
  BY DEF EngineInv, Mirror, Engines
<1>2. Hybrid!Present = Kept(docs)
  BY DEF Hybrid!Present, Kept
<1>3. ASSUME NEW t \in Terms PROVE Hybrid!Holding(t) = Under(docs, t)
  BY <1>2 DEF Hybrid!Holding, Hybrid!TermsOf, Under
<1>4. UNION {{i} \X Hybrid!Tokens(docs[i]) : i \in Hybrid!Present} = AllWords(docs)
  BY <1>2 DEF AllWords
<1>5. engine.total_documents = Hybrid!Cardinality(Hybrid!Present)
  BY <1>1, <1>2, SameCardinality DEF Mirror
<1>6. engine.total_terms = Hybrid!Cardinality(UNION {{i} \X Hybrid!Tokens(docs[i]) : i \in Hybrid!Present})
  BY <1>1, <1>4, SameCardinality DEF Mirror
<1>7. ASSUME NEW t \in Terms
      PROVE  /\ engine.frequency[t] = Hybrid!Cardinality(Hybrid!Holding(t))
             /\ Len(engine.postings[t]) = Hybrid!Cardinality(Hybrid!Holding(t))
             /\ Hybrid!Range(engine.postings[t]) = {<<i, HowOften[docs[i]][t]>> : i \in Hybrid!Holding(t)}
  <2>1. engine.frequency[t] = Cardinality(Under(docs, t)) /\ Lists(engine.postings[t], docs, t)
    BY <1>1 DEF Mirror
  <2>2. engine.postings[t] \in Seq(Entries)
    BY <1>1 DEF Engines, Entries
  <2>3. Len(engine.postings[t]) = Cardinality(Under(docs, t))
    BY <2>1, <2>2, LongAs
  <2>4. Hybrid!Range(engine.postings[t]) = {engine.postings[t][n] : n \in DOMAIN engine.postings[t]}
    BY DEF Hybrid!Range
  <2>5. {<<i, HowOften[docs[i]][t]>> : i \in Hybrid!Holding(t)} = {<<i, HowOften[docs[i]][t]>> : i \in Under(docs, t)}
    BY <1>3
  <2> QED
    BY <1>3, <2>1, <2>3, <2>4, <2>5, SameCardinality DEF Lists
<1> QED
  BY <1>5, <1>6, <1>7 DEF Hybrid!IndexMirrors

\* A load answers a query with the saved documents that match it.
LEMMA LoadAnswers ==
  ASSUME EngineInv, Hybrid!Load
  PROVE  Hybrid!LoadFindsWhatWasSaved
<1>1. engineFile \in Docs /\ engine' = Hybrid!Rebuilt
  BY DEF Hybrid!Load, EngineInv
<1> DEFINE docs == Reads(engineFile, Kept(engineFile))
<1>2. Mirror(engine') /\ engine'.documents = docs
  BY <1>1, RebuiltMirrors
<1> SUFFICES ASSUME NEW q \in SUBSET Terms, NEW i \in Hybrid!InFile, Reread[engineFile[i]] = engineFile[i]
             PROVE  i \in Hybrid!Found(engine', q) <=> q \cap Hybrid!TermsOf(engineFile[i]) # {}
  BY DEF Hybrid!LoadFindsWhatWasSaved
<1>3. i \in TextIds /\ i \in Kept(engineFile) /\ engineFile[i] \in Texts /\ engineFile[i] # None
  BY <1>1, EngineAssumption DEF Hybrid!InFile, Docs, Kept
<1>4. docs[i] = engineFile[i]
  BY <1>3 DEF Reads, Text
<1>5. ASSUME NEW t \in Terms
      PROVE  (\E p \in Hybrid!Range(engine'.postings[t]) : p[1] = i) <=> t \in Hybrid!TermsOf(engineFile[i])
  <2> DEFINE list == engine'.postings[t]
  <2> DEFINE entry(j) == <<j, HowOften[docs[j]][t]>>
  <2>1. Lists(list, docs, t)
    BY <1>2 DEF Mirror
  <2>2. Hybrid!Range(list) = {entry(j) : j \in Under(docs, t)}
    BY <2>1 DEF Lists, Hybrid!Range
  <2>3. i \in Under(docs, t) <=> t \in Hybrid!TermsOf(engineFile[i])
    BY <1>3, <1>4 DEF Under, Kept, Hybrid!TermsOf
  <2>4. \A j : entry(j)[1] = j
    OBVIOUS
  <2> HIDE DEF entry, list
  <2>5. (\E p \in Hybrid!Range(list) : p[1] = i) <=> i \in Under(docs, t)
    BY <2>2, <2>4
  <2> QED
    BY <2>3, <2>5 DEF list
<1>6. i \in Hybrid!Found(engine', q) <=> \E t \in q : \E p \in Hybrid!Range(engine'.postings[t]) : p[1] = i
  BY DEF Hybrid!Found
<1> QED
  BY <1>5, <1>6 DEF Hybrid!TermsOf

\* Of the text search: each load finds what was saved.
THEOREM TextsComeBack == Hybrid!EngineSpec => [][Hybrid!LoadFindsWhatWasSaved]_(Hybrid!engineVars)
<1>1. Hybrid!EngineSpec => []EngineInv
  BY EngineStarts, EngineSteps, PTL DEF Hybrid!EngineSpec
<1>2. EngineInv /\ [Hybrid!EngineNext]_(Hybrid!engineVars) => [Hybrid!LoadFindsWhatWasSaved]_(Hybrid!engineVars)
  <2>1. Hybrid!Load \/ ~Hybrid!Load
    OBVIOUS
  <2> QED
    BY <2>1, LoadAnswers DEF Hybrid!LoadFindsWhatWasSaved
<1> QED
  BY <1>1, <1>2, PTL DEF Hybrid!EngineSpec

------------------------------------------------------------------------------
(* Logger.                                                                 *)

Part(s, a, b) == SubSeq(s, a + 1, b)

LEMMA LenOfFunction ==
  ASSUME NEW S, NEW n \in Nat, NEW f \in [1 .. n -> S]
  PROVE  f \in Seq(S) /\ Len(f) = n
OBVIOUS

LEMMA PartIs ==
  ASSUME NEW S, NEW s \in Seq(S), NEW a \in 0 .. Len(s), NEW b \in a .. Len(s)
  PROVE  /\ Part(s, a, b) \in Seq(S) /\ Len(Part(s, a, b)) = b - a
         /\ DOMAIN Part(s, a, b) = 1 .. b - a
         /\ \A i \in 1 .. b - a : Part(s, a, b)[i] = s[a + i]
  BY DEF Part

LEMMA PartLength ==
  ASSUME NEW s \in Seq(Nat), NEW a \in Nat, NEW b \in Nat, a <= b, b <= Len(s)
  PROVE  Len(Part(s, a, b)) = b - a
BY DEF Part

LEMMA PartsJoin ==
  ASSUME NEW S, NEW s \in Seq(S), NEW a \in 0 .. Len(s), NEW b \in a .. Len(s), NEW c \in b .. Len(s)
  PROVE  Part(s, a, b) \o Part(s, b, c) = Part(s, a, c)
  BY DEF Part

LEMMA PartGrows ==
  ASSUME NEW S, NEW s \in Seq(S), NEW x \in S, NEW a \in 0 .. Len(s)
  PROVE  /\ Append(s, x) \in Seq(S) /\ Len(Append(s, x)) = Len(s) + 1
         /\ \A b \in a .. Len(s) : Part(Append(s, x), a, b) = Part(s, a, b)
         /\ Part(Append(s, x), a, Len(s) + 1) = Append(Part(s, a, Len(s)), x)
<1> DEFINE l == Append(s, x)
<1>1. /\ l \in Seq(S) /\ Len(l) = Len(s) + 1 /\ l[Len(s) + 1] = x
      /\ \A i \in 1 .. Len(s) : l[i] = s[i]
  OBVIOUS
<1> HIDE DEF l
<1>2. ASSUME NEW b \in a .. Len(s) PROVE Part(l, a, b) = Part(s, a, b)
  BY <1>1 DEF Part
<1>3. Part(l, a, Len(s) + 1) = Append(Part(s, a, Len(s)), x)
  <2>1. Part(s, a, Len(s)) \in Seq(S) /\ Len(Part(s, a, Len(s))) = Len(s) - a
        /\ \A i \in 1 .. Len(s) - a : Part(s, a, Len(s))[i] = s[a + i]
    <3>1. Len(s) \in a .. Len(s)
      OBVIOUS
    <3> QED
      BY <3>1, PartIs
  <2>2. Part(l, a, Len(s) + 1) \in Seq(S) /\ Len(Part(l, a, Len(s) + 1)) = Len(s) + 1 - a
        /\ \A i \in 1 .. Len(s) + 1 - a : Part(l, a, Len(s) + 1)[i] = l[a + i]
    <3>1. a \in 0 .. Len(l) /\ Len(l) \in a .. Len(l)
      BY <1>1
    <3>2. /\ Part(l, a, Len(l)) \in Seq(S) /\ Len(Part(l, a, Len(l))) = Len(l) - a
          /\ \A i \in 1 .. Len(l) - a : Part(l, a, Len(l))[i] = l[a + i]
      BY <1>1, <3>1, PartIs, ZenonT(60)
    <3> QED
      BY <1>1, <3>2
  <2> DEFINE left == Part(l, a, Len(s) + 1)
  <2> DEFINE right == Append(Part(s, a, Len(s)), x)
  <2>3. right \in Seq(S) /\ Len(right) = Len(s) + 1 - a
        /\ \A i \in 1 .. Len(s) + 1 - a : right[i] = IF i = Len(s) + 1 - a THEN x ELSE s[a + i]
    BY <2>1
  <2>4. ASSUME NEW i \in 1 .. Len(s) + 1 - a PROVE left[i] = right[i]
    <3>1. left[i] = l[a + i] /\ right[i] = IF i = Len(s) + 1 - a THEN x ELSE s[a + i]
      BY <2>2, <2>3
    <3>2. i # Len(s) + 1 - a => a + i \in 1 .. Len(s)
      OBVIOUS
    <3>3. i = Len(s) + 1 - a => a + i = Len(s) + 1
      OBVIOUS
    <3> QED
      BY <1>1, <3>1, <3>2, <3>3
  <2> HIDE DEF left, right
  <2>5. left \in Seq(S) /\ Len(left) = Len(s) + 1 - a
    BY <2>2 DEF left
  <2>6. DOMAIN left = 1 .. Len(s) + 1 - a /\ DOMAIN right = 1 .. Len(s) + 1 - a
    BY <2>3, <2>5
  <2>7. left = right
    BY <2>3, <2>4, <2>5, <2>6, SeqEqual
  <2> QED
    BY <2>7 DEF left, right
<1> QED
  BY <1>1, <1>2, <1>3 DEF l

\* Adjoining parts of a sequence, one after the other.
LEMMA Adjoin ==
  ASSUME NEW S, NEW s \in Seq(S), NEW n \in Nat \ {0}, NEW cut \in [0 .. n -> 0 .. Len(s)],
         \A i \in 1 .. n : cut[i - 1] <= cut[i],
         NEW parts, parts = [i \in 1 .. n |-> Part(s, cut[i - 1], cut[i])]
  PROVE  /\ Log!FlattenSeq(parts) = Part(s, cut[0], cut[n])
         /\ cut[0] <= cut[n]
<1> DEFINE body(f) == [i \in 1 .. Len(parts) |-> IF i = 1 THEN parts[i] ELSE f[i - 1] \o parts[i]]
<1> DEFINE upTo(i) == Part(s, cut[0], cut[i])
<1>1. Len(parts) = n /\ n # 0
  <2>1. DOMAIN parts = 1 .. n
    OBVIOUS
  <2> QED
    BY <2>1
<1>2. ASSUME NEW i \in 0 .. n PROVE cut[i] \in 0 .. Len(s) /\ cut[0] <= cut[i]
  <2> DEFINE G == {j \in 0 .. n : cut[0] <= cut[j]}
  <2>1. 0 \in G
    OBVIOUS
  <2>2. ASSUME NEW j \in 1 .. n, j - 1 \in G PROVE j \in G
    <3>1. j - 1 \in 0 .. n /\ j \in 0 .. n /\ cut[j - 1] <= cut[j] /\ cut[0] <= cut[j - 1]
      BY <2>2
    <3>2. cut[0] \in Int /\ cut[j] \in Int /\ cut[j - 1] \in Int
      BY <3>1
    <3> QED
      BY <3>1, <3>2
  <2> HIDE DEF G
  <2>3. \A j \in 0 .. n : j \in G
    BY ONLY <2>1, <2>2, n \in Nat, Interval
  <2> QED
    BY <2>3 DEF G
<1>3. ASSUME NEW i \in 1 .. n
      PROVE  upTo(i) = IF i = 1 THEN parts[i] ELSE upTo(i - 1) \o parts[i]
  <2>1. i - 1 \in 0 .. n /\ i \in 0 .. n /\ cut[i - 1] <= cut[i]
    OBVIOUS
  <2> DEFINE a == cut[0]
  <2> DEFINE b == cut[i - 1]
  <2> DEFINE c == cut[i]
  <2>2. a \in 0 .. Len(s) /\ b \in a .. Len(s) /\ c \in b .. Len(s)
    BY <1>2, <2>1
  <2>3. parts[i] = Part(s, b, c) /\ (i = 1 => a = b)
    BY <2>1
  <2> HIDE DEF a, b, c
  <2>4. Part(s, a, b) \o Part(s, b, c) = Part(s, a, c)
    BY <2>2, PartsJoin
  <2> QED
    BY <2>3, <2>4 DEF a, b, c
<1>4. \E f : f = body(f)
  <2> DEFINE f == [i \in 1 .. n |-> upTo(i)]
  <2>1. \A i \in 1 .. n : i # 1 => i - 1 \in 1 .. n
    OBVIOUS
  <2> HIDE DEF upTo
  <2>2. f = body(f)
    BY <1>1, <1>3, <2>1
  <2> HIDE DEF f, body
  <2> QED
    BY <2>2
<1> DEFINE flat == CHOOSE f : f = body(f)
<1>5. flat = body(flat)
  <2> HIDE DEF body
  <2> QED
    BY <1>4
<1>6. Log!FlattenSeq(parts) = flat[Len(parts)]
  <2>1. Len(parts) # 0
    BY <1>1
  <2> QED
    BY <2>1, Zenon DEF Log!FlattenSeq
<1> HIDE DEF flat
<1> DEFINE G == {i \in 0 .. n : i = 0 \/ flat[i] = upTo(i)}
<1>7. 0 \in G
  OBVIOUS
<1>8. ASSUME NEW i \in 1 .. n, i - 1 \in G PROVE i \in G
  <2>1. \A j \in 1 .. Len(parts) : flat[j] = body(flat)[j]
    <3> HIDE DEF body
    <3> QED
      BY <1>5
  <2>2. flat[i] = IF i = 1 THEN parts[i] ELSE flat[i - 1] \o parts[i]
    BY <1>1, <2>1
  <2>3. i - 1 = 0 \/ flat[i - 1] = upTo(i - 1)
    <3> HIDE DEF upTo
    <3> QED
      BY <1>8
  <2>4. i \in 0 .. n /\ (i - 1 = 0 => i = 1)
    OBVIOUS
  <2> HIDE DEF upTo, body
  <2>5. flat[i] = upTo(i)
    BY <1>3, <2>2, <2>3, <2>4
  <2> QED
    BY <2>4, <2>5
<1> HIDE DEF G
<1>9. \A i \in 0 .. n : i \in G
  BY ONLY <1>7, <1>8, n \in Nat, Interval
<1>10. flat[n] = upTo(n)
  <2>1. n \in G /\ n # 0
    BY <1>9
  <2> HIDE DEF upTo
  <2> QED
    BY <2>1 DEF G
<1> QED
  BY <1>1, <1>2, <1>6, <1>10

\* The end of a sequence.
LEMMA EndIs ==
  ASSUME NEW S, NEW s \in Seq(S), NEW a \in 0 .. Len(s)
  PROVE  Log!IsSuffix(Part(s, a, Len(s)), s) /\ (a = 0 => Part(s, a, Len(s)) = s)
<1> DEFINE p == Part(s, a, Len(s))
<1> DEFINE n == Len(s) - a
<1>1. p \in Seq(S) /\ Len(p) = n /\ n \in Nat /\ n <= Len(s) /\ \A i \in 1 .. n : p[i] = s[a + i]
  <2>1. Len(s) \in a .. Len(s) /\ n \in Nat /\ n <= Len(s)
    OBVIOUS
  <2>2. /\ Part(s, a, Len(s)) \in Seq(S) /\ Len(Part(s, a, Len(s))) = Len(s) - a
        /\ \A i \in 1 .. Len(s) - a : Part(s, a, Len(s))[i] = s[a + i]
    BY <2>1, PartIs
  <2> QED
    BY <2>1, <2>2
<1>2. a = 0 => p = s
  BY DEF Part
<1> DEFINE rp == Log!Reverse(p)
<1> DEFINE rs == Log!Reverse(s)
<1>3. rp = [i \in 1 .. n |-> p[(n - i) + 1]] /\ rs = [i \in 1 .. Len(s) |-> s[(Len(s) - i) + 1]]
  <2> HIDE DEF p
  <2> QED
    BY <1>1 DEF Log!Reverse
<1> HIDE DEF p
<1>4. rp \in Seq(S) /\ Len(rp) = n /\ rs \in Seq(S) /\ Len(rs) = Len(s)
  <2>1. \A i \in 1 .. n : p[(n - i) + 1] \in S
    BY <1>1
  <2>2. rp \in [1 .. n -> S] /\ rs \in [1 .. Len(s) -> S]
    <3>1. \A i \in 1 .. Len(s) : s[(Len(s) - i) + 1] \in S
      OBVIOUS
    <3> HIDE DEF rp, rs, n
    <3> QED
      BY <1>3, <2>1, <3>1
  <2> HIDE DEF rp, rs, n
  <2> QED
    <3>1. n \in Nat /\ Len(s) \in Nat
      BY <1>1
    <3>2. rp \in Seq(S) /\ Len(rp) = n
      BY <2>2, <3>1, LenOfFunction
    <3>3. rs \in Seq(S) /\ Len(rs) = Len(s)
      BY <2>2, <3>1, LenOfFunction
    <3> QED
      BY <3>2, <3>3
<1>5. \A i \in 1 .. n : rp[i] = rs[i]
  <2> SUFFICES ASSUME NEW i \in 1 .. n PROVE rp[i] = rs[i]
    OBVIOUS
  <2>1. (n - i) + 1 \in 1 .. n /\ a + ((n - i) + 1) = (Len(s) - i) + 1 /\ i \in 1 .. Len(s)
    BY <1>1
  <2> HIDE DEF rp, rs, n
  <2> QED
    BY <1>1, <1>3, <2>1
<1> HIDE DEF rp, rs, n
<1>6. SubSeq(rp, 1, n) = SubSeq(rs, 1, n)
  BY <1>1, <1>4, <1>5
<1>7. Log!IsPrefix(rp, rs)
  BY <1>1, <1>4, <1>6 DEF Log!IsPrefix
<1> QED
  BY <1>2, <1>7 DEF Log!IsSuffix, p, rp, rs

\* How the files of a log lie in what was written to it: file i ends where file i - 1
\* begins, there were r rotations, and j backups hold the lines of j full files but
\* for a file for each line lost.
Cut(cut, r, old, said, gone) ==
    /\ cut[0] = Len(said)
    /\ \A i \in 0 .. MaxBackups + 1 : cut[i + 1] <= cut[i] /\ old[i] = Part(said, cut[i + 1], cut[i])
    /\ MaxBackups > 0 => cut[MaxBackups + 2] = cut[MaxBackups + 1]
    /\ \A i \in 1 .. MaxBackups + 1 : i > r => cut[i] = 0
    /\ \A j \in 0 .. MaxBackups : j <= r => cut[1] - cut[j + 1] >= (j - gone) * MaxFileSize

Ends(said) == [0 .. MaxBackups + 2 -> 0 .. Len(said)]

Lies(old, said, gone) ==
    /\ old \in [0 .. MaxBackups + 1 -> Seq(Nat)] /\ said \in Seq(Nat) /\ gone \in Nat
    /\ \E cut \in Ends(said), r \in Nat : Cut(cut, r, old, said, gone)

LEMMA CutMonotonic ==
  ASSUME NEW old, NEW said \in Seq(Nat), NEW gone, NEW cut \in Ends(said), NEW r, Cut(cut, r, old, said, gone)
  PROVE  /\ Len(said) \in Nat
         /\ \A i \in 0 .. MaxBackups + 2 : cut[i] \in 0 .. Len(said)
         /\ \A i \in 0 .. MaxBackups + 1 : /\ i + 1 \in 0 .. MaxBackups + 2 /\ i \in 0 .. MaxBackups + 2
                                           /\ cut[i + 1] <= cut[i]
BY LogAssumption DEF Cut, Ends

\* A line is written.
LEMMA LineAdded ==
  ASSUME NEW old, NEW said, NEW gone, Lies(old, said, gone), NEW line \in Nat
  PROVE  Lies([old EXCEPT ![0] = Append(@, line)], Append(said, line), gone)
<1> DEFINE new == [old EXCEPT ![0] = Append(@, line)]
<1> DEFINE more == Append(said, line)
<1>1. /\ old \in [0 .. MaxBackups + 1 -> Seq(Nat)] /\ said \in Seq(Nat) /\ gone \in Nat
      /\ MaxBackups \in Nat /\ 0 \in 0 .. MaxBackups + 1
  BY LogAssumption DEF Lies
<1>2. PICK cut \in Ends(said), r \in Nat : Cut(cut, r, old, said, gone)
  BY DEF Lies
<1>3. /\ Len(said) \in Nat
      /\ \A i \in 0 .. MaxBackups + 2 : cut[i] \in 0 .. Len(said)
      /\ \A i \in 0 .. MaxBackups + 1 : /\ i + 1 \in 0 .. MaxBackups + 2 /\ i \in 0 .. MaxBackups + 2
                                        /\ cut[i + 1] <= cut[i]
  BY <1>1, <1>2, CutMonotonic
<1> DEFINE after == [i \in 0 .. MaxBackups + 2 |-> IF i = 0 THEN Len(said) + 1 ELSE cut[i]]
<1>4. more \in Seq(Nat) /\ Len(more) = Len(said) + 1
  BY <1>1
<1>5. after \in Ends(more)
  <2>1. \A i \in 0 .. MaxBackups + 2 : (IF i = 0 THEN Len(said) + 1 ELSE cut[i]) \in 0 .. Len(said) + 1
    BY <1>3
  <2> HIDE DEF more
  <2> QED
    BY <1>4, <2>1 DEF Ends
<1>6. new \in [0 .. MaxBackups + 1 -> Seq(Nat)]
  BY <1>1
<1>7. ASSUME NEW i \in 0 .. MaxBackups + 1
      PROVE  after[i + 1] <= after[i] /\ new[i] = Part(more, after[i + 1], after[i])
  <2>1. old[i] = Part(said, cut[i + 1], cut[i])
    BY <1>2 DEF Cut
  <2>2. after[i + 1] = cut[i + 1]
    BY <1>3
  <2>3. CASE i = 0
    <3>1. cut[1] \in 0 .. Len(said) /\ cut[0] = Len(said)
      BY <1>2, <1>3, <2>3 DEF Cut
    <3>2. Part(more, cut[1], Len(said) + 1) = Append(Part(said, cut[1], Len(said)), line)
      BY <1>1, <3>1, PartGrows, ZenonT(60)
    <3>3. new[0] = Append(old[0], line)
      BY <1>1
    <3>4. after[0] = Len(said) + 1
      <4>1. 0 \in 0 .. MaxBackups + 2
        BY <1>1
      <4> QED
        BY <4>1
    <3> HIDE DEF new, more, after
    <3> QED
      BY <2>1, <2>2, <2>3, <3>1, <3>2, <3>3, <3>4
  <2>4. CASE i # 0
    <3>1. after[i] = cut[i] /\ new[i] = old[i]
      BY <1>1, <1>3, <2>4
    <3>2. cut[i + 1] \in 0 .. Len(said) /\ cut[i] \in cut[i + 1] .. Len(said)
      BY <1>3
    <3>3. Part(more, cut[i + 1], cut[i]) = Part(said, cut[i + 1], cut[i])
      BY <1>1, <3>2, PartGrows
    <3> HIDE DEF new, more, after
    <3> QED
      BY <2>1, <2>2, <3>1, <3>2, <3>3
  <2> QED
    BY <2>3, <2>4
<1>8. \A i \in 1 .. MaxBackups + 2 : after[i] = cut[i]
  BY <1>1
<1>9. after[0] = Len(more)
  BY <1>1, <1>4
<1> HIDE DEF new, more, after
<1>10. Cut(after, r, new, more, gone)
  <2>1. MaxBackups > 0 => after[MaxBackups + 2] = after[MaxBackups + 1]
    BY <1>1, <1>2, <1>8 DEF Cut
  <2>2. \A i \in 1 .. MaxBackups + 1 : i > r => after[i] = 0
    BY <1>1, <1>2, <1>8 DEF Cut
  <2>3. ASSUME NEW j \in 0 .. MaxBackups, j <= r PROVE after[1] - after[j + 1] >= (j - gone) * MaxFileSize
    <3>1. 1 \in 1 .. MaxBackups + 2 /\ j + 1 \in 1 .. MaxBackups + 2
      BY <1>1
    <3>2. after[1] = cut[1] /\ after[j + 1] = cut[j + 1]
      BY <1>8, <3>1
    <3>3. cut[1] - cut[j + 1] >= (j - gone) * MaxFileSize
      BY <1>2, <2>3 DEF Cut
    <3> QED
      BY <3>2, <3>3
  <2> QED
    BY <1>7, <1>9, <2>1, <2>2, <2>3 DEF Cut
<1>11. Lies(new, more, gone)
  BY <1>1, <1>4, <1>5, <1>6, <1>10 DEF Lies
<1> QED
  BY <1>11 DEF new, more

\* A line is lost.
LEMMA LineLost ==
  ASSUME NEW old, NEW said, NEW gone, Lies(old, said, gone)
  PROVE  Lies(old, said, gone + 1)
<1>1. gone \in Nat /\ MaxFileSize \in Nat /\ MaxBackups \in Nat /\ said \in Seq(Nat)
  BY LogAssumption DEF Lies
<1>2. PICK cut \in Ends(said), r \in Nat : Cut(cut, r, old, said, gone)
  BY DEF Lies
<1>3. /\ Len(said) \in Nat
      /\ \A i \in 0 .. MaxBackups + 2 : cut[i] \in 0 .. Len(said)
  BY <1>1, <1>2, CutMonotonic
<1>4. ASSUME NEW j \in 0 .. MaxBackups, j <= r PROVE cut[1] - cut[j + 1] >= (j - (gone + 1)) * MaxFileSize
  <2>1. cut[1] - cut[j + 1] >= (j - gone) * MaxFileSize
    BY <1>2, <1>4 DEF Cut
  <2>2. cut[1] \in Int /\ cut[j + 1] \in Int
    BY <1>1, <1>3
  <2>3. (j - (gone + 1)) * MaxFileSize = (j - gone) * MaxFileSize - MaxFileSize
    BY <1>1
  <2>4. (j - gone) * MaxFileSize \in Int
    BY <1>1
  <2> DEFINE room == (j - gone) * MaxFileSize
  <2> HIDE DEF room
  <2> QED
    BY <1>1, <2>1, <2>2, <2>3, <2>4 DEF room
<1>5. Cut(cut, r, old, said, gone + 1)
  BY <1>2, <1>4 DEF Cut
<1> QED
  BY <1>1, <1>2, <1>5 DEF Lies

\* The files are rotated: debt is the number of lines lost afterwards, one more than
\* before when the file is not full.
LEMMA FilesRotated ==
  ASSUME NEW old, NEW said, NEW gone, Lies(old, said, gone),
         NEW debt \in Nat, gone <= debt, Len(old[0]) >= MaxFileSize \/ gone < debt
  PROVE  Lies(Log!Rotated(old), said, debt)
<1> DEFINE new == Log!Rotated(old)
<1>1. /\ old \in [0 .. MaxBackups + 1 -> Seq(Nat)] /\ said \in Seq(Nat) /\ gone \in Nat
      /\ MaxBackups \in Nat /\ MaxFileSize \in Nat
  BY LogAssumption DEF Lies
<1>2. PICK cut \in Ends(said), r \in Nat : Cut(cut, r, old, said, gone)
  BY DEF Lies
<1>3. /\ Len(said) \in Nat
      /\ \A i \in 0 .. MaxBackups + 2 : cut[i] \in 0 .. Len(said)
      /\ \A i \in 0 .. MaxBackups + 1 : /\ i + 1 \in 0 .. MaxBackups + 2 /\ i \in 0 .. MaxBackups + 2
                                        /\ cut[i + 1] <= cut[i]
  BY <1>1, <1>2, CutMonotonic
<1> DEFINE after == [i \in 0 .. MaxBackups + 2 |->
                       IF i = 0 THEN cut[0] ELSE IF MaxBackups > 0 /\ i = MaxBackups + 2 THEN cut[MaxBackups]
                       ELSE cut[i - 1]]
<1>4. \A i \in 0 .. MaxBackups + 2 : i # 0 => i - 1 \in 0 .. MaxBackups + 2
  BY <1>1
<1>5. after \in Ends(said)
  <2>1. MaxBackups \in 0 .. MaxBackups + 2 /\ 0 \in 0 .. MaxBackups + 2
    BY <1>1
  <2> QED
    BY <1>3, <1>4, <2>1 DEF Ends
<1>6. /\ new \in [0 .. MaxBackups + 1 -> Seq(Nat)]
      /\ new[0] = <<>> /\ new[1] = old[0]
      /\ \A i \in 2 .. MaxBackups + 1 : new[i] = IF i <= MaxBackups THEN old[i - 1] ELSE old[i]
  <2>1. DOMAIN old = 0 .. MaxBackups + 1
    BY <1>1
  <2>2. new = [i \in 0 .. MaxBackups + 1 |-> IF i = 0 THEN <<>> ELSE IF i = 1 THEN old[0]
                                             ELSE IF i <= MaxBackups THEN old[i - 1] ELSE old[i]]
    BY <2>1 DEF Log!Rotated
  <2>3. \A i \in 0 .. MaxBackups + 1 : i # 0 => i - 1 \in 0 .. MaxBackups + 1
    BY <1>1
  <2>4. \A i \in 0 .. MaxBackups + 1 : old[i] \in Seq(Nat)
    BY <1>1
  <2>5. 0 \in 0 .. MaxBackups + 1 /\ 1 \in 0 .. MaxBackups + 1 /\ \A i \in 2 .. MaxBackups + 1 : i \in 0 .. MaxBackups + 1
    BY <1>1
  <2>6. new \in [0 .. MaxBackups + 1 -> Seq(Nat)]
    BY <2>2, <2>3, <2>4, <2>5
  <2>7. \A i \in 2 .. MaxBackups + 1 : i # 0 /\ i # 1
    BY <1>1
  <2> HIDE DEF new
  <2> QED
    BY <2>2, <2>5, <2>6, <2>7
<1>7. \A i \in 0 .. MaxBackups + 1 : old[i] = Part(said, cut[i + 1], cut[i])
  BY <1>2 DEF Cut
<1>8. ASSUME NEW a \in 0 .. Len(said) PROVE Part(said, a, a) = <<>>
  BY <1>1 DEF Part
<1> HIDE DEF new
<1>9. cut[0] = Len(said) /\ (MaxBackups > 0 => cut[MaxBackups + 2] = cut[MaxBackups + 1])
  BY <1>2 DEF Cut
<1>10. after[0] = cut[0] /\ after[1] = cut[0]
  BY <1>1
<1>11. \A i \in 1 .. MaxBackups + 1 : after[i] = cut[i - 1] /\ i \in 0 .. MaxBackups + 2
  BY <1>1
<1>12. after[MaxBackups + 2] = IF MaxBackups > 0 THEN cut[MaxBackups] ELSE cut[1]
  BY <1>1
<1> HIDE DEF after
<1>13. ASSUME NEW i \in 0 .. MaxBackups + 1
       PROVE  after[i + 1] <= after[i] /\ new[i] = Part(said, after[i + 1], after[i])
  <2>1. CASE i = 0
    <3>1. after[1] = Len(said) /\ after[0] = Len(said) /\ Len(said) \in 0 .. Len(said)
      BY <1>3, <1>9, <1>10
    <3> QED
      BY <1>6, <1>8, <2>1, <3>1
  <2>2. CASE i = 1 /\ MaxBackups = 0
    <3>1. after[1] = cut[0] /\ after[2] = cut[1] /\ cut[1] <= cut[0]
      BY <1>3, <1>10, <1>12, <2>2
    <3>2. new[1] = Part(said, cut[1], cut[0])
      BY <1>1, <1>6, <1>7
    <3> QED
      BY <2>2, <3>1, <3>2
  <2>3. CASE i \in 1 .. MaxBackups
    <3>1. i \in 1 .. MaxBackups + 1 /\ i + 1 \in 1 .. MaxBackups + 1 /\ i - 1 \in 0 .. MaxBackups + 1 /\ (i - 1) + 1 = i
      BY <1>1, <2>3
    <3>2. after[i] = cut[i - 1] /\ after[i + 1] = cut[i]
      <4>1. (i + 1) - 1 = i
        BY <2>3
      <4> QED
        BY <1>11, <3>1, <4>1
    <3>3. new[i] = old[i - 1]
      <4>1. i = 1 \/ i \in 2 .. MaxBackups + 1
        BY <3>1
      <4> QED
        BY <1>6, <2>3, <4>1
    <3>4. old[i - 1] = Part(said, cut[i], cut[i - 1]) /\ cut[i] <= cut[i - 1]
      BY <1>3, <1>7, <3>1
    <3> QED
      BY <3>2, <3>3, <3>4
  <2>4. CASE i = MaxBackups + 1 /\ MaxBackups > 0
    <3>1. after[i + 1] = cut[MaxBackups] /\ after[i] = cut[MaxBackups]
      <4>1. i \in 1 .. MaxBackups + 1 /\ i - 1 = MaxBackups /\ i + 1 = MaxBackups + 2
        BY <1>1, <2>4
      <4> QED
        BY <1>11, <1>12, <2>4, <4>1
    <3>2. new[i] = old[i]
      BY <1>1, <1>6, <2>4
    <3>3. old[i] = Part(said, cut[MaxBackups + 1], cut[MaxBackups + 1])
      <4>1. i + 1 = MaxBackups + 2
        BY <1>1, <2>4
      <4> QED
        BY <1>7, <1>9, <2>4, <4>1
    <3>4. cut[MaxBackups + 1] \in 0 .. Len(said) /\ cut[MaxBackups] \in 0 .. Len(said)
      BY <1>1, <1>3
    <3>5. old[i] = <<>> /\ Part(said, cut[MaxBackups], cut[MaxBackups]) = <<>>
      BY <1>8, <3>3, <3>4
    <3> QED
      BY <3>1, <3>2, <3>4, <3>5
  <2> QED
    BY <1>1, <2>1, <2>2, <2>3, <2>4
<1>14. MaxBackups > 0 => after[MaxBackups + 2] = after[MaxBackups + 1]
  <2>1. MaxBackups + 1 \in 1 .. MaxBackups + 1 /\ (MaxBackups + 1) - 1 = MaxBackups
    BY <1>1
  <2> QED
    BY <1>11, <1>12, <2>1
<1>15. ASSUME NEW i \in 1 .. MaxBackups + 1, i > r + 1 PROVE after[i] = 0
  <2>1. i - 1 \in 1 .. MaxBackups + 1 /\ i - 1 > r
    BY <1>1, <1>15
  <2>2. cut[i - 1] = 0
    BY <1>2, <2>1 DEF Cut
  <2> QED
    BY <1>11, <2>2
<1>16. ASSUME NEW j \in 0 .. MaxBackups, j <= r + 1
       PROVE  after[1] - after[j + 1] >= (j - debt) * MaxFileSize
  <2>1. CASE j = 0
    <3>1. (0 - debt) * MaxFileSize <= 0
      BY <1>1
    <3>2. after[1] - after[1] = 0
      BY <1>3, <1>9, <1>10
    <3> QED
      BY <2>1, <3>1, <3>2
  <2>2. CASE j # 0
    <3> DEFINE m == j - 1
    <3>1. m \in 0 .. MaxBackups /\ m <= r /\ j = m + 1 /\ j \in 0 .. MaxBackups + 2 /\ j + 1 \in 1 .. MaxBackups + 1
      BY <1>1, <1>16, <2>2
    <3>2. cut[1] - cut[j] >= (m - gone) * MaxFileSize
      BY <1>2, <3>1 DEF Cut
    <3>3. after[1] = cut[0] /\ after[j + 1] = cut[j]
      <4>1. (j + 1) - 1 = j
        BY <3>1
      <4> QED
        BY <1>10, <1>11, <3>1, <4>1
    <3>4. cut[0] \in Int /\ cut[1] \in Int /\ cut[j] \in Int /\ cut[1] <= cut[0]
      <4>1. \A i \in 0 .. MaxBackups + 2 : cut[i] \in Int
        BY <1>3
      <4>2. 0 \in 0 .. MaxBackups + 2 /\ 1 \in 0 .. MaxBackups + 2
        BY <1>1
      <4>3. 0 \in 0 .. MaxBackups + 1 /\ 0 + 1 = 1
        BY <1>1
      <4>4. cut[0 + 1] <= cut[0]
        BY <1>3, <4>3
      <4> QED
        BY <3>1, <4>1, <4>2, <4>3, <4>4
    <3> DEFINE x == m - gone
    <3> DEFINE y == j - debt
    <3>5. x \in Int /\ y \in Int /\ y <= x + 1 /\ (gone < debt => y <= x)
      BY <1>1, <3>1
    <3>6. Len(old[0]) = cut[0] - cut[1]
      <4>1. old[0] = Part(said, cut[1], cut[0])
        BY <1>1, <1>7
      <4>2. cut[1] \in 0 .. Len(said) /\ cut[0] \in cut[1] .. Len(said)
        BY <1>1, <1>3, <3>4
      <4>3. Len(Part(said, cut[1], cut[0])) = cut[0] - cut[1]
        <5> DEFINE a == cut[1]
        <5> DEFINE b == cut[0]
        <5>1. said \in Seq(Nat) /\ a \in Nat /\ b \in Nat /\ a <= b /\ b <= Len(said)
          BY <1>1, <1>3, <4>2
        <5> HIDE DEF a, b
        <5>2. Len(Part(said, a, b)) = b - a
          BY ONLY <5>1, PartLength
        <5> QED
          BY <5>2 DEF a, b
      <4> QED
        BY ONLY <4>1, <4>3
    <3>7. cut[0] - cut[1] >= MaxFileSize \/ y <= x
      BY <3>5, <3>6
    <3> HIDE DEF x, y, m
    <3>8. cut[1] - cut[j] >= x * MaxFileSize
      BY <3>2 DEF x
    <3>9. cut[0] - cut[j] >= y * MaxFileSize
      <4> DEFINE px == x * MaxFileSize
      <4> DEFINE py == y * MaxFileSize
      <4>1. px \in Int /\ py \in Int /\ cut[1] - cut[j] >= px
        BY <1>1, <3>5, <3>8
      <4>2. y <= x => py <= px
        BY <1>1, <3>5
      <4>3. py <= px + MaxFileSize
        <5>1. y * MaxFileSize <= (x + 1) * MaxFileSize
          BY <1>1, <3>5
        <5>2. (x + 1) * MaxFileSize = x * MaxFileSize + MaxFileSize
          BY <1>1, <3>5
        <5> QED
          BY <5>1, <5>2
      <4> HIDE DEF px, py
      <4>4. MaxFileSize \in Int
        BY <1>1
      <4>5. cut[0] - cut[j] >= py
        BY ONLY <3>4, <3>7, <4>1, <4>2, <4>3, <4>4
      <4> QED
        BY <4>5 DEF py
    <3> QED
      BY <3>3, <3>9 DEF y
  <2> QED
    BY <2>1, <2>2
<1>17. Cut(after, r + 1, new, said, debt)
  BY <1>9, <1>10, <1>13, <1>14, <1>15, <1>16 DEF Cut
<1>18. Lies(new, said, debt)
  <2>1. r + 1 \in Nat
    OBVIOUS
  <2> QED
    BY <1>1, <1>5, <1>6, <1>17, <2>1 DEF Lies
<1> QED
  BY <1>18 DEF new

\* A line is logged, and the files may be rotated then.
LEMMA LineWritten ==
  ASSUME NEW f \in Log!Logs, NEW line \in Nat, NEW rotates \in BOOLEAN,
         Lies(files[f], logged[f], lost[f])
  PROVE  LET w == Log!WriteTo(f, line, rotates) IN Lies(w.file, w.logged, w.lost)
<1> DEFINE w == Log!WriteTo(f, line, rotates)
<1> DEFINE more == [files[f] EXCEPT ![0] = Append(@, line)]
<1>1. lost[f] \in Nat
  BY DEF Lies
<1>2. CASE stream[f] = "sound"
  <2>1. Lies(more, Append(logged[f], line), lost[f])
    BY LineAdded
  <2> DEFINE rotate == rotates /\ Len(more[0]) >= MaxFileSize
  <2>2. /\ w.logged = Append(logged[f], line) /\ w.lost = lost[f]
        /\ w.file = IF rotate THEN Log!Rotated(more) ELSE more
    BY <1>2 DEF Log!WriteTo, Log!Full
  <2> HIDE DEF w, more
  <2>3. rotate => Lies(Log!Rotated(more), Append(logged[f], line), lost[f])
    BY <1>1, <2>1, FilesRotated
  <2> HIDE DEF rotate
  <2>4. Lies(w.file, w.logged, w.lost)
    BY <2>1, <2>2, <2>3
  <2> QED
    BY <2>4 DEF w
<1>3. CASE stream[f] # "sound"
  <2> DEFINE rotate == rotates /\ Log!Full(stream[f], files[f][0])
  <2>1. /\ w.logged = logged[f] /\ w.lost = lost[f] + 1
        /\ w.file = IF rotate THEN Log!Rotated(files[f]) ELSE files[f]
    BY <1>3 DEF Log!WriteTo
  <2> HIDE DEF w, rotate
  <2>2. Lies(files[f], logged[f], lost[f] + 1)
    BY LineLost
  <2>3. Lies(Log!Rotated(files[f]), logged[f], lost[f] + 1)
    BY <1>1, FilesRotated
  <2>4. Lies(w.file, w.logged, w.lost)
    BY <2>1, <2>2, <2>3
  <2> QED
    BY <2>4 DEF w
<1> QED
  BY <1>2, <1>3

LogInv == \A f \in Log!Logs : Lies(files[f], logged[f], lost[f])

LEMMA LogStarts == Log!Init => LogInv
<1> SUFFICES ASSUME Log!Init, NEW f \in Log!Logs PROVE Lies(files[f], logged[f], lost[f])
  BY DEF LogInv
<1>1. files[f] = [i \in 0 .. MaxBackups + 1 |-> <<>>] /\ logged[f] = <<>> /\ lost[f] = 0
  BY DEF Log!Init, Log!Empty
<1>2. MaxBackups \in Nat /\ MaxFileSize \in Nat
  BY LogAssumption
<1> DEFINE cut == [i \in 0 .. MaxBackups + 2 |-> 0]
<1> DEFINE old == [i \in 0 .. MaxBackups + 1 |-> <<>>]
<1>3. cut \in Ends(<<>>) /\ \A i \in 0 .. MaxBackups + 2 : cut[i] = 0
  BY DEF Ends
<1>4. Part(<<>>, 0, 0) = <<>>
  BY DEF Part
<1>5. Cut(cut, 0, old, <<>>, 0)
  <2>1. \A i \in 0 .. MaxBackups + 1 : i \in 0 .. MaxBackups + 2 /\ i + 1 \in 0 .. MaxBackups + 2 /\ old[i] = <<>>
    BY <1>2
  <2>2. 0 \in 0 .. MaxBackups + 2 /\ MaxBackups + 2 \in 0 .. MaxBackups + 2 /\ MaxBackups + 1 \in 0 .. MaxBackups + 2
        /\ 1 \in 0 .. MaxBackups + 2
    BY <1>2
  <2>3. (0 - 0) * MaxFileSize = 0
    BY <1>2
  <2>4. \A i \in 1 .. MaxBackups + 1 : i \in 0 .. MaxBackups + 2
    BY <1>2
  <2>5. \A j \in 0 .. MaxBackups : j <= 0 => j = 0 /\ j + 1 = 1
    BY <1>2
  <2>6. Len(<<>>) = 0
    OBVIOUS
  <2> HIDE DEF cut, old
  <2>7. \A i \in 0 .. MaxBackups + 1 : cut[i + 1] <= cut[i] /\ old[i] = Part(<<>>, cut[i + 1], cut[i])
    BY <1>3, <1>4, <2>1
  <2>8. \A j \in 0 .. MaxBackups : j <= 0 => cut[1] - cut[j + 1] >= (j - 0) * MaxFileSize
    BY <1>3, <2>2, <2>3, <2>5
  <2> QED
    BY <1>3, <2>2, <2>4, <2>6, <2>7, <2>8 DEF Cut
<1>6. old \in [0 .. MaxBackups + 1 -> Seq(Nat)] /\ <<>> \in Seq(Nat)
  OBVIOUS
<1> HIDE DEF cut, old
<1>7. Lies(old, <<>>, 0)
  BY <1>3, <1>5, <1>6 DEF Lies
<1> QED
  BY <1>1, <1>7 DEF old

LEMMA LogSteps ==
  ASSUME LogInv, [Log!Next]_logVars
  PROVE  LogInv'
<1>1. \A f \in Log!Logs : Lies(files[f], logged[f], lost[f])
  BY DEF LogInv
<1>2. CASE UNCHANGED <<files, logged, lost>>
  BY <1>2 DEF LogInv, Lies
<1>3. ASSUME NEW t \in Callers, NEW anomaly \in BOOLEAN, Log!Write(t, anomaly) PROVE LogInv'
  <2>1. Log!Lines + 1 \in Nat
    <3>1. "main" \in Log!Logs
      BY DEF Log!Logs
    <3>2. logged["main"] \in Seq(Nat) /\ lost["main"] \in Nat
      BY <1>1, <3>1 DEF Lies
    <3> QED
      BY <3>2 DEF Log!Lines
  <2> DEFINE main == Log!WriteTo("main", Log!Lines + 1, ~anomaly)
  <2> DEFINE aside == Log!WriteTo("anomalies", Log!Lines + 1, TRUE)
  <2>2. "main" \in Log!Logs /\ "anomalies" \in Log!Logs /\ "anomalies" # "main" /\ Log!Logs = {"main", "anomalies"}
    BY DEF Log!Logs
  <2>3. Lies(main.file, main.logged, main.lost)
    BY <1>1, <2>1, <2>2, LineWritten
  <2>4. Lies(aside.file, aside.logged, aside.lost)
    BY <1>1, <2>1, <2>2, LineWritten
  <2> HIDE DEF main, aside
  <2>5. files'["main"] = main.file /\ logged'["main"] = main.logged /\ lost'["main"] = main.lost
    BY <1>3, <2>2 DEF Log!Write, main
  <2>6. CASE anomaly
    <3>1. files'["anomalies"] = aside.file /\ logged'["anomalies"] = aside.logged /\ lost'["anomalies"] = aside.lost
      BY <1>3, <2>2, <2>6 DEF Log!Write, aside
    <3>2. ASSUME NEW f \in Log!Logs PROVE Lies(files'[f], logged'[f], lost'[f])
      BY <2>2, <2>3, <2>4, <2>5, <3>1
    <3> QED
      BY <3>2 DEF LogInv, Lies, Log!Logs
  <2>7. CASE ~anomaly
    <3>1. files'["anomalies"] = files["anomalies"] /\ logged'["anomalies"] = logged["anomalies"]
          /\ lost'["anomalies"] = lost["anomalies"]
      BY <1>3, <2>2, <2>7 DEF Log!Write
    <3>2. ASSUME NEW f \in Log!Logs PROVE Lies(files'[f], logged'[f], lost'[f])
      BY <1>1, <2>2, <2>3, <2>5, <3>1
    <3> QED
      BY <3>2 DEF LogInv, Lies, Log!Logs
  <2> QED
    BY <2>6, <2>7
<1>4. Log!Next => UNCHANGED <<files, logged, lost>> \/ \E t \in Callers : \E anomaly \in BOOLEAN : Log!Write(t, anomaly)
  BY DEF Log!Next, Log!InitializeCalled, Log!Initialize, Log!Look, Log!InitializeLazily
<1> QED
  BY <1>2, <1>3, <1>4 DEF logVars

\* What can be read of a log is the end of what was written, from the last cut on.
LEMMA LogAnswers ==
  ASSUME LogInv
  PROVE  Log!LastLinesKept
<1> SUFFICES ASSUME NEW f \in Log!Logs
             PROVE  /\ Log!IsSuffix(Log!Kept(f), logged[f])
                    /\ \/ Log!Kept(f) = logged[f]
                       \/ Len(Log!Kept(f)) >= (MaxBackups - lost[f]) * MaxFileSize
  BY DEF Log!LastLinesKept
<1> DEFINE old == files[f]
<1> DEFINE said == logged[f]
<1> DEFINE gone == lost[f]
<1> DEFINE n == MaxBackups + 2
<1>1. Lies(old, said, gone)
  BY DEF LogInv
<1>2. MaxBackups \in Nat /\ MaxFileSize \in Nat
  BY LogAssumption
<1>3. said \in Seq(Nat) /\ gone \in Nat
  BY <1>1 DEF Lies
<1>4. PICK cut \in Ends(said), r \in Nat : Cut(cut, r, old, said, gone)
  BY <1>1 DEF Lies
<1>5. Log!Kept(f) = Log!FlattenSeq([i \in 1 .. n |-> old[n - i]])
  <2>1. [i \in 1 .. n |-> old[n - i]] = [i \in 1 .. n |-> old[MaxBackups + (2 - i)]]
    <3>1. \A i \in 1 .. n : n - i = MaxBackups + (2 - i)
      BY <1>2
    <3> HIDE DEF old, n
    <3> QED
      BY <3>1
  <2>2. Log!Kept(f) = Log!FlattenSeq([i \in 1 .. n |-> old[MaxBackups + (2 - i)]])
    BY Zenon DEF Log!Kept
  <2> HIDE DEF old, n
  <2> QED
    BY ONLY <2>1, <2>2
<1> HIDE DEF old, said, gone
<1>6. /\ Len(said) \in Nat
      /\ \A i \in 0 .. MaxBackups + 2 : cut[i] \in 0 .. Len(said)
      /\ \A i \in 0 .. MaxBackups + 1 : /\ i + 1 \in 0 .. MaxBackups + 2 /\ i \in 0 .. MaxBackups + 2
                                        /\ cut[i + 1] <= cut[i]
  BY <1>3, <1>4, CutMonotonic
<1> DEFINE from == [i \in 0 .. n |-> cut[n - i]]
<1>7. from \in [0 .. n -> 0 .. Len(said)] /\ n \in Nat \ {0}
  BY <1>2, <1>6
<1>8. from[0] = cut[n] /\ from[n] = Len(said)
  <2>1. cut[0] = Len(said) /\ n - n = 0 /\ n - 0 = n /\ 0 \in 0 .. n /\ n \in 0 .. n
    BY <1>2, <1>4 DEF Cut
  <2> HIDE DEF n
  <2> QED
    BY <2>1
<1>9. ASSUME NEW i \in 1 .. n
      PROVE  from[i - 1] <= from[i] /\ old[n - i] = Part(said, from[i - 1], from[i])
  <2>1. n - i \in 0 .. MaxBackups + 1 /\ (n - i) + 1 = n - (i - 1) /\ i - 1 \in 0 .. n /\ i \in 0 .. n
    BY <1>2
  <2>2. from[i - 1] = cut[(n - i) + 1] /\ from[i] = cut[n - i]
    BY <2>1
  <2> HIDE DEF from, n
  <2> QED
    BY <1>4, <2>1, <2>2 DEF Cut
<1> DEFINE parts == [i \in 1 .. n |-> old[n - i]]
<1>10. parts = [i \in 1 .. n |-> Part(said, from[i - 1], from[i])]
  <2> HIDE DEF from, n
  <2> QED
    BY <1>9
<1> HIDE DEF from, n, parts
<1>11. Log!FlattenSeq(parts) = Part(said, from[0], from[n])
  BY <1>3, <1>7, <1>9, <1>10, Adjoin
<1> DEFINE here == Part(said, cut[n], Len(said))
<1>12. Log!Kept(f) = here
  BY <1>5, <1>8, <1>11 DEF parts
<1>13. cut[n] \in 0 .. Len(said)
  BY <1>2, <1>6 DEF n
<1>14. Log!IsSuffix(here, said) /\ (cut[n] = 0 => here = said)
  BY <1>3, <1>13, EndIs
<1>15. Len(here) = Len(said) - cut[n]
  <2>1. Len(said) \in cut[n] .. Len(said)
    BY <1>6, <1>13
  <2>2. Len(Part(said, cut[n], Len(said))) = Len(said) - cut[n]
    <3> DEFINE a == cut[n]
    <3> DEFINE b == Len(said)
    <3>1. said \in Seq(Nat) /\ a \in Nat /\ b \in Nat /\ a <= b /\ b <= Len(said)
      BY <1>3, <1>6, <1>13
    <3> HIDE DEF a, b
    <3>2. Len(Part(said, a, b)) = b - a
      BY ONLY <3>1, PartLength
    <3> QED
      BY <3>2 DEF a, b
  <2> QED
    BY <2>2
<1> HIDE DEF here
<1>16. cut[n] = 0 \/ Len(here) >= (MaxBackups - gone) * MaxFileSize
  <2>1. CASE MaxBackups = 0
    <3> DEFINE room == (MaxBackups - gone) * MaxFileSize
    <3>1. room \in Int /\ room <= 0
      BY <1>2, <1>3, <2>1
    <3>2. Len(here) \in Nat
      BY <1>6, <1>13, <1>15
    <3> HIDE DEF room
    <3>3. Len(here) >= room
      BY <3>1, <3>2
    <3> QED
      BY <3>3 DEF room
  <2>2. CASE MaxBackups > 0
    <3>1. cut[n] = cut[MaxBackups + 1]
      BY <1>4, <2>2 DEF Cut, n
    <3>2. CASE MaxBackups + 1 > r
      <4>1. MaxBackups + 1 \in 1 .. MaxBackups + 1
        BY <1>2
      <4> QED
        BY <1>4, <3>1, <3>2, <4>1 DEF Cut
    <3>3. CASE MaxBackups <= r
      <4>1. MaxBackups \in 0 .. MaxBackups
        BY <1>2
      <4>2. cut[1] - cut[MaxBackups + 1] >= (MaxBackups - gone) * MaxFileSize
        BY <1>4, <3>3, <4>1 DEF Cut
      <4>3. cut[1] \in 0 .. Len(said)
        BY <1>2, <1>6
      <4>4. Len(here) >= cut[1] - cut[MaxBackups + 1]
        BY <1>6, <1>13, <1>15, <3>1, <4>3
      <4> DEFINE room == (MaxBackups - gone) * MaxFileSize
      <4>5. room \in Int
        BY <1>2, <1>3
      <4>6. Len(here) \in Int /\ cut[1] - cut[MaxBackups + 1] \in Int
        BY <1>6, <1>13, <1>15, <3>1, <4>3
      <4> HIDE DEF room
      <4> QED
        BY <4>2, <4>4, <4>5, <4>6 DEF room
    <3> QED
      BY <1>2, <3>2, <3>3
  <2> QED
    BY <1>2, <2>1, <2>2
<1> QED
  BY <1>12, <1>14, <1>16 DEF said, gone

\* Logger: rotation gives up the oldest lines only.  What can be read of a log is, in
\* order and without a gap, the end of what was written to it, and the backups hold
\* a full file each but for a file for each line lost.
THEOREM RotationKeeps == StoresSpec => []LastLinesKept
<1>1. (instance = "log" => LogInv) => LastLinesKept
  BY LogAnswers DEF LastLinesKept
<1>2. Log!Spec => []LogInv
  <2>1. LogInv /\ [Log!Next]_(Log!vars) => LogInv'
    BY LogSteps DEF Log!vars, logVars
  <2> QED
    BY LogStarts, <2>1, PTL DEF Log!Spec
<1>3. StoresSpec => [](instance = "log" => LogInv)
  <2>1. ~(instance = "log") /\ [FALSE]_instance => ~(instance = "log")'
    OBVIOUS
  <2> QED
    BY <1>2, <2>1, PTL DEF StoresSpec
<1> QED
  BY <1>1, <1>3, PTL

------------------------------------------------------------------------------
(* HybridSearch: the tools beside the engine.                              *)

\* Counts of a corpus: no word is in more documents than there are.
Counts(e) == /\ e \in [document_frequency : [Vocabulary -> Nat], total_documents : Nat, trained : BOOLEAN]
             /\ \A w \in Vocabulary : e.document_frequency[w] <= e.total_documents

ToolsInv == /\ Counts(extractor) /\ Counts(keyword_file)
            /\ DOMAIN synonyms \subseteq Vocabulary
            /\ \A w \in DOMAIN synonyms : synonyms[w] \in Seq(Vocabulary)

LEMMA UntrainedCounts == Counts(Hybrid!Untrained)
  BY DEF Counts, Hybrid!Untrained

LEMMA ToolsStart == Hybrid!ToolsInit => ToolsInv
<1> SUFFICES ASSUME Hybrid!ToolsInit PROVE ToolsInv
  OBVIOUS
<1>1. extractor = Hybrid!Untrained /\ keyword_file = Hybrid!Untrained /\ synonyms = [w \in {} |-> <<>>]
  BY DEF Hybrid!ToolsInit
<1>2. DOMAIN synonyms = {}
  BY <1>1
<1> QED
  BY <1>1, <1>2, UntrainedCounts DEF ToolsInv

\* What a corpus teaches.
LEMMA Taught ==
  ASSUME NEW corpus \in Corpora
  PROVE  Counts(Hybrid!Learned(corpus))
<1>1. Len(corpus) \in Nat /\ DOMAIN corpus = 1 .. Len(corpus)
  BY ToolsAssumption
<1>2. ASSUME NEW w \in Vocabulary
      PROVE  /\ Hybrid!Cardinality(Hybrid!Having(corpus, w)) \in Nat
             /\ Hybrid!Cardinality(Hybrid!Having(corpus, w)) <= Len(corpus)
  <2> DEFINE H == Hybrid!Having(corpus, w)
  <2>1. H \subseteq 1 .. Len(corpus)
    BY <1>1 DEF Hybrid!Having
  <2>2. IsFiniteSet(1 .. Len(corpus)) /\ Cardinality(1 .. Len(corpus)) = Len(corpus)
    <3>1. /\ IsFiniteSet(1 .. Len(corpus))
          /\ Cardinality(1 .. Len(corpus)) = IF 1 > Len(corpus) THEN 0 ELSE Len(corpus) - 1 + 1
      BY <1>1, FS_Interval
    <3> QED
      BY <1>1, <3>1
  <2> HIDE DEF H
  <2>3. IsFiniteSet(H) /\ Cardinality(H) <= Len(corpus)
    BY <2>1, <2>2, FS_Subset
  <2>4. Cardinality(H) \in Nat
    BY <2>3, FS_CardinalityType
  <2> QED
    BY <2>3, <2>4, SameCardinality DEF H
<1> QED
  BY <1>1, <1>2 DEF Counts, Hybrid!Learned

LEMMA ToolsStep == ToolsInv /\ [Hybrid!ToolsNext]_(Hybrid!toolVars) => ToolsInv'
<1> SUFFICES ASSUME ToolsInv, [Hybrid!ToolsNext]_(Hybrid!toolVars) PROVE ToolsInv'
  OBVIOUS
<1> USE DEF ToolsInv
<1>1. CASE UNCHANGED Hybrid!toolVars
  BY <1>1 DEF Hybrid!toolVars, Counts
<1>2. ASSUME NEW corpus \in Corpora, Hybrid!Train(corpus) PROVE ToolsInv'
  BY <1>2, Taught DEF Hybrid!Train, Counts
<1>3. CASE Hybrid!SaveKeywords
  <2>1. UNCHANGED <<extractor, synonyms>>
    BY <1>3 DEF Hybrid!SaveKeywords
  <2>2. CASE keyword_file' = Hybrid!Untrained
    BY <2>1, <2>2, UntrainedCounts DEF Counts
  <2>3. ASSUME NEW gone \in SUBSET Vocabulary,
               keyword_file' = [extractor EXCEPT !.document_frequency =
                                   [w \in Vocabulary |-> IF w \in gone THEN 0 ELSE @[w]]]
        PROVE  Counts(keyword_file')
    <3>1. /\ extractor.document_frequency \in [Vocabulary -> Nat] /\ extractor.total_documents \in Nat
          /\ \A w \in Vocabulary : extractor.document_frequency[w] <= extractor.total_documents
      BY DEF Counts
    <3>2. /\ keyword_file'.total_documents = extractor.total_documents
          /\ keyword_file'.document_frequency =
                 [w \in Vocabulary |-> IF w \in gone THEN 0 ELSE extractor.document_frequency[w]]
      BY <2>3 DEF Counts
    <3>3. keyword_file' \in [document_frequency : [Vocabulary -> Nat], total_documents : Nat, trained : BOOLEAN]
      BY <2>3, <3>1 DEF Counts
    <3> QED
      BY <3>1, <3>2, <3>3 DEF Counts
  <2> QED
    BY <1>3, <2>1, <2>2, <2>3 DEF Hybrid!SaveKeywords, Counts
<1>4. CASE Hybrid!LoadKeywords
  BY <1>4 DEF Hybrid!LoadKeywords, Counts
<1>5. ASSUME NEW w \in Vocabulary, NEW list \in Sentences, Hybrid!AddSynonym(w, list) PROVE ToolsInv'
  <2>1. Lower[w] \in Vocabulary /\ list \in Seq(Vocabulary)
    BY ToolsAssumption
  <2>2. /\ DOMAIN synonyms' = DOMAIN synonyms \cup {Lower[w]}
        /\ \A v \in DOMAIN synonyms' : synonyms'[v] = IF v = Lower[w] THEN list ELSE synonyms[v]
    BY <1>5 DEF Hybrid!AddSynonym
  <2> QED
    BY <1>5, <2>1, <2>2 DEF Hybrid!AddSynonym, Counts
<1>6. ASSUME NEW lines \in Dictionaries, Hybrid!LoadSynonyms(lines) PROVE ToolsInv'
  <2> DEFINE Of(v) == Hybrid!LinesOf(lines, v)
  <2> DEFINE last(v) == Hybrid!Max(Of(v))
  <2>1. lines \in Seq(Seq(Vocabulary))
    BY ToolsAssumption
  <2>2. /\ DOMAIN synonyms' = DOMAIN synonyms \cup {v \in Vocabulary : Of(v) # {}}
        /\ \A v \in DOMAIN synonyms' : synonyms'[v] = IF Of(v) # {} THEN Hybrid!Synonyms(lines[last(v)])
                                                                    ELSE synonyms[v]
    BY <1>6 DEF Hybrid!LoadSynonyms
  <2>3. ASSUME NEW v, Of(v) # {} PROVE Hybrid!Synonyms(lines[last(v)]) \in Seq(Vocabulary)
    <3>1. Of(v) \in SUBSET (1 .. Len(lines)) /\ Len(lines) \in Nat
      BY <2>1 DEF Hybrid!LinesOf
    <3>2. last(v) \in Of(v)
      <4>1. \E m \in Of(v) : \A k \in Of(v) : k <= m
        BY <2>3, <3>1, Greatest
      <4>2. \E m \in Of(v) : \A k \in Of(v) : m >= k
        BY <3>1, <4>1
      <4> HIDE DEF Of
      <4> QED
        BY <4>2 DEF Hybrid!Max
    <3> DEFINE line == lines[last(v)]
    <3>3. line \in Seq(Vocabulary) /\ Len(line) > 1
      BY <2>1, <3>1, <3>2 DEF Hybrid!LinesOf
    <3> HIDE DEF line
    <3>4. ASSUME NEW n \in 1 .. Len(line) - 1 PROVE Lower[line[n + 1]] \in Vocabulary
      BY <3>3, ToolsAssumption
    <3>5. Hybrid!Synonyms(line) \in Seq(Vocabulary)
      <4>1. Len(line) - 1 \in Nat
        BY <3>3
      <4>2. Hybrid!Synonyms(line) \in [1 .. Len(line) - 1 -> Vocabulary]
        BY <3>4 DEF Hybrid!Synonyms
      <4> QED
        BY <4>1, <4>2
    <3> QED
      BY <3>5 DEF line
  <2>4. UNCHANGED <<extractor, keyword_file>>
    BY <1>6 DEF Hybrid!LoadSynonyms
  <2> HIDE DEF Of, last
  <2> QED
    BY <2>2, <2>3, <2>4 DEF Counts
<1> QED
  BY <1>1, <1>2, <1>3, <1>4, <1>5, <1>6 DEF Hybrid!ToolsNext

\* No word of what was put together is missing in the whole.
LEMMA Flattened ==
  ASSUME NEW S, NEW parts \in Seq(Seq(S))
  PROVE  /\ Hybrid!FlattenSeq(parts) \in Seq(S)
         /\ \A i \in 1 .. Len(parts) : Hybrid!Range(parts[i]) \subseteq Hybrid!Range(Hybrid!FlattenSeq(parts))
<1> DEFINE n == Len(parts)
<1> DEFINE body(f) == [i \in 1 .. Len(parts) |-> IF i = 1 THEN parts[i] ELSE f[i - 1] \o parts[i]]
<1>1. n \in Nat /\ \A i \in 1 .. n : parts[i] \in Seq(S)
  OBVIOUS
<1>2. CASE n = 0
  <2>1. parts = <<>>
    BY <1>2
  <2>2. Hybrid!FlattenSeq(parts) = parts
    BY <1>2, Zenon DEF Hybrid!FlattenSeq
  <2>3. <<>> \in Seq(S)
    OBVIOUS
  <2>4. \A i \in 1 .. Len(parts) : FALSE
    BY <1>2
  <2> QED
    BY <2>1, <2>2, <2>3, <2>4
<1>3. CASE n # 0
  <2>1. \E f : f = body(f)
    <3> DEFINE step == [i \in 1 .. n |-> [q \in Seq(S) |-> q \o parts[i]]]
    <3>1. step \in [1 .. n -> [Seq(S) -> Seq(S)]]
      BY <1>1
    <3>2. <<>> \in Seq(S)
      OBVIOUS
    <3>3. \E f : Run(n, Seq(S), <<>>, step, f)
      <4> HIDE DEF step, n
      <4> QED
        BY <1>1, <3>1, <3>2, Recursion
    <3>4. PICK f : Run(n, Seq(S), <<>>, step, f)
      BY <3>3
    <3> DEFINE g == [i \in 1 .. n |-> f[i]]
    <3>5. ASSUME NEW i \in 1 .. n PROVE f[i] = f[i - 1] \o parts[i] /\ f[i - 1] \in Seq(S)
      <4>1. i - 1 \in 0 .. n
        OBVIOUS
      <4>2. f[i - 1] \in Seq(S) /\ f[i] = step[i][f[i - 1]]
        <5> HIDE DEF n, step
        <5> QED
          BY <3>4, <4>1 DEF Run
      <4>3. \A q \in Seq(S) : step[i][q] = q \o parts[i]
        OBVIOUS
      <4> HIDE DEF n, step
      <4> QED
        BY <4>2, <4>3
    <3>6. f[0] = <<>>
      BY <3>4 DEF Run
    <3>7. ASSUME NEW i \in 1 .. n PROVE g[i] = IF i = 1 THEN parts[i] ELSE g[i - 1] \o parts[i]
      <4>1. g[i] = f[i] /\ (i # 1 => g[i - 1] = f[i - 1])
        OBVIOUS
      <4>2. i = 1 => f[i] = <<>> \o parts[i]
        <5>1. i = 1 => i - 1 = 0
          OBVIOUS
        <5> HIDE DEF n, g
        <5> QED
          BY <3>5, <3>6, <5>1
      <4>3. <<>> \o parts[i] = parts[i]
        BY <1>1
      <4> HIDE DEF g
      <4> QED
        BY <3>5, <4>1, <4>2, <4>3
    <3>8. g = body(g)
      BY <3>7
    <3> HIDE DEF g, body
    <3> QED
      BY <3>8
  <2> DEFINE flat == CHOOSE f : f = body(f)
  <2>2. flat = body(flat)
    <3> HIDE DEF body
    <3> QED
      BY <2>1
  <2>3. Hybrid!FlattenSeq(parts) = flat[Len(parts)]
    BY <1>3, Zenon DEF Hybrid!FlattenSeq
  <2> HIDE DEF flat
  <2>4. ASSUME NEW i \in 1 .. n PROVE flat[i] = IF i = 1 THEN parts[i] ELSE flat[i - 1] \o parts[i]
    <3>1. \A j \in 1 .. Len(parts) : flat[j] = body(flat)[j]
      <4> HIDE DEF body
      <4> QED
        BY <2>2
    <3> QED
      BY <3>1
  <2> DEFINE G == {i \in 0 .. n : i = 0 \/ /\ flat[i] \in Seq(S)
                                           /\ \A j \in 1 .. i : Hybrid!Range(parts[j]) \subseteq Hybrid!Range(flat[i])}
  <2>5. 0 \in G
    OBVIOUS
  <2>6. ASSUME NEW i \in 1 .. n, i - 1 \in G PROVE i \in G
    <3>1. CASE i = 1
      <4>1. flat[i] = parts[i] /\ parts[i] \in Seq(S)
        BY <1>1, <2>4, <3>1
      <4>2. \A j \in 1 .. i : j = i
        BY <3>1
      <4> HIDE DEF n
      <4> QED
        BY <4>1, <4>2
    <3>2. CASE i # 1
      <4> DEFINE a == flat[i - 1]
      <4> DEFINE b == parts[i]
      <4>1. a \in Seq(S) /\ \A j \in 1 .. i - 1 : Hybrid!Range(parts[j]) \subseteq Hybrid!Range(a)
        BY <2>6, <3>2
      <4>2. b \in Seq(S) /\ flat[i] = a \o b
        BY <1>1, <2>4, <3>2
      <4> HIDE DEF a
      <4>3. /\ a \o b \in Seq(S) /\ Hybrid!Range(a) \subseteq Hybrid!Range(a \o b)
            /\ Hybrid!Range(b) \subseteq Hybrid!Range(a \o b)
        <5> HIDE DEF b
        <5>1. a \o b \in Seq(S)
          BY <4>1, <4>2
        <5>2. /\ DOMAIN a = 1 .. Len(a) /\ DOMAIN b = 1 .. Len(b) /\ DOMAIN (a \o b) = 1 .. Len(a) + Len(b)
              /\ Len(a) \in Nat /\ Len(b) \in Nat
          BY <4>1, <4>2
        <5>3. \A k \in DOMAIN a : k \in DOMAIN (a \o b) /\ (a \o b)[k] = a[k]
          BY <4>1, <4>2, <5>2
        <5>4. \A k \in DOMAIN b : Len(a) + k \in DOMAIN (a \o b) /\ (a \o b)[Len(a) + k] = b[k]
          BY <4>1, <4>2, <5>2
        <5> HIDE <4>1, <4>2
        <5> QED
          BY <5>1, <5>3, <5>4 DEF Hybrid!Range
      <4>4. \A j \in 1 .. i : j = i \/ j \in 1 .. i - 1
        OBVIOUS
      <4>5. flat[i] \in Seq(S) /\ \A j \in 1 .. i : Hybrid!Range(parts[j]) \subseteq Hybrid!Range(flat[i])
        BY <4>1, <4>2, <4>3, <4>4
      <4> QED
        BY <4>5
    <3> QED
      BY <3>1, <3>2
  <2> HIDE DEF G, n
  <2>7. \A i \in 0 .. n : i \in G
    BY ONLY <1>1, <2>5, <2>6, Interval
  <2>8. n \in G
    BY <1>1, <2>7
  <2> QED
    BY <1>3, <2>3, <2>8 DEF G, n
<1> QED
  BY <1>2, <1>3

\* What is looked at of a text whose words are among those of another.
LEMMA MoreStems ==
  ASSUME NEW a, NEW b, Hybrid!Range(a) \subseteq Hybrid!Range(b)
  PROVE  Hybrid!Stems(a) \subseteq Hybrid!Stems(b)
BY DEF Hybrid!Stems, Hybrid!Spoken

LEMMA ExpansionIs ==
  ASSUME ToolsInv, NEW w \in Vocabulary
  PROVE  Hybrid!Expansion(w) \in Seq(Vocabulary)
<1> DEFINE all == IF Lower[w] \in DOMAIN synonyms THEN synonyms[Lower[w]] ELSE <<>>
<1> DEFINE k == IF Len(all) < max_expansions THEN Len(all) ELSE max_expansions
<1>1. all \in Seq(Vocabulary)
  BY DEF ToolsInv
<1>2. Hybrid!Expansion(w) = SubSeq(all, 1, k)
  BY DEF Hybrid!Expansion
<1> HIDE DEF all
<1>3. k \in 0 .. Len(all)
  BY <1>1, ToolsAssumption
<1> HIDE DEF k
<1>4. SubSeq(all, 1, k) \in Seq(Vocabulary)
  BY <1>1, <1>3
<1> QED
  BY <1>2, <1>4

LEMMA BesideIs ==
  ASSUME ToolsInv, NEW w \in Vocabulary
  PROVE  /\ Hybrid!Beside(w) \in Seq(Vocabulary)
         /\ w \in Hybrid!Range(Hybrid!Beside(w))
         /\ Hybrid!Range(Hybrid!Expansion(w)) \subseteq Hybrid!Range(Hybrid!Beside(w))
<1> DEFINE a == <<w>>
<1> DEFINE b == IF Stem[Lower[w]] = Lower[w] THEN <<>> ELSE <<Stem[Lower[w]]>>
<1> DEFINE c == Hybrid!Expansion(w)
<1>1. a \in Seq(Vocabulary) /\ Len(a) = 1 /\ a[1] = w
  OBVIOUS
<1>2. b \in Seq(Vocabulary)
  BY ToolsAssumption
<1>3. c \in Seq(Vocabulary)
  BY ExpansionIs
<1>4. Hybrid!Beside(w) = a \o b \o c
  BY DEF Hybrid!Beside
<1> HIDE DEF a, b, c
<1> DEFINE d == a \o b
<1>5. d \in Seq(Vocabulary) /\ Len(d) \in Nat /\ 1 \in 1 .. Len(d) /\ d[1] = w
  <2>1. Len(a) = 1 /\ a \in Seq(Vocabulary) /\ Len(b) \in Nat
    BY <1>1, <1>2
  <2>2. d \in Seq(Vocabulary) /\ Len(d) = 1 + Len(b) /\ d[1] = a[1]
    <3>1. /\ a \o b \in Seq(Vocabulary) /\ Len(a \o b) = Len(a) + Len(b)
          /\ \A i \in 1 .. Len(a) + Len(b) : (a \o b)[i] = IF i <= Len(a) THEN a[i] ELSE b[i - Len(a)]
      BY <1>1, <1>2, ConcatProperties
    <3>2. 1 \in 1 .. Len(a) + Len(b) /\ 1 <= Len(a)
      BY <2>1
    <3> QED
      BY <2>1, <3>1, <3>2
  <2> HIDE DEF d
  <2> QED
    BY <1>1, <2>1, <2>2
<1> HIDE DEF d
<1> DEFINE e == d \o c
<1>6. e \in Seq(Vocabulary) /\ 1 \in DOMAIN e /\ e[1] = w
  BY <1>3, <1>5
<1>7. \A k \in DOMAIN c : Len(d) + k \in DOMAIN e /\ e[Len(d) + k] = c[k]
  BY <1>3, <1>5
<1>8. Hybrid!Beside(w) = e
  BY <1>4 DEF d
<1> HIDE DEF e
<1>9. w \in Hybrid!Range(e) /\ Hybrid!Range(c) \subseteq Hybrid!Range(e)
  BY <1>6, <1>7 DEF Hybrid!Range
<1> QED
  BY <1>6, <1>8, <1>9 DEF c

LEMMA ToolsAnswer == ToolsInv => Hybrid!WordsAreWeighed /\ Hybrid!RewritingFindsMore
<1> SUFFICES ASSUME ToolsInv PROVE Hybrid!WordsAreWeighed /\ Hybrid!RewritingFindsMore
  OBVIOUS
<1>1. Hybrid!WordsAreWeighed
  <2> SUFFICES ASSUME NEW text \in Sentences, NEW k \in Hybrid!Keywords(extractor, text), k.rarity # <<>>
               PROVE  k.rarity[1] <= k.rarity[2]
    BY DEF Hybrid!WordsAreWeighed
  <2>1. Hybrid!Spoken(text) \subseteq Vocabulary
    <3>1. text \in Seq(Vocabulary)
      BY ToolsAssumption
    <3>2. \A n \in DOMAIN text : text[n] \in Vocabulary
      BY <3>1
    <3>3. \A n \in DOMAIN text : Lower[text[n]] \in Vocabulary
      BY <3>2, ToolsAssumption
    <3> QED
      BY <3>3 DEF Hybrid!Spoken, Hybrid!Range
  <2>2. PICK w \in Hybrid!Spoken(text) :
            k.rarity = IF extractor.trained /\ extractor.document_frequency[w] > 0
                       THEN <<extractor.document_frequency[w], extractor.total_documents>> ELSE <<>>
    <3> DEFINE weighed(v) == extractor.trained /\ extractor.document_frequency[v] > 0
    <3> DEFINE rarity(v) == IF weighed(v) THEN <<extractor.document_frequency[v], extractor.total_documents>> ELSE <<>>
    <3>1. PICK w \in Hybrid!Spoken(text) :
              \E c, m : k = [term |-> w, frequency |-> c, first |-> m, rarity |-> rarity(w)]
      BY Zenon DEF Hybrid!Keywords
    <3> HIDE DEF rarity
    <3>2. k.rarity = rarity(w)
      BY <3>1
    <3> QED
      BY <3>2 DEF rarity
  <2>3. k.rarity = <<extractor.document_frequency[w], extractor.total_documents>>
    BY <2>2
  <2>4. extractor.document_frequency[w] <= extractor.total_documents
    BY <2>1 DEF ToolsInv, Counts
  <2> QED
    BY <2>3, <2>4
<1>2. Hybrid!RewritingFindsMore
  <2> SUFFICES ASSUME NEW query \in Sentences
               PROVE  /\ Hybrid!Stems(query) \subseteq Hybrid!Stems(Hybrid!Rewritten(query))
                      /\ \A w \in Hybrid!Range(query) :
                             Hybrid!Stems(Hybrid!Expansion(w)) \subseteq Hybrid!Stems(Hybrid!Rewritten(query))
    BY DEF Hybrid!RewritingFindsMore
  <2> DEFINE parts == [n \in DOMAIN query |-> Hybrid!Beside(query[n])]
  <2>1. query \in Seq(Vocabulary) /\ DOMAIN query = 1 .. Len(query) /\ Len(query) \in Nat
    BY ToolsAssumption
  <2>2. \A n \in 1 .. Len(query) : query[n] \in Vocabulary
    BY <2>1
  <2>3. parts \in Seq(Seq(Vocabulary)) /\ Len(parts) = Len(query)
    <3>1. parts \in [1 .. Len(query) -> Seq(Vocabulary)]
      BY <2>1, <2>2, BesideIs
    <3> HIDE DEF parts
    <3> QED
      BY <2>1, <3>1, LenOfFunction
  <2>4. Hybrid!Rewritten(query) = Hybrid!FlattenSeq(parts)
    BY DEF Hybrid!Rewritten
  <2>5. ASSUME NEW n \in 1 .. Len(query)
        PROVE  /\ query[n] \in Hybrid!Range(Hybrid!Rewritten(query))
               /\ Hybrid!Range(Hybrid!Expansion(query[n])) \subseteq Hybrid!Range(Hybrid!Rewritten(query))
    <3>1. parts[n] = Hybrid!Beside(query[n])
      BY <2>1
    <3> HIDE DEF parts
    <3>2. Hybrid!Range(parts[n]) \subseteq Hybrid!Range(Hybrid!Rewritten(query))
      BY <2>3, <2>4, Flattened
    <3> QED
      BY <2>2, <3>1, <3>2, BesideIs
  <2> HIDE DEF parts
  <2>6. Hybrid!Range(query) \subseteq Hybrid!Range(Hybrid!Rewritten(query))
    BY <2>1, <2>5 DEF Hybrid!Range
  <2>7. \A w \in Hybrid!Range(query) :
            Hybrid!Range(Hybrid!Expansion(w)) \subseteq Hybrid!Range(Hybrid!Rewritten(query))
    <3> SUFFICES ASSUME NEW w \in Hybrid!Range(query)
                 PROVE  Hybrid!Range(Hybrid!Expansion(w)) \subseteq Hybrid!Range(Hybrid!Rewritten(query))
      OBVIOUS
    <3>1. PICK n \in 1 .. Len(query) : w = query[n]
      BY <2>1 DEF Hybrid!Range
    <3> QED
      BY <2>5, <3>1
  <2> QED
    BY <2>6, <2>7, MoreStems
<1> QED
  BY <1>1, <1>2

\* The text search: postings and counters are those of the documents, and the
\* tools' counts those of a corpus; a rewritten query finds what the query finds.
THEOREM EngineMirrors == StoresSpec => []IndexesMirror
<1>1. (instance = "bm25" => EngineInv) /\ (instance = "tools" => ToolsInv) => IndexesMirror
  BY EngineAnswers, ToolsAnswer DEF IndexesMirror
<1>2. Hybrid!EngineSpec => []EngineInv
  BY EngineStarts, EngineSteps, PTL DEF Hybrid!EngineSpec
<1>3. Hybrid!ToolsSpec => []ToolsInv
  BY ToolsStart, ToolsStep, PTL DEF Hybrid!ToolsSpec
<1>4. StoresSpec => [](instance = "bm25" => EngineInv)
  <2>1. ~(instance = "bm25") /\ [FALSE]_instance => ~(instance = "bm25")'
    OBVIOUS
  <2> QED
    BY <1>2, <2>1, PTL DEF StoresSpec
<1>5. StoresSpec => [](instance = "tools" => ToolsInv)
  <2>1. ~(instance = "tools") /\ [FALSE]_instance => ~(instance = "tools")'
    OBVIOUS
  <2> QED
    BY <1>3, <2>1, PTL DEF StoresSpec
<1> QED
  BY <1>1, <1>4, <1>5, PTL

------------------------------------------------------------------------------
(* Telemetry.                                                              *)

Spans == [trace : Int, parent : Int \cup {None}, sampled : BOOLEAN, fate : {"open", "ended", "dropped"}]

\* Spans and their owners have their types, and agree.
SpanInv == /\ spans \in Seq(Spans)
           /\ objects \in [Objects -> (1 .. Len(spans)) \cup {None}]
           /\ Traces!TracesAreTrees /\ Traces!OneOwner

\* What a span may begin under: nothing, a header cut short, or a span that is
\* there, whose sampling it does not turn on.
Context(c) == \/ c = Traces!Root
              \/ c = [trace |-> 0, span |-> 0, sampled |-> TRUE]
              \/ \E s \in DOMAIN spans, b \in BOOLEAN : /\ c = [trace |-> spans[s].trace, span |-> s, sampled |-> b]
                                                        /\ b => spans[s].sampled

LEMMA HeadersRead ==
  ASSUME SpanInv, NEW s \in DOMAIN spans, NEW h \in Traces!Received(s)
  PROVE  Context(Traces!FromTraceparent(h))
<1> DEFINE t == spans[s].trace
           flag == IF spans[s].sampled THEN 1 ELSE 0
           full == <<0, t, s, flag>>
<1>1. Traces!ToTraceparent(Traces!Context(s)) = full
  BY DEF Traces!ToTraceparent, Traces!Context, Traces!Yes, Traces!No
<1>2. spans[s] \in Spans /\ s \in Int
  BY DEF SpanInv
<1>3. spans[s].sampled \in BOOLEAN /\ t \in Int /\ flag \in {0, 1} /\ (flag = 1 => spans[s].sampled)
  BY <1>2 DEF Spans
<1>4. \/ h = full \/ h = [full EXCEPT ![4] = 0] \/ h = Append(full, 0) \/ h = SubSeq(full, 1, 3)
  BY <1>1 DEF Traces!Received, Traces!No
<1>5. full \in Seq(Int) /\ Len(full) = 4 /\ full[2] = t /\ full[3] = s /\ full[4] = flag
  <2> HIDE DEF t, flag
  <2> QED
    BY <1>2, <1>3
<1> HIDE DEF full, flag, t
<1>6. CASE h # SubSeq(full, 1, 3)
  <2> DEFINE b == Len(h) = 4 /\ h[4] = 1
  <2>1. (Len(h) = 4 \/ Len(h) = 5) /\ h[2] = t /\ h[3] = s /\ (Len(h) = 4 => h[4] \in {0, flag})
    <3>1. Len(full) = 4 /\ DOMAIN full = 1 .. 4
      BY <1>5
    <3>2. CASE h = Append(full, 0)
      <4>1. full \in Seq(Int) /\ 0 \in Int /\ 2 \in 1 .. Len(full) /\ 3 \in 1 .. Len(full)
        BY <1>5
      <4>2. /\ Len(Append(full, 0)) = Len(full) + 1
            /\ \A j \in 1 .. Len(full) : Append(full, 0)[j] = full[j]
        BY ONLY <4>1, AppendProperties
      <4> QED
        BY <1>5, <3>2, <4>1, <4>2
    <3>3. CASE h = [full EXCEPT ![4] = 0]
      BY <1>5, <3>1, <3>3
    <3>4. CASE h = full
      BY <1>5, <3>4
    <3> QED
      BY <1>4, <1>6, <3>2, <3>3, <3>4
  <2>2. Traces!FromTraceparent(h) = [trace |-> t, span |-> s, sampled |-> b]
    <3>1. ~(Len(h) < 4)
      BY <2>1, SMTT(60)
    <3>2. Traces!FromTraceparent(h) = [trace |-> h[2], span |-> h[3], sampled |-> b]
      BY <3>1, Zenon DEF Traces!FromTraceparent, Traces!Yes
    <3> HIDE DEF b
    <3> QED
      BY <2>1, <3>2
  <2>3. b \in BOOLEAN /\ (b => spans[s].sampled)
    <3>1. b \in BOOLEAN
      BY Zenon
    <3>2. b => spans[s].sampled
      BY <1>3, <2>1
    <3> QED
      BY <3>1, <3>2
  <2> HIDE DEF b
  <2> QED
    BY <2>2, <2>3 DEF Context, t
<1>9. CASE h = SubSeq(full, 1, 3)
  <2>1. Len(h) = 3
    BY <1>5, <1>9
  <2>2. Traces!FromTraceparent(h) = [trace |-> 0, span |-> 0, sampled |-> TRUE]
    BY <2>1 DEF Traces!FromTraceparent, Traces!Empty
  <2> QED
    BY <2>2 DEF Context
<1> QED
  BY <1>6, <1>9

LEMMA SpanBegins ==
  ASSUME SpanInv, NEW o \in Objects, NEW c, Context(c), Traces!StartSpan(o, c)
  PROVE  SpanInv'
<1> DEFINE new == Traces!Begun(c)
           n == Len(spans) + 1
<1> USE DEF SpanInv
<1>1. new = [trace |-> c.trace, parent |-> c.span, sampled |-> c.sampled, fate |-> "open"]
  BY DEF Traces!Begun
<1>2. \A s \in DOMAIN spans : spans[s] \in Spans
  OBVIOUS
<1>3. /\ new \in Spans /\ new.fate = "open"
      /\ CASE new.parent = None -> new.trace = n
           [] new.parent = 0 -> new.trace = 0
           [] OTHER -> /\ new.parent \in 1 .. n - 1
                       /\ new.trace = spans[new.parent].trace
                       /\ new.sampled => spans[new.parent].sampled
  <2>1. CASE c = Traces!Root
    <3>1. new = [trace |-> n, parent |-> None, sampled |-> TRUE, fate |-> "open"]
      BY <1>1, <2>1 DEF Traces!Root
    <3>2. n \in Int
      OBVIOUS
    <3> HIDE DEF new, n
    <3>3. new \in Spans /\ new.fate = "open" /\ new.parent = None /\ new.trace = n
      BY <3>1, <3>2 DEF Spans
    <3>4. None # 0
      BY NoneAssumption
    <3> QED
      BY <3>3, <3>4
  <2>2. CASE c = [trace |-> 0, span |-> 0, sampled |-> TRUE]
    <3>1. new = [trace |-> 0, parent |-> 0, sampled |-> TRUE, fate |-> "open"]
      BY <1>1, <2>2
    <3>2. None # 0
      BY NoneAssumption
    <3> QED
      BY <3>1, <3>2 DEF Spans
  <2>3. ASSUME NEW s \in DOMAIN spans, NEW b \in BOOLEAN, c = [trace |-> spans[s].trace, span |-> s, sampled |-> b],
               b => spans[s].sampled
        PROVE  <1>3
    <3>1. new = [trace |-> spans[s].trace, parent |-> s, sampled |-> b, fate |-> "open"]
      BY <1>1, <2>3
    <3>2. s \in 1 .. n - 1 /\ s # None /\ s # 0 /\ s \in Int
      BY NoneAssumption
    <3>3. spans[s].trace \in Int
      BY <1>2 DEF Spans
    <3>4. /\ new.trace = spans[s].trace /\ new.parent = s /\ new.sampled = b /\ new.fate = "open"
          /\ new \in Spans
      BY <3>1, <3>2, <3>3 DEF Spans
    <3>5. new.sampled => spans[new.parent].sampled
      BY <2>3, <3>4
    <3> HIDE DEF new, n
    <3> QED
      BY <3>2, <3>4, <3>5
  <2> QED
    BY <2>1, <2>2, <2>3 DEF Context
<1>4. /\ spans' = Append(spans, new) /\ objects' = [objects EXCEPT ![o] = n] /\ objects[o] = None
  BY DEF Traces!StartSpan
<1> HIDE DEF new
<1>5. /\ spans' \in Seq(Spans) /\ Len(spans') = n /\ spans'[n] = new
      /\ \A s \in 1 .. Len(spans) : spans'[s] = spans[s]
      /\ DOMAIN spans' = 1 .. n /\ DOMAIN spans = 1 .. n - 1
  BY <1>3, <1>4
<1>6. objects' \in [Objects -> 1 .. n \cup {None}]
  BY <1>4
<1>7. Traces!TracesAreTrees'
  <2> SUFFICES ASSUME NEW s \in 1 .. n
               PROVE  CASE spans'[s].parent = None -> spans'[s].trace = s
                        [] spans'[s].parent = 0 -> spans'[s].trace = 0
                        [] OTHER -> /\ spans'[s].parent \in 1 .. s - 1
                                    /\ spans'[s].trace = spans'[spans'[s].parent].trace
                                    /\ spans'[s].sampled => spans'[spans'[s].parent].sampled
    BY <1>5 DEF Traces!TracesAreTrees, Traces!Empty
  <2>1. CASE s = n
    BY <1>3, <1>5, <2>1
  <2>2. CASE s # n
    BY <1>5, <2>2 DEF Traces!TracesAreTrees, Traces!Empty
  <2> QED
    BY <2>1, <2>2
<1>8. Traces!OneOwner'
  <2>1. \A q \in Objects : /\ objects'[q] = (IF q = o THEN n ELSE objects[q])
                           /\ objects[q] # n
    BY <1>4, NoneAssumption
  <2>2. \A s \in 1 .. n : /\ spans'[s].fate # "ended twice"
                          /\ spans'[s].fate = "open" <=> \E q \in Objects : objects'[q] = s
    <3> SUFFICES ASSUME NEW s \in 1 .. n
                 PROVE  /\ spans'[s].fate # "ended twice"
                        /\ spans'[s].fate = "open" <=> \E q \in Objects : objects'[q] = s
      OBVIOUS
    <3>1. CASE s = n
      BY <1>3, <1>5, <2>1, <3>1
    <3>2. CASE s # n
      <4>1. s \in DOMAIN spans /\ spans'[s] = spans[s] /\ s # None /\ objects[o] # s
        BY <1>4, <1>5, <3>2, NoneAssumption
      <4>2. /\ spans[s].fate # "ended twice"
            /\ spans[s].fate = "open" <=> \E q \in Objects : objects[q] = s
        BY <4>1 DEF Traces!OneOwner
      <4> HIDE DEF n
      <4>3. \A q \in Objects : objects'[q] = s <=> objects[q] = s
        BY <2>1, <3>2, <4>1
      <4> QED
        BY <4>1, <4>2, <4>3
    <3> QED
      BY <3>1, <3>2
  <2>3. \A q, p \in Objects : objects'[q] = objects'[p] /\ objects'[q] # None => q = p
    BY <2>1 DEF Traces!OneOwner
  <2>4. DOMAIN spans' = 1 .. n
    BY <1>5
  <2>5. \A s \in DOMAIN spans' : /\ spans'[s].fate # "ended twice"
                                 /\ spans'[s].fate = "open" <=> \E q \in Objects : objects'[q] = s
    <3> HIDE DEF n
    <3> QED
      BY <2>2, <2>4, Zenon
  <2> QED
    BY ONLY <2>3, <2>5 DEF Traces!OneOwner
<1> QED
  BY <1>5, <1>6, <1>7, <1>8

\* A span whose end or loss is noted keeps what it is part of.
LEMMA FateKeepsTrees ==
  ASSUME SpanInv, NEW s \in DOMAIN spans, NEW fate \in {"ended", "dropped"},
         spans' = [spans EXCEPT ![s].fate = fate]
  PROVE  /\ spans' \in Seq(Spans) /\ Len(spans') = Len(spans) /\ Traces!TracesAreTrees'
         /\ \A q \in DOMAIN spans : spans'[q].fate = IF q = s THEN fate ELSE spans[q].fate
<1> USE DEF SpanInv
<1>1. \A q \in DOMAIN spans : spans[q] \in Spans
  OBVIOUS
<1>2. /\ DOMAIN spans' = DOMAIN spans /\ spans' \in Seq(Spans) /\ Len(spans') = Len(spans)
  <2>1. [spans[s] EXCEPT !.fate = fate] \in Spans
    BY <1>1 DEF Spans
  <2>2. spans' = [spans EXCEPT ![s] = [spans[s] EXCEPT !.fate = fate]]
    OBVIOUS
  <2> QED
    BY <2>1, <2>2
<1>3. \A q \in DOMAIN spans : /\ spans'[q].parent = spans[q].parent /\ spans'[q].trace = spans[q].trace
                              /\ spans'[q].sampled = spans[q].sampled
                              /\ spans'[q].fate = IF q = s THEN fate ELSE spans[q].fate
  BY <1>1 DEF Spans
<1>4. Traces!TracesAreTrees'
  <2> SUFFICES ASSUME NEW q \in DOMAIN spans
               PROVE  CASE spans'[q].parent = None -> spans'[q].trace = q
                        [] spans'[q].parent = 0 -> spans'[q].trace = 0
                        [] OTHER -> /\ spans'[q].parent \in 1 .. q - 1
                                    /\ spans'[q].trace = spans'[spans'[q].parent].trace
                                    /\ spans'[q].sampled => spans'[spans'[q].parent].sampled
    BY <1>2 DEF Traces!TracesAreTrees, Traces!Empty
  <2>1. 1 .. q - 1 \subseteq DOMAIN spans
    OBVIOUS
  <2> QED
    BY <1>3, <2>1 DEF Traces!TracesAreTrees, Traces!Empty
<1> QED
  BY <1>2, <1>3, <1>4

\* With one owner the last span of another is no one's, and what is moved has one.
LEMMA OwnersLess ==
  ASSUME SpanInv, NEW o \in Objects, objects[o] \in DOMAIN spans, objects' = [objects EXCEPT ![o] = None],
         DOMAIN spans' = DOMAIN spans,
         \A q \in DOMAIN spans : spans'[q].fate = IF q = objects[o] THEN "ended" ELSE spans[q].fate
  PROVE  Traces!OneOwner'
<1>1. \A q \in Objects : objects'[q] = IF q = o THEN None ELSE objects[q]
  BY DEF SpanInv
<1>2. ASSUME NEW s \in DOMAIN spans
      PROVE  /\ spans'[s].fate # "ended twice"
             /\ spans'[s].fate = "open" <=> \E q \in Objects : objects'[q] = s
  <2>1. s # None
    BY NoneAssumption DEF SpanInv
  <2>2. CASE s = objects[o]
    BY <1>1, <2>1, <2>2, ZenonT(60) DEF SpanInv, Traces!OneOwner
  <2>3. CASE s # objects[o]
    BY <1>1, <2>1, <2>3 DEF SpanInv, Traces!OneOwner
  <2> QED
    BY <2>2, <2>3
<1>3. \A q, p \in Objects : objects'[q] = objects'[p] /\ objects'[q] # None => q = p
  BY <1>1 DEF SpanInv, Traces!OneOwner
<1> QED
  BY <1>2, <1>3 DEF Traces!OneOwner

LEMMA OwnersMove ==
  ASSUME SpanInv, NEW o \in Objects, NEW r \in Objects, o # r, objects[o] # None, objects[r] \in DOMAIN spans,
         objects' = [objects EXCEPT ![o] = None, ![r] = objects[o]], DOMAIN spans' = DOMAIN spans,
         \A q \in DOMAIN spans : spans'[q].fate = IF q = objects[r] THEN "dropped" ELSE spans[q].fate
  PROVE  Traces!OneOwner'
<1>1. \A q \in Objects : objects'[q] = IF q = o THEN None ELSE IF q = r THEN objects[o] ELSE objects[q]
  BY DEF SpanInv
<1>2. ASSUME NEW s \in DOMAIN spans
      PROVE  /\ spans'[s].fate # "ended twice"
             /\ spans'[s].fate = "open" <=> \E q \in Objects : objects'[q] = s
  <2>1. s # None
    BY NoneAssumption DEF SpanInv
  <2>2. CASE s = objects[r]
    BY <1>1, <2>1, <2>2 DEF SpanInv, Traces!OneOwner
  <2>3. CASE s # objects[r]
    BY <1>1, <2>1, <2>3, ZenonT(60) DEF SpanInv, Traces!OneOwner
  <2> QED
    BY <2>2, <2>3
<1>3. \A q, p \in Objects : objects'[q] = objects'[p] /\ objects'[q] # None => q = p
  <2>1. \A q, p \in Objects : objects[q] = objects[p] /\ objects[q] # None => q = p
    BY DEF SpanInv, Traces!OneOwner
  <2> QED
    BY <1>1, <2>1
<1> QED
  BY <1>2, <1>3 DEF Traces!OneOwner

LEMMA SpanSteps == SpanInv /\ [Traces!SpanNext]_(Traces!vars) => SpanInv'
<1> SUFFICES ASSUME SpanInv, [Traces!SpanNext]_(Traces!vars) PROVE SpanInv'
  OBVIOUS
<1>1. ASSUME NEW o \in Objects, Traces!StartRoot(o) PROVE SpanInv'
  BY <1>1, SpanBegins DEF Traces!StartRoot, Context
<1>2. ASSUME NEW o \in Objects, NEW p \in Objects, Traces!StartChild(o, p) PROVE SpanInv'
  <2>1. objects[p] \in DOMAIN spans /\ spans[objects[p]] \in Spans
    BY <1>2 DEF Traces!StartChild, SpanInv
  <2>2. Context(Traces!Context(objects[p]))
    BY <2>1 DEF Context, Traces!Context, Spans
  <2> QED
    BY <1>2, <2>2, SpanBegins DEF Traces!StartChild
<1>3. ASSUME NEW o \in Objects, NEW s \in DOMAIN spans, Traces!StartRemote(o, s) PROVE SpanInv'
  BY <1>3, HeadersRead, SpanBegins DEF Traces!StartRemote
<1>4. ASSUME NEW o \in Objects, Traces!End(o) PROVE SpanInv'
  <2> DEFINE s == objects[o]
  <2>1. s \in DOMAIN spans /\ spans[s].fate = "open" /\ objects' = [objects EXCEPT ![o] = None]
    <3>1. s \in DOMAIN spans
      <4>1. objects[o] # None /\ objects[o] \in 1 .. Len(spans) \cup {None}
        BY <1>4 DEF Traces!End, SpanInv
      <4> QED
        BY <4>1 DEF SpanInv
    <3> QED
      BY <1>4, <3>1 DEF Traces!End, SpanInv, Traces!OneOwner
  <2>2. spans' = [spans EXCEPT ![s].fate = "ended"]
    BY <1>4, <2>1 DEF Traces!End
  <2> HIDE DEF s
  <2>3. /\ spans' \in Seq(Spans) /\ Len(spans') = Len(spans) /\ Traces!TracesAreTrees'
        /\ \A q \in DOMAIN spans : spans'[q].fate = IF q = s THEN "ended" ELSE spans[q].fate
    BY <2>1, <2>2, FateKeepsTrees
  <2>4. Traces!OneOwner'
    <3>1. DOMAIN spans' = DOMAIN spans
      BY <2>3 DEF SpanInv
    <3> QED
      BY <2>1, <2>3, <3>1, OwnersLess DEF s
  <2> QED
    BY <2>1, <2>3, <2>4 DEF SpanInv
<1>5. ASSUME NEW o \in Objects, NEW p \in Objects, Traces!Move(o, p) PROVE SpanInv'
  <2>1. /\ objects[o] # None /\ o # p /\ objects' = [objects EXCEPT ![o] = None, ![p] = objects[o]]
        /\ spans' = IF objects[p] = None THEN spans ELSE [spans EXCEPT ![objects[p]].fate = "dropped"]
    BY <1>5 DEF Traces!Move
  <2>2. CASE objects[p] = None
    <3>1. spans' = spans /\ Traces!TracesAreTrees'
      BY <2>1, <2>2 DEF SpanInv, Traces!TracesAreTrees
    <3> QED
      BY <2>1, <2>2, <3>1 DEF SpanInv, Traces!OneOwner
  <2>3. CASE objects[p] # None
    <3> DEFINE s == objects[p]
    <3>1. s \in DOMAIN spans
      BY <2>3 DEF SpanInv
    <3>2. spans' = [spans EXCEPT ![s].fate = "dropped"]
      BY <2>1, <2>3
    <3> HIDE DEF s
    <3>3. /\ spans' \in Seq(Spans) /\ Len(spans') = Len(spans) /\ Traces!TracesAreTrees'
          /\ \A q \in DOMAIN spans : spans'[q].fate = IF q = s THEN "dropped" ELSE spans[q].fate
      BY <3>1, <3>2, FateKeepsTrees
    <3>4. Traces!OneOwner'
      BY <2>1, <2>3, <3>1, <3>3, OwnersMove DEF SpanInv, s
    <3> QED
      BY <2>1, <3>3, <3>4 DEF SpanInv
  <2> QED
    BY <2>2, <2>3
<1>6. CASE UNCHANGED Traces!vars
  BY <1>6 DEF Traces!vars, Traces!spanVars, SpanInv, Traces!TracesAreTrees, Traces!OneOwner
<1> QED
  BY <1>1, <1>2, <1>3, <1>4, <1>5, <1>6 DEF Traces!SpanNext

LEMMA SpanStarts == Traces!Init => SpanInv
  BY NoneAssumption DEF Traces!Init, SpanInv, Traces!TracesAreTrees, Traces!OneOwner

\* The meter decides, once, whether all is counted.
MetricInv == /\ otel \in BOOLEAN /\ inserted \in Nat /\ provider \in {"noop", "prometheus"}
             /\ meter \in {"unmade", "null", "noop", "prometheus"}
             /\ "prometheus" \in {provider, meter} => otel
             /\ meter = "unmade" => inserted = 0
             /\ counted = IF meter = "prometheus" THEN inserted ELSE 0

LEMMA MetricSteps == MetricInv /\ [Traces!MetricNext]_(Traces!vars) => MetricInv'
  BY DEF MetricInv, Traces!MetricNext, Traces!vars, Traces!metricVars, Traces!Initialize, Traces!Shutdown,
         Traces!RecordInsert, Traces!Meter

LEMMA MetricsStart == Traces!Init => MetricInv
  BY DEF Traces!Init, MetricInv

LEMMA MetricsAnswer == MetricInv => Traces!CountedAllOrNothing
  BY DEF MetricInv, Traces!CountedAllOrNothing

------------------------------------------------------------------------------
(* RestApi.                                                                *)

DocumentKeys == 1 .. MaxDocument
Registries == [Collections -> (SUBSET DocumentKeys) \cup {None}]
Labels == [DocumentKeys -> Collections \cup {None}]      \* the collection of each document
NoNames == [c \in Collections |-> None]
Labelled(docs) == {k \in DocumentKeys : docs[k] # None}

\* A registry tracks of each collection documents of its own,
OwnOnly(names, docs) ==
    \A c \in Collections : names[c] # None => \A k \in names[c] : docs[k] = c

\* all of them, and each is in the index.
OwnAll(names, docs, those) ==
    \A k \in DocumentKeys : docs[k] # None => names[docs[k]] # None /\ k \in names[docs[k]] /\ k \in those

ApiTypes ==
    /\ up \subseteq {1} /\ registry \in [{1} -> Registries] /\ registryFile \in Registries \cup {None}
    /\ apiIndexed \in [{1} -> SUBSET DocumentKeys] /\ nodes \in [{1} -> SUBSET DocumentKeys]
    /\ documents \in [{1} -> Labels] /\ next_id \in [{1} -> Nat \ {0}]
    /\ savedNodes \subseteq DocumentKeys /\ savedDocuments \in Labels
    /\ apiClean \in BOOLEAN /\ apiDeleted \in BOOLEAN /\ answered \subseteq Collections
    /\ apiIndexed[1] \subseteq nodes[1]

\* While no worker died and no save failed, the file is what the worker knows; it
\* fits the documents, those in memory or, with no worker, those in the files.
CleanInv ==
    apiClean =>
       /\ registryFile # None
       /\ \A c \in answered : registryFile[c] # None
       /\ 1 \in up => /\ registry[1] = registryFile /\ OwnOnly(registryFile, documents[1])
                      /\ OwnAll(registryFile, documents[1], apiIndexed[1])
       /\ 1 \notin up => /\ OwnOnly(registryFile, savedDocuments)
                         /\ OwnAll(registryFile, savedDocuments, savedNodes)

\* As long as nothing was deleted, the metadata in the file is all there ever was,
\* under ids without a gap, and the index has no other nodes.
KeptInv ==
    ~apiDeleted =>
       /\ registryFile # None => OwnOnly(registryFile, savedDocuments)
       /\ savedNodes \subseteq Labelled(savedDocuments)
       /\ \E n \in Nat : Labelled(savedDocuments) = 1 .. n
       /\ 1 \in up => /\ documents[1] = savedDocuments /\ OwnOnly(registry[1], savedDocuments)
                      /\ nodes[1] \subseteq Labelled(savedDocuments)
                      /\ Labelled(savedDocuments) = 1 .. next_id[1] - 1

ApiInv == ApiTypes /\ CleanInv /\ KeptInv

LEMMA NoNamesOwn == /\ NoNames \in Registries
                    /\ \A docs : OwnOnly(NoNames, docs)
<1>1. \A c \in Collections : NoNames[c] = None
  BY DEF NoNames
<1>2. \A docs : OwnOnly(NoNames, docs)
  BY <1>1 DEF OwnOnly
<1>3. NoNames \in Registries
  BY Zenon DEF NoNames, Registries
<1> QED
  BY <1>2, <1>3

\* None is no registry, no set of ids and no collection.
LEMMA NoneApart ==
  /\ \A names \in Registries : names # None
  /\ \A those \in SUBSET DocumentKeys : those # None
  /\ None \notin Collections
  BY FrontsAssumption DEF Registries, DocumentKeys

\* What the requests make of a registry and of the documents.
LEMMA NameAdded ==
  ASSUME NEW names \in Registries, NEW docs \in Labels, NEW c \in Collections, OwnOnly(names, docs)
  PROVE  /\ [names EXCEPT ![c] = {}] \in Registries /\ OwnOnly([names EXCEPT ![c] = {}], docs)
         /\ \A those : names[c] = None /\ OwnAll(names, docs, those) => OwnAll([names EXCEPT ![c] = {}], docs, those)
<1> DEFINE new == [names EXCEPT ![c] = {}]
<1>1. \A d \in Collections : new[d] = IF d = c THEN {} ELSE names[d]
  BY DEF Registries
<1>2. new \in Registries
  BY DEF Registries
<1>3. \A k \in DocumentKeys : docs[k] # None => docs[k] \in Collections
  BY DEF Labels
<1> HIDE DEF new
<1>4. OwnOnly(new, docs)
  BY <1>1 DEF OwnOnly
<1>5. ASSUME NEW those, names[c] = None, OwnAll(names, docs, those)
      PROVE  OwnAll(new, docs, those)
  BY <1>1, <1>3, <1>5 DEF OwnAll
<1> QED
  BY <1>2, <1>4, <1>5 DEF new

LEMMA LabelAdded ==
  ASSUME NEW names \in Registries, NEW docs \in Labels, NEW c \in Collections, NEW id \in DocumentKeys,
         OwnOnly(names, docs), docs[id] = None
  PROVE  /\ [docs EXCEPT ![id] = c] \in Labels /\ OwnOnly(names, [docs EXCEPT ![id] = c])
         /\ Labelled([docs EXCEPT ![id] = c]) = Labelled(docs) \cup {id}
<1> DEFINE new == [docs EXCEPT ![id] = c]
<1>1. new \in Labels /\ \A k \in DocumentKeys : new[k] = IF k = id THEN c ELSE docs[k]
  BY DEF Labels
<1>2. c # None /\ \A d \in Collections : names[d] # None => names[d] \subseteq DocumentKeys
  BY NoneApart DEF Registries
<1> HIDE DEF new
<1>3. OwnOnly(names, new)
  BY <1>1, <1>2, NoneApart DEF OwnOnly
<1>4. Labelled(new) = Labelled(docs) \cup {id}
  BY <1>1, <1>2 DEF Labelled
<1> QED
  BY <1>1, <1>3, <1>4 DEF new

LEMMA IdTracked ==
  ASSUME NEW names \in Registries, NEW docs \in Labels, NEW c \in Collections, NEW id \in DocumentKeys,
         OwnOnly(names, docs), docs[id] = None, names[c] # None
  PROVE  /\ [names EXCEPT ![c] = @ \cup {id}] \in Registries
         /\ OwnOnly([names EXCEPT ![c] = @ \cup {id}], [docs EXCEPT ![id] = c])
         /\ \A those : OwnAll(names, docs, those)
               => OwnAll([names EXCEPT ![c] = @ \cup {id}], [docs EXCEPT ![id] = c], those \cup {id})
<1> DEFINE more == [names EXCEPT ![c] = @ \cup {id}]
           new == [docs EXCEPT ![id] = c]
<1>1. names[c] \in SUBSET DocumentKeys
  BY DEF Registries
<1>2. more \in Registries /\ \A d \in Collections : more[d] = IF d = c THEN names[c] \cup {id} ELSE names[d]
  BY <1>1 DEF Registries
<1>3. new \in Labels /\ \A k \in DocumentKeys : new[k] = IF k = id THEN c ELSE docs[k]
  BY DEF Labels
<1>4. OwnOnly(names, new)
  BY LabelAdded
<1>5. new[id] = c /\ names[c] \cup {id} # None
  BY <1>1, <1>3, NoneApart
<1>6. \A k \in DocumentKeys : docs[k] # None => docs[k] \in Collections
  BY DEF Labels
<1> HIDE DEF new, more
<1>7. OwnOnly(more, new)
  BY <1>1, <1>2, <1>4, <1>5 DEF OwnOnly
<1>8. ASSUME NEW those, OwnAll(names, docs, those)
      PROVE  OwnAll(more, new, those \cup {id})
  BY <1>1, <1>2, <1>3, <1>5, <1>6, <1>8 DEF OwnAll
<1> QED
  BY <1>2, <1>7, <1>8 DEF new, more

LEMMA NameRemoved ==
  ASSUME NEW names \in Registries, NEW docs \in Labels, NEW c \in Collections, NEW those,
         OwnOnly(names, docs), OwnAll(names, docs, those), names[c] # None
  PROVE  LET new == [k \in DocumentKeys |-> IF k \in names[c] \cap those THEN None ELSE docs[k]]
         IN  /\ OwnOnly([names EXCEPT ![c] = None], new)
             /\ OwnAll([names EXCEPT ![c] = None], new, those \ names[c])
<1> DEFINE new == [k \in DocumentKeys |-> IF k \in names[c] \cap those THEN None ELSE docs[k]]
           less == [names EXCEPT ![c] = None]
<1>1. \A d \in Collections : less[d] = IF d = c THEN None ELSE names[d]
  BY DEF Registries
<1>2. \A k \in DocumentKeys : /\ new[k] = IF k \in names[c] \cap those THEN None ELSE docs[k]
                              /\ docs[k] # None => docs[k] \in Collections
  BY DEF Labels
<1>3. \A d \in Collections : names[d] # None => names[d] \subseteq DocumentKeys
  BY DEF Registries
<1> HIDE DEF new, less
<1>4. OwnOnly(less, new)
  BY <1>1, <1>2, <1>3 DEF OwnOnly
<1>5. OwnAll(less, new, those \ names[c])
  BY <1>1, <1>2, <1>3, NoneApart DEF OwnAll, OwnOnly
<1> QED
  BY <1>4, <1>5 DEF new, less

\* A name that goes tracks nothing of another's.
LEMMA NameGone ==
  ASSUME NEW names \in Registries, NEW c \in Collections
  PROVE  /\ [names EXCEPT ![c] = None] \in Registries
         /\ \A d \in Collections : [names EXCEPT ![c] = None][d] = IF d = c THEN None ELSE names[d]
  BY DEF Registries

LEMMA WorkerStarts ==
  ASSUME ApiInv, Api!Start(1)
  PROVE  ApiInv'
<1> DEFINE names == IF registryFile = None THEN NoNames ELSE registryFile
           next == Cardinality(Labelled(savedDocuments)) + 1
<1>1. ApiTypes /\ CleanInv /\ KeptInv /\ names \in Registries
  BY NoNamesOwn DEF ApiInv, ApiTypes
<1>2. /\ 1 \notin up /\ up' = up \cup {1}
      /\ registry' = [registry EXCEPT ![1] = names]
      /\ apiIndexed' = [apiIndexed EXCEPT ![1] = savedNodes] /\ nodes' = [nodes EXCEPT ![1] = savedNodes]
      /\ documents' = [documents EXCEPT ![1] = savedDocuments]
      /\ UNCHANGED <<registryFile, savedNodes, savedDocuments, answered, apiClean, apiDeleted>>
  BY DEF Api!Start, Api!saved, Api!NoCollections, NoNames
<1>3. next_id' = [next_id EXCEPT ![1] = next]
  <2>1. Api!Cardinality(Api!Entries) = Cardinality(Labelled(savedDocuments))
    BY DEF Api!Cardinality, Cardinality, Api!Entries, Labelled, Api!DocumentIds, DocumentKeys
  <2> QED
    BY <2>1 DEF Api!Start, Api!ResumedId
<1>4. next \in Nat \ {0} /\ Cardinality(Labelled(savedDocuments)) \in Nat
  <2>1. IsFiniteSet(DocumentKeys)
    <3>1. 1 \in Int /\ MaxDocument \in Int
      BY FrontsAssumption
    <3> QED
      BY <3>1, FS_Interval DEF DocumentKeys
  <2>2. Labelled(savedDocuments) \subseteq DocumentKeys
    BY DEF Labelled
  <2> QED
    BY <2>1, <2>2, FS_Subset, FS_CardinalityType
<1> HIDE DEF names, next
<1>5. /\ registry'[1] = names /\ apiIndexed'[1] = savedNodes /\ nodes'[1] = savedNodes
      /\ documents'[1] = savedDocuments /\ next_id'[1] = next /\ up' = {1}
  BY <1>1, <1>2, <1>3 DEF ApiTypes
<1>6. ApiTypes'
  <2>1. /\ registry' \in [{1} -> Registries] /\ apiIndexed' \in [{1} -> SUBSET DocumentKeys]
        /\ nodes' \in [{1} -> SUBSET DocumentKeys] /\ documents' \in [{1} -> Labels]
        /\ next_id' \in [{1} -> Nat \ {0}]
    BY <1>1, <1>2, <1>3, <1>4 DEF ApiTypes
  <2> QED
    BY <1>1, <1>2, <1>5, <2>1 DEF ApiTypes
<1>7. CleanInv'
  BY <1>1, <1>2, <1>5 DEF CleanInv, names
<1>8. KeptInv'
  <2> SUFFICES ASSUME ~apiDeleted PROVE KeptInv'
    BY <1>2 DEF KeptInv
  <2>1. PICK n \in Nat : Labelled(savedDocuments) = 1 .. n
    BY <1>1 DEF KeptInv
  <2>2. Cardinality(Labelled(savedDocuments)) = n
    <3>1. 1 \in Int /\ n \in Int
      OBVIOUS
    <3>2. Cardinality(1 .. n) = IF 1 > n THEN 0 ELSE n - 1 + 1
      BY <3>1, FS_Interval
    <3> QED
      BY <2>1, <3>2
  <2>3. next - 1 = n
    BY <2>2 DEF next
  <2>4. OwnOnly(names, savedDocuments)
    BY <1>1, NoNamesOwn DEF KeptInv, names
  <2> QED
    BY <1>1, <1>2, <1>5, <2>1, <2>3, <2>4 DEF KeptInv
<1> QED
  BY <1>6, <1>7, <1>8 DEF ApiInv

\* A worker that is gone has left only files.
LEMMA WorkerGone ==
  ASSUME ApiInv, Api!Gone(1), savedNodes' \subseteq DocumentKeys, savedDocuments' \in Labels,
         registryFile' \in {registryFile, None}, UNCHANGED <<answered, apiDeleted>>, apiClean' \in BOOLEAN
  PROVE  ApiTypes' /\ 1 \in up /\ 1 \notin up'
<1>1. /\ 1 \in up /\ up' = up \ {1}
      /\ registry' = [registry EXCEPT ![1] = NoNames]
      /\ apiIndexed' = [apiIndexed EXCEPT ![1] = {}] /\ nodes' = [nodes EXCEPT ![1] = {}]
      /\ documents' = [documents EXCEPT ![1] = [k \in DocumentKeys |-> None]]
      /\ next_id' = [next_id EXCEPT ![1] = 1]
  BY DEF Api!Gone, Api!NoCollections, NoNames, Api!NoDocuments, Api!DocumentIds, DocumentKeys
<1>2. [k \in DocumentKeys |-> None] \in Labels
  BY Zenon DEF Labels
<1>3. /\ registry' \in [{1} -> Registries] /\ documents' \in [{1} -> Labels]
      /\ next_id' \in [{1} -> Nat \ {0}]
  BY <1>1, <1>2, NoNamesOwn DEF ApiInv, ApiTypes
<1>4. /\ apiIndexed' \in [{1} -> SUBSET DocumentKeys] /\ nodes' \in [{1} -> SUBSET DocumentKeys]
      /\ apiIndexed'[1] = {} /\ nodes'[1] = {}
  BY <1>1 DEF ApiInv, ApiTypes
<1>5. up' \subseteq {1} /\ 1 \notin up' /\ registryFile' \in Registries \cup {None}
  BY <1>1 DEF ApiInv, ApiTypes
<1> QED
  BY <1>1, <1>3, <1>4, <1>5 DEF ApiInv, ApiTypes

LEMMA WorkerStops ==
  ASSUME ApiInv, Api!Stop(1)
  PROVE  ApiInv'
<1>1. /\ Api!Gone(1) /\ savedNodes' = nodes[1] /\ savedDocuments' = documents[1]
      /\ UNCHANGED <<registryFile, answered, apiClean, apiDeleted>>
  BY DEF Api!Stop
<1>2. ApiTypes /\ nodes[1] \subseteq DocumentKeys /\ documents[1] \in Labels /\ apiClean \in BOOLEAN
  BY DEF ApiInv, ApiTypes
<1>3. ApiTypes' /\ 1 \in up /\ 1 \notin up'
  BY <1>1, <1>2, WorkerGone
<1>4. CleanInv'
  BY <1>1, <1>2, <1>3 DEF ApiInv, ApiTypes, CleanInv, OwnAll
<1>5. KeptInv'
  BY <1>1, <1>3 DEF ApiInv, KeptInv
<1> QED
  BY <1>3, <1>4, <1>5 DEF ApiInv

\* The line of a document under way is one more, under an id without a line.
LEMMA LineOfOne ==
  ASSUME ApiInv, NEW c \in Collections, 1 \in up, Api!CanAdd(1, c), Api!LineAppended(1, c)
  PROVE  /\ next_id[1] \in DocumentKeys /\ next_id[1] \notin apiIndexed[1] /\ registry[1][c] # None
         /\ savedDocuments' = [savedDocuments EXCEPT ![next_id[1]] = c] /\ savedDocuments' \in Labels
         /\ ~apiDeleted => /\ savedDocuments[next_id[1]] = None
                           /\ Labelled(savedDocuments') = 1 .. next_id[1]
                           /\ Labelled(savedDocuments) \subseteq Labelled(savedDocuments')
<1> DEFINE id == next_id[1]
<1>1. /\ id \in DocumentKeys /\ id \notin apiIndexed[1] /\ registry[1][c] # None /\ id \in Nat \ {0}
      /\ savedDocuments' = [savedDocuments EXCEPT ![id] = c] /\ savedDocuments \in Labels
  BY DEF Api!CanAdd, Api!LineAppended, Api!DocumentIds, DocumentKeys, ApiInv, ApiTypes
<1>2. savedDocuments' \in Labels
  BY <1>1 DEF Labels
<1>3. ASSUME ~apiDeleted
      PROVE  /\ savedDocuments[id] = None /\ Labelled(savedDocuments') = 1 .. id
             /\ Labelled(savedDocuments) \subseteq Labelled(savedDocuments')
  <2>1. Labelled(savedDocuments) = 1 .. id - 1
    BY <1>3 DEF ApiInv, KeptInv
  <2> HIDE DEF id
  <2>2. savedDocuments[id] = None
    BY <1>1, <2>1 DEF Labelled
  <2>3. Labelled(savedDocuments') = Labelled(savedDocuments) \cup {id}
    <3>1. \A k \in DocumentKeys : savedDocuments'[k] = IF k = id THEN c ELSE savedDocuments[k]
      BY <1>1 DEF Labels
    <3> QED
      BY <1>1, <3>1, NoneApart DEF Labelled
  <2>4. (1 .. id - 1) \cup {id} = 1 .. id
    BY <1>1
  <2> QED
    BY <2>1, <2>2, <2>3, <2>4
<1> QED
  BY <1>1, <1>2, <1>3

LEMMA WorkerDies ==
  ASSUME ApiInv, Api!Die(1)
  PROVE  ApiInv'
<1>1. /\ Api!Gone(1) /\ apiClean' = FALSE /\ UNCHANGED <<answered, apiDeleted>> /\ 1 \in up
      /\ registryFile' \in {registryFile, None}
  BY DEF Api!Die, Api!Gone
<1>2. ApiTypes /\ KeptInv /\ nodes[1] \subseteq DocumentKeys
  BY DEF ApiInv, ApiTypes
<1>3. CleanInv'
  BY <1>1 DEF CleanInv
<1>4. CASE savedNodes' \in {savedNodes, nodes[1]} /\ UNCHANGED savedDocuments
  <2>1. ApiTypes' /\ 1 \notin up'
    BY <1>1, <1>2, <1>4, WorkerGone DEF ApiTypes
  <2>2. KeptInv'
    BY <1>1, <1>2, <1>4, <2>1 DEF KeptInv
  <2> QED
    BY <1>3, <2>1, <2>2 DEF ApiInv
<1>5. ASSUME NEW c \in Collections, Api!CanAdd(1, c), Api!LineAppended(1, c), UNCHANGED savedNodes
      PROVE  ApiInv'
  <2> DEFINE id == next_id[1]
  <2>1. /\ id \in DocumentKeys /\ savedDocuments' = [savedDocuments EXCEPT ![id] = c] /\ savedDocuments' \in Labels
        /\ ~apiDeleted => /\ savedDocuments[id] = None /\ Labelled(savedDocuments') = 1 .. id
                          /\ Labelled(savedDocuments) \subseteq Labelled(savedDocuments')
        /\ id \in Nat
    BY <1>1, <1>2, <1>5, LineOfOne DEF ApiTypes
  <2> HIDE DEF id
  <2>2. ApiTypes' /\ 1 \notin up'
    BY <1>1, <1>2, <1>5, <2>1, WorkerGone DEF ApiTypes
  <2>3. KeptInv'
    <3> SUFFICES ASSUME ~apiDeleted PROVE KeptInv'
      BY <1>1 DEF KeptInv
    <3>1. registryFile # None => OwnOnly(registryFile, savedDocuments')
      BY <1>2, <2>1, LabelAdded DEF ApiTypes, KeptInv
    <3> QED
      BY <1>1, <1>2, <1>5, <2>1, <2>2, <3>1 DEF KeptInv
  <2> QED
    BY <1>3, <2>2, <2>3 DEF ApiInv
<1> QED
  BY <1>4, <1>5 DEF Api!Die, Api!saved

\* Whether a save succeeds or not, the memory has what was to be saved.
LEMMA Saves ==
  ASSUME NEW new, Api!Save(1, new) \/ Api!SaveFails(1, new)
  PROVE  /\ registry' = [registry EXCEPT ![1] = new]
         /\ \/ registryFile' = new /\ apiClean' = apiClean
            \/ registryFile' \in {registryFile, None} /\ apiClean' = FALSE
  BY DEF Api!Save, Api!SaveFails

LEMMA NameCreated ==
  ASSUME ApiInv, NEW c \in Collections, Api!Create(1, c)
  PROVE  ApiInv'
<1> DEFINE new == [registry[1] EXCEPT ![c] = {}]
<1>1. /\ 1 \in up /\ registry[1][c] = None
      /\ UNCHANGED <<up, apiIndexed, nodes, documents, next_id, savedNodes, savedDocuments, apiDeleted>>
      /\ Api!Save(1, new) \/ Api!SaveFails(1, new)
      /\ answered' \in {answered, answered \cup {c}}
      /\ apiClean' => registryFile' = new
  BY DEF Api!Create, Api!saved, Api!Save, Api!SaveFails
<1>2. /\ registry' = [registry EXCEPT ![1] = new]
      /\ \/ registryFile' = new /\ apiClean' = apiClean
         \/ registryFile' \in {registryFile, None} /\ apiClean' = FALSE
  BY <1>1, Saves
<1>3. ApiTypes /\ registry[1] \in Registries /\ documents[1] \in Labels /\ savedDocuments \in Labels
  BY DEF ApiInv, ApiTypes
<1>4. new \in Registries /\ \A d \in Collections : new[d] = IF d = c THEN {} ELSE registry[1][d]
  BY <1>3 DEF Registries
<1>5. registry'[1] = new /\ registry' \in [{1} -> Registries]
  BY <1>2, <1>3, <1>4 DEF ApiTypes
<1>6. ApiTypes'
  <2> HIDE DEF new
  <2> QED
    BY <1>1, <1>2, <1>3, <1>4, <1>5 DEF ApiTypes
<1>7. CleanInv'
  <2> SUFFICES ASSUME apiClean' PROVE CleanInv'
    BY DEF CleanInv
  <2>1. apiClean /\ registryFile' = new /\ registry[1] = registryFile
    BY <1>1, <1>2 DEF ApiInv, CleanInv
  <2>2. OwnOnly(new, documents[1]) /\ OwnAll(new, documents[1], apiIndexed[1])
    BY <1>1, <1>3, <2>1, NameAdded DEF ApiInv, CleanInv
  <2>3. new # None /\ {} # None
    BY <1>4, NoneApart
  <2>4. \A d \in answered' : new[d] # None
    BY <1>1, <1>3, <1>4, <2>1, <2>3 DEF ApiInv, CleanInv, ApiTypes
  <2> HIDE DEF new
  <2> QED
    BY <1>1, <1>5, <2>1, <2>2, <2>3, <2>4 DEF CleanInv
<1>8. KeptInv'
  <2> SUFFICES ASSUME ~apiDeleted PROVE KeptInv'
    BY <1>1 DEF KeptInv
  <2>1. OwnOnly(new, savedDocuments)
    BY <1>1, <1>3, NameAdded DEF ApiInv, KeptInv
  <2> HIDE DEF new
  <2> QED
    BY <1>1, <1>2, <1>5, <2>1 DEF ApiInv, KeptInv
<1> QED
  BY <1>6, <1>7, <1>8 DEF ApiInv

LEMMA DocumentAdded ==
  ASSUME ApiInv, NEW c \in Collections, Api!AddDocument(1, c)
  PROVE  ApiInv'
<1> DEFINE id == next_id[1]
           new == [registry[1] EXCEPT ![c] = @ \cup {id}]
           docs == [documents[1] EXCEPT ![id] = c]
<1>1. /\ 1 \in up /\ Api!CanAdd(1, c) /\ Api!LineAppended(1, c)
      /\ next_id' = [next_id EXCEPT ![1] = @ + 1]
      /\ apiIndexed' = [apiIndexed EXCEPT ![1] = @ \cup {id}] /\ nodes' = [nodes EXCEPT ![1] = @ \cup {id}]
      /\ Api!Save(1, new) \/ Api!SaveFails(1, new)
      /\ UNCHANGED <<up, savedNodes, answered, apiDeleted>>
  BY DEF Api!AddDocument
<1>2. documents' = [documents EXCEPT ![1] = docs]
  BY DEF Api!AddDocument, ApiInv, ApiTypes
<1>3. /\ registry' = [registry EXCEPT ![1] = new]
      /\ \/ registryFile' = new /\ apiClean' = apiClean
         \/ registryFile' \in {registryFile, None} /\ apiClean' = FALSE
  BY <1>1, Saves
<1>4. /\ id \in DocumentKeys /\ id \notin apiIndexed[1] /\ registry[1][c] # None
      /\ savedDocuments' = [savedDocuments EXCEPT ![id] = c] /\ savedDocuments' \in Labels
      /\ ~apiDeleted => /\ savedDocuments[id] = None /\ Labelled(savedDocuments') = 1 .. id
                        /\ Labelled(savedDocuments) \subseteq Labelled(savedDocuments')
  BY <1>1, LineOfOne
<1>5. /\ ApiTypes /\ registry[1] \in Registries /\ documents[1] \in Labels /\ savedDocuments \in Labels
      /\ id \in Nat \ {0} /\ registryFile \in Registries \cup {None}
  BY DEF ApiInv, ApiTypes
<1>6. new \in Registries /\ docs \in Labels
  BY <1>4, <1>5 DEF Registries, Labels
<1> HIDE DEF id, new, docs
<1>7. /\ registry'[1] = new /\ documents'[1] = docs /\ next_id'[1] = id + 1
      /\ apiIndexed'[1] = apiIndexed[1] \cup {id} /\ nodes'[1] = nodes[1] \cup {id}
  BY <1>1, <1>2, <1>3, <1>5 DEF ApiTypes, id
<1>8. ApiTypes'
  <2>1. /\ registry' \in [{1} -> Registries] /\ documents' \in [{1} -> Labels] /\ next_id' \in [{1} -> Nat \ {0}]
    BY <1>1, <1>2, <1>3, <1>5, <1>6 DEF ApiTypes, id
  <2>2. apiIndexed' \in [{1} -> SUBSET DocumentKeys] /\ nodes' \in [{1} -> SUBSET DocumentKeys]
    BY <1>1, <1>4, <1>5 DEF ApiTypes
  <2> QED
    BY <1>1, <1>3, <1>4, <1>5, <1>6, <1>7, <2>1, <2>2 DEF ApiTypes
<1>9. CleanInv'
  <2> SUFFICES ASSUME apiClean' PROVE CleanInv'
    BY DEF CleanInv
  <2>1. apiClean /\ registryFile' = new /\ registry[1] = registryFile
    BY <1>1, <1>3 DEF ApiInv, CleanInv
  <2>2. /\ OwnOnly(registry[1], documents[1]) /\ OwnAll(registry[1], documents[1], apiIndexed[1])
    BY <1>1, <2>1 DEF ApiInv, CleanInv
  <2>3. documents[1][id] = None
    BY <1>4, <2>2 DEF OwnAll
  <2>4. OwnOnly(new, docs) /\ OwnAll(new, docs, apiIndexed[1] \cup {id})
    BY <1>4, <1>5, <2>2, <2>3, IdTracked DEF new, docs
  <2>5. \A d \in answered' : new[d] # None
    <3>1. \A d \in Collections : new[d] = IF d = c THEN registry[1][c] \cup {id} ELSE registry[1][d]
      BY <1>5 DEF Registries, new
    <3>2. registry[1][c] \cup {id} # None
      BY <1>4, <1>5, NoneApart DEF Registries
    <3> QED
      BY <1>1, <1>5, <2>1, <3>1, <3>2 DEF ApiInv, CleanInv, ApiTypes
  <2>6. new # None
    BY <1>6, NoneApart
  <2> QED
    BY <1>1, <1>7, <2>1, <2>4, <2>5, <2>6 DEF CleanInv
<1>10. KeptInv'
  <2> SUFFICES ASSUME ~apiDeleted PROVE KeptInv'
    BY <1>1 DEF KeptInv
  <2>1. /\ documents[1] = savedDocuments /\ OwnOnly(registry[1], savedDocuments)
        /\ nodes[1] \subseteq Labelled(savedDocuments) /\ savedNodes \subseteq Labelled(savedDocuments)
        /\ registryFile # None => OwnOnly(registryFile, savedDocuments)
    BY <1>1 DEF ApiInv, KeptInv
  <2>2. savedDocuments' = docs
    BY <1>4, <2>1 DEF docs
  <2>3. OwnOnly(new, docs)
    BY <1>4, <1>5, <2>1, IdTracked DEF new, docs
  <2>4. registryFile # None => OwnOnly(registryFile, savedDocuments')
    BY <1>4, <1>5, <2>1, LabelAdded
  <2>5. Labelled(savedDocuments') = 1 .. (id + 1) - 1 /\ id \in 1 .. id
    BY <1>4, <1>5
  <2>6. nodes'[1] \subseteq Labelled(savedDocuments')
    BY <1>4, <1>7, <2>1, <2>5
  <2>7. registryFile' # None => OwnOnly(registryFile', savedDocuments')
    BY <1>3, <2>2, <2>3, <2>4
  <2> QED
    BY <1>1, <1>4, <1>5, <1>7, <2>1, <2>2, <2>3, <2>5, <2>6, <2>7 DEF KeptInv
<1> QED
  BY <1>8, <1>9, <1>10 DEF ApiInv

LEMMA DocumentRefused ==
  ASSUME ApiInv, NEW c \in Collections, Api!AddRefused(1, c)
  PROVE  ApiInv'
<1>1. /\ 1 \in up /\ next_id[1] \in apiIndexed[1] /\ next_id' = [next_id EXCEPT ![1] = @ + 1]
      /\ UNCHANGED <<up, registry, apiIndexed, nodes, documents, registryFile, savedNodes, savedDocuments, answered,
                     apiClean, apiDeleted>>
  BY DEF Api!AddRefused, Api!saved
<1>2. ApiTypes'
  BY <1>1 DEF ApiInv, ApiTypes
<1>3. CleanInv'
  BY <1>1 DEF ApiInv, CleanInv
<1>4. apiDeleted
  <2>1. next_id[1] \in nodes[1] /\ next_id[1] \in Nat
    BY <1>1 DEF ApiInv, ApiTypes
  <2>2. ~apiDeleted => next_id[1] \in 1 .. next_id[1] - 1
    BY <1>1, <2>1 DEF ApiInv, KeptInv
  <2> QED
    BY <2>1, <2>2
<1> QED
  BY <1>1, <1>2, <1>3, <1>4 DEF ApiInv, KeptInv

LEMMA NameDeleted ==
  ASSUME ApiInv, NEW c \in Collections, Api!Delete(1, c)
  PROVE  ApiInv'
<1> DEFINE new == [registry[1] EXCEPT ![c] = None]
           docs == [k \in DocumentKeys |-> IF k \in registry[1][c] \cap apiIndexed[1] THEN None ELSE documents[1][k]]
<1>1. /\ 1 \in up /\ registry[1][c] # None
      /\ apiIndexed' = [apiIndexed EXCEPT ![1] = @ \ registry[1][c]]
      /\ documents' = [documents EXCEPT ![1] = docs]
      /\ Api!Save(1, new) \/ Api!SaveFails(1, new)
      /\ apiDeleted' /\ apiDeleted' \in BOOLEAN
      /\ UNCHANGED <<up, nodes, next_id, savedNodes, savedDocuments>>
  BY DEF Api!Delete, Api!Remove, Api!saved, Api!DocumentIds, DocumentKeys
<1>0. /\ answered' = answered \ {c} \/ answered' = answered
      /\ apiClean' => answered' = answered \ {c}
  BY DEF Api!Delete, Api!SaveFails
<1>2. /\ registry' = [registry EXCEPT ![1] = new]
      /\ \/ registryFile' = new /\ apiClean' = apiClean
         \/ registryFile' \in {registryFile, None} /\ apiClean' = FALSE
  BY <1>1, Saves
<1>3. ApiTypes /\ registry[1] \in Registries /\ documents[1] \in Labels
  BY DEF ApiInv, ApiTypes
<1>4. new \in Registries /\ \A d \in Collections : new[d] = IF d = c THEN None ELSE registry[1][d]
  BY <1>3, NameGone
<1>5. docs \in Labels
  BY <1>3 DEF Labels
<1> HIDE DEF new, docs
<1>6. /\ registry'[1] = new /\ documents'[1] = docs /\ apiIndexed'[1] = apiIndexed[1] \ registry[1][c]
  BY <1>1, <1>2, <1>3 DEF ApiTypes
<1>7. ApiTypes'
  <2>1. /\ registry' \in [{1} -> Registries] /\ documents' \in [{1} -> Labels]
    BY <1>1, <1>2, <1>3, <1>4, <1>5 DEF ApiTypes
  <2>2. apiIndexed' \in [{1} -> SUBSET DocumentKeys]
    BY <1>1, <1>3 DEF ApiTypes
  <2>3. nodes[1] = nodes'[1] /\ apiIndexed'[1] \subseteq nodes'[1]
    BY <1>1, <1>3, <1>6 DEF ApiTypes
  <2>4. registryFile' \in Registries \cup {None} /\ apiClean' \in BOOLEAN
    BY <1>2, <1>3, <1>4 DEF ApiTypes
  <2>5. answered' \subseteq Collections
    BY <1>0, <1>3 DEF ApiTypes
  <2>6. /\ up' \subseteq {1} /\ nodes' \in [{1} -> SUBSET DocumentKeys] /\ next_id' \in [{1} -> Nat \ {0}]
        /\ savedNodes' \subseteq DocumentKeys /\ savedDocuments' \in Labels /\ apiDeleted' \in BOOLEAN
    BY <1>1, <1>3 DEF ApiTypes
  <2> QED
    BY <2>1, <2>2, <2>3, <2>4, <2>5, <2>6 DEF ApiTypes
<1>8. CleanInv'
  <2> SUFFICES ASSUME apiClean' PROVE CleanInv'
    BY DEF CleanInv
  <2>1. apiClean /\ registryFile' = new /\ answered' = answered \ {c}
    <3>1. answered' = answered \ {c}
      BY <1>0
    <3>2. apiClean /\ registryFile' = new
      BY <1>2
    <3> QED
      BY <3>1, <3>2
  <2>2. /\ OwnOnly(registry[1], documents[1]) /\ OwnAll(registry[1], documents[1], apiIndexed[1])
        /\ registry[1] = registryFile
    BY <1>1, <2>1 DEF ApiInv, CleanInv
  <2>3. OwnOnly(new, docs) /\ OwnAll(new, docs, apiIndexed[1] \ registry[1][c])
    BY <1>1, <1>3, <2>2, NameRemoved DEF new, docs
  <2>4. new # None /\ \A d \in answered' : new[d] # None
    <3>1. new # None
      BY <1>4, NoneApart
    <3>2. \A d \in answered : registry[1][d] # None /\ d \in Collections
      BY <1>3, <2>1, <2>2 DEF ApiInv, CleanInv, ApiTypes
    <3> QED
      BY <1>4, <2>1, <3>1, <3>2
  <2> QED
    BY <1>1, <1>6, <2>1, <2>3, <2>4 DEF CleanInv
<1>9. KeptInv'
  BY <1>1 DEF KeptInv
<1> QED
  BY <1>7, <1>8, <1>9 DEF ApiInv

LEMMA ApiSteps == ApiInv /\ [Api!Next]_(Api!vars) => ApiInv'
<1> SUFFICES ASSUME ApiInv, [Api!Next]_(Api!vars) PROVE ApiInv'
  OBVIOUS
<1>1. CASE UNCHANGED Api!vars
  BY <1>1 DEF Api!vars, Api!memory, Api!saved, ApiInv, ApiTypes, CleanInv, KeptInv
<1> QED
  BY <1>1, WorkerStarts, WorkerStops, WorkerDies, NameCreated, DocumentAdded, DocumentRefused, NameDeleted
  DEF Api!Next

LEMMA ApiStarts == Api!Init => ApiInv
<1> SUFFICES ASSUME Api!Init PROVE ApiInv
  OBVIOUS
<1> DEFINE nothing == [k \in DocumentKeys |-> None]
<1>1. /\ up = {} /\ registryFile = NoNames /\ answered = {} /\ registry = [w \in {1} |-> NoNames]
      /\ apiIndexed = [w \in {1} |-> {}] /\ nodes = [w \in {1} |-> {}]
      /\ documents = [w \in {1} |-> nothing] /\ savedDocuments = nothing /\ savedNodes = {}
      /\ next_id = [w \in {1} |-> 1] /\ apiClean = TRUE /\ apiDeleted = FALSE
  BY DEF Api!Init, Api!NoCollections, Api!NoDocuments, Api!DocumentIds, DocumentKeys, NoNames
<1>2. nothing \in Labels /\ \A k \in DocumentKeys : nothing[k] = None
  BY Zenon DEF Labels
<1> HIDE DEF nothing
<1>3. NoNames # None
  BY NoNamesOwn, NoneApart
<1>4. Labelled(nothing) = 1 .. 0
  BY <1>2 DEF Labelled
<1>5. ApiTypes
  <2>1. registry \in [{1} -> Registries] /\ documents \in [{1} -> Labels]
    BY <1>1, <1>2, NoNamesOwn
  <2>2. apiIndexed \in [{1} -> SUBSET DocumentKeys] /\ nodes \in [{1} -> SUBSET DocumentKeys]
    BY <1>1
  <2>3. next_id \in [{1} -> Nat \ {0}] /\ apiIndexed[1] = {}
    BY <1>1
  <2>4. /\ up \subseteq {1} /\ registryFile \in Registries /\ savedNodes \subseteq DocumentKeys
        /\ savedDocuments \in Labels /\ answered \subseteq Collections
        /\ apiClean \in BOOLEAN /\ apiDeleted \in BOOLEAN
    BY <1>1, <1>2, NoNamesOwn
  <2> QED
    BY <2>1, <2>2, <2>3, <2>4 DEF ApiTypes
<1>6. CleanInv
  BY <1>1, <1>2, <1>3, NoNamesOwn DEF CleanInv, OwnAll
<1>7. KeptInv
  BY <1>1, <1>4, NoNamesOwn DEF KeptInv
<1> QED
  BY <1>5, <1>6, <1>7 DEF ApiInv

LEMMA ApiAnswers == ApiInv => Api!TracksItsOwn /\ Api!TracksNoOthers /\ Api!AnsweredIsKept
<1> SUFFICES ASSUME ApiInv PROVE Api!TracksItsOwn /\ Api!TracksNoOthers /\ Api!AnsweredIsKept
  OBVIOUS
<1>1. ApiTypes /\ CleanInv /\ KeptInv /\ registry[1] \in Registries
  BY DEF ApiInv, ApiTypes
<1>2. Api!TracksItsOwn
  <2> SUFFICES ASSUME apiClean, 1 \in up, NEW c \in Collections
               PROVE  Api!Tracked(1, c) = Api!Found(1, c)
    BY <1>1 DEF Api!TracksItsOwn, ApiTypes
  <2>1. OwnOnly(registry[1], documents[1]) /\ OwnAll(registry[1], documents[1], apiIndexed[1])
    BY <1>1 DEF CleanInv
  <2>2. /\ apiIndexed[1] \subseteq DocumentKeys /\ c # None
        /\ registry[1][c] # None => registry[1][c] \subseteq DocumentKeys
    BY <1>1, NoneApart DEF ApiTypes, Registries
  <2> QED
    BY <2>1, <2>2 DEF Api!Tracked, Api!Found, OwnOnly, OwnAll
<1>3. Api!TracksNoOthers
  BY <1>1 DEF Api!TracksNoOthers, Api!Tracked, ApiTypes, KeptInv, OwnOnly
<1>4. Api!AnsweredIsKept
  BY <1>1 DEF Api!AnsweredIsKept, ApiTypes, CleanInv
<1> QED
  BY <1>2, <1>3, <1>4

------------------------------------------------------------------------------
(* NativeAddon: databases.                                                 *)

AddonNames == 0 .. MaxOpen
Life == {"none", "created", "ready", "destroyed"}

\* A path has one database at most that has it open, which knows what is kept.
AddonInv ==
    /\ state \in [1 .. MaxOpen -> Life] /\ entries = [d \in 1 .. MaxOpen |-> entries[d]]
    /\ databases \in [AddonNames -> AddonNames] /\ db_ \in [Wrappers \cup Readers -> AddonNames]
    /\ \A d, e \in Addon!Alive : d = e
    /\ Addon!AddedIsKept

LEMMA NamesAre == Addon!Names = AddonNames /\ Addon!Databases = 1 .. MaxOpen /\ Addon!Databases \subseteq AddonNames
                  /\ 0 \in AddonNames /\ Addon!Holders = Wrappers \cup Readers
  BY FrontsAssumption DEF Addon!Names, Addon!Databases, Addon!Active, AddonNames, Addon!Holders

LEMMA NewIs ==
  ASSUME Addon!CanOpen
  PROVE  Addon!New \in 1 .. MaxOpen /\ state[Addon!New] = "none" /\ Addon!Alive = {}
<1> DEFINE free == {d \in 1 .. MaxOpen : state[d] = "none"}
<1>1. PICK d \in free : \A e \in free : ~(e < d)
  <2>1. free # {} /\ free \subseteq Nat
    BY NamesAre DEF Addon!CanOpen
  <2> HIDE DEF free
  <2>2. PICK d \in free : \A e \in free : ~(<<e, d>> \in OpToRel(<, Nat))
    BY <2>1, WFMin, NatLessThanWellFounded
  <2> QED
    BY <2>1, <2>2 DEF OpToRel
<1>2. \E x \in 1 .. MaxOpen : state[x] = "none" /\ \A e \in 1 .. MaxOpen : e < x => state[e] # "none"
  BY <1>1
<1>3. Addon!New \in 1 .. MaxOpen /\ state[Addon!New] = "none"
  BY <1>2, NamesAre, Zenon DEF Addon!New
<1> QED
  BY <1>3 DEF Addon!CanOpen

\* The databases no one refers to save what is kept.
LEMMA Referred ==
  ASSUME AddonInv, NEW names \in [AddonNames -> AddonNames], NEW holders \in [Wrappers \cup Readers -> AddonNames],
         Addon!Refer(names, holders), UNCHANGED <<entries, kept>>
  PROVE  AddonInv'
<1> DEFINE gone == Addon!Destroyed(names, holders)
           saving == {d \in gone : state[d] = "ready"}
<1>1. /\ databases' = names /\ db_' = holders
      /\ state' = [d \in 1 .. MaxOpen |-> IF d \in gone THEN "destroyed" ELSE state[d]]
      /\ IF saving = {} THEN UNCHANGED metadataFile ELSE \E d \in saving : metadataFile' = entries[d]
  BY NamesAre DEF Addon!Refer
<1>2. saving \subseteq 1 .. MaxOpen /\ \A d \in saving : state[d] = "ready"
  BY NamesAre DEF Addon!Destroyed, Addon!Alive
<1>3. /\ state' \in [1 .. MaxOpen -> Life]
      /\ \A d \in 1 .. MaxOpen : state'[d] \in {"created", "ready"} => state'[d] = state[d]
  BY <1>1 DEF AddonInv, Life
<1>4. Addon!Alive' \subseteq Addon!Alive
  BY <1>3, NamesAre DEF Addon!Alive
<1>5. /\ \A d \in 1 .. MaxOpen : state[d] = "ready" => kept \subseteq entries[d]
      /\ kept \subseteq metadataFile
  BY NamesAre DEF AddonInv, Addon!AddedIsKept
<1>6. kept \subseteq metadataFile'
  <2>1. CASE saving = {}
    BY <1>1, <1>5, <2>1
  <2>2. CASE saving # {}
    <3>1. PICK d \in saving : metadataFile' = entries[d]
      BY <1>1, <2>2
    <3> HIDE DEF saving
    <3> QED
      BY <1>2, <1>5, <3>1
  <2> QED
    BY <2>1, <2>2
<1>7. Addon!AddedIsKept'
  BY <1>3, <1>5, <1>6, NamesAre DEF Addon!AddedIsKept
<1> QED
  BY <1>1, <1>3, <1>4, <1>6, <1>7 DEF AddonInv

\* A database that is opened anew begins with what the file has.
LEMMA Opened ==
  ASSUME AddonInv, Addon!CanOpen, NEW life \in {"created", "ready"}, NEW new, new = Addon!New,
         state' = [state EXCEPT ![new] = life], life = "ready" => entries' = [entries EXCEPT ![new] = metadataFile],
         life = "created" => entries' = entries,
         databases' \in [AddonNames -> AddonNames], db_' \in [Wrappers \cup Readers -> AddonNames],
         UNCHANGED <<metadataFile, kept>>
  PROVE  AddonInv'
<1>1. new \in 1 .. MaxOpen /\ state[new] = "none" /\ Addon!Alive = {}
  BY NewIs
<1>2. \A d \in 1 .. MaxOpen : d # new => state[d] \notin {"created", "ready"}
  BY <1>1, NamesAre DEF Addon!Alive
<1>3. state' \in [1 .. MaxOpen -> Life] /\ \A d \in 1 .. MaxOpen : state'[d] = IF d = new THEN life ELSE state[d]
  BY <1>1 DEF AddonInv, Life
<1>4. \A d, e \in Addon!Alive' : d = e
  BY <1>2, <1>3, NamesAre DEF Addon!Alive
<1>5. entries' = [d \in 1 .. MaxOpen |-> entries'[d]] /\ (life = "ready" => entries'[new] = metadataFile)
  BY <1>1 DEF AddonInv
<1>6. Addon!AddedIsKept'
  BY <1>2, <1>3, <1>5, NamesAre DEF AddonInv, Addon!AddedIsKept
<1> QED
  BY <1>3, <1>4, <1>5, <1>6 DEF AddonInv

LEMMA AddonSteps == AddonInv /\ [Addon!Next]_(Addon!vars) => AddonInv'
<1> SUFFICES ASSUME AddonInv, [Addon!Next]_(Addon!vars) PROVE AddonInv'
  OBVIOUS
<1>a. /\ Addon!AddedIsKept /\ kept \subseteq metadataFile
      /\ \A d \in 1 .. MaxOpen : state[d] = "ready" => kept \subseteq entries[d]
      /\ \A d, e \in Addon!Alive : d = e
      /\ \A d \in 1 .. MaxOpen : state[d] \in {"created", "ready"} <=> d \in Addon!Alive
  BY NamesAre DEF AddonInv, Addon!AddedIsKept, Addon!Alive
<1>1. ASSUME NEW w \in Wrappers, Addon!Construct(w) PROVE AddonInv'
  <2>1. Addon!New \in AddonNames
    BY <1>1, NewIs, NamesAre DEF Addon!Construct
  <2>2. databases' \in [AddonNames -> AddonNames] /\ db_' \in [Wrappers \cup Readers -> AddonNames]
    BY <1>1, <2>1 DEF Addon!Construct, AddonInv
  <2> QED
    BY <1>1, <2>2, Opened DEF Addon!Construct
<1>2. ASSUME NEW w \in Wrappers, Addon!Initialize(w) PROVE AddonInv'
  <2> DEFINE d == db_[w]
  <2>1. d \in 1 .. MaxOpen /\ state[d] = "created" /\ d \in Addon!Alive
    BY <1>2, NamesAre DEF Addon!Initialize, AddonInv, AddonNames, Addon!Alive
  <2>2. /\ state' = [state EXCEPT ![d] = "ready"] /\ entries' = [entries EXCEPT ![d] = metadataFile]
        /\ UNCHANGED <<metadataFile, databases, db_, kept>>
    BY <1>2 DEF Addon!Initialize
  <2> HIDE DEF d
  <2>3. state' \in [1 .. MaxOpen -> Life] /\ \A e \in 1 .. MaxOpen : state'[e] = IF e = d THEN "ready" ELSE state[e]
    BY <2>1, <2>2 DEF AddonInv, Life
  <2>4. Addon!Alive' = Addon!Alive
    BY <2>1, <2>3, NamesAre DEF Addon!Alive
  <2>5. /\ entries' = [e \in 1 .. MaxOpen |-> entries'[e]]
        /\ \A e \in 1 .. MaxOpen : entries'[e] = IF e = d THEN metadataFile ELSE entries[e]
    BY <2>1, <2>2 DEF AddonInv
  <2>6. Addon!AddedIsKept'
    BY <1>a, <2>2, <2>3, <2>5, NamesAre DEF Addon!AddedIsKept
  <2> QED
    BY <1>a, <2>2, <2>3, <2>4, <2>5, <2>6 DEF AddonInv
<1>3. CASE Addon!OpenActive
  <2> DEFINE new == Addon!New
             names == [databases EXCEPT ![0] = new]
  <2>1. /\ Addon!CanOpen /\ Addon!Destroyed(names, db_) = {} /\ new \in 1 .. MaxOpen
    BY <1>3, NewIs DEF Addon!OpenActive, Addon!Destroyed
  <2>2. /\ databases' = names /\ UNCHANGED <<metadataFile, db_, kept>>
        /\ state' = [e \in 1 .. MaxOpen |-> IF e = new THEN "ready" ELSE state[e]]
        /\ entries' = [entries EXCEPT ![new] = metadataFile]
    BY <1>3, <2>1, NamesAre DEF Addon!OpenActive, Addon!Active
  <2>3. names \in [AddonNames -> AddonNames]
    BY <2>1, NamesAre DEF AddonInv
  <2>4. state' = [state EXCEPT ![new] = "ready"]
    BY <2>1, <2>2 DEF AddonInv
  <2> QED
    BY <2>1, <2>2, <2>3, <2>4, Opened DEF AddonInv
<1>4. ASSUME NEW w \in Wrappers, Addon!Close(w) PROVE AddonInv'
  <2>1. [databases EXCEPT ![db_[w]] = 0] \in [AddonNames -> AddonNames]
    BY NamesAre DEF AddonInv
  <2>2. [db_ EXCEPT ![w] = 0] \in [Wrappers \cup Readers -> AddonNames]
    BY NamesAre DEF AddonInv
  <2> QED
    BY <1>4, <2>1, <2>2, Referred DEF Addon!Close
<1>5. ASSUME NEW h \in Wrappers \cup Readers, Addon!Collect(h) PROVE AddonInv'
  <2>1. [db_ EXCEPT ![h] = 0] \in [Wrappers \cup Readers -> AddonNames] /\ databases \in [AddonNames -> AddonNames]
    BY NamesAre DEF AddonInv
  <2> QED
    BY <1>5, <2>1, Referred DEF Addon!Collect
<1>6. ASSUME NEW u \in Readers, NEW nm \in AddonNames, Addon!Use(u, nm) PROVE AddonInv'
  <2>1. db_' \in [Wrappers \cup Readers -> AddonNames]
    BY <1>6 DEF Addon!Use, AddonInv
  <2> QED
    BY <1>6, <1>a, <2>1 DEF Addon!Use, AddonInv, Addon!AddedIsKept, Addon!Alive
<1>7. ASSUME NEW h \in Wrappers \cup Readers, Addon!Add(h) PROVE AddonInv'
  <2> DEFINE d == db_[h]
             id == addonNext[d]
  <2>1. d \in 1 .. MaxOpen /\ state[d] = "ready" /\ d \in Addon!Alive /\ UNCHANGED <<state, databases, db_>>
    BY <1>7, NamesAre DEF Addon!Add, AddonInv, AddonNames, Addon!Alive
  <2>2. Addon!Alive' = Addon!Alive
    BY <2>1 DEF Addon!Alive
  <2>3. CASE UNCHANGED <<entries, metadataFile, kept>>
    BY <1>a, <2>1, <2>2, <2>3 DEF AddonInv, Addon!AddedIsKept
  <2>4. CASE /\ entries' = [entries EXCEPT ![d] = @ \cup {id}] /\ metadataFile' = metadataFile \cup {id}
             /\ kept' = kept \cup {id}
    <3> HIDE DEF id, d
    <3>1. /\ entries' = [e \in 1 .. MaxOpen |-> entries'[e]]
          /\ \A e \in 1 .. MaxOpen : entries'[e] = IF e = d THEN entries[d] \cup {id} ELSE entries[e]
      BY <2>1, <2>4 DEF AddonInv
    <3>2. \A e \in 1 .. MaxOpen : state[e] = "ready" => e = d
      BY <1>a, <2>1
    <3>3. Addon!AddedIsKept'
      BY <1>a, <2>1, <2>4, <3>1, <3>2, NamesAre DEF Addon!AddedIsKept
    <3> QED
      BY <1>a, <2>1, <2>2, <3>1, <3>3 DEF AddonInv
  <2> QED
    BY <1>7, <2>3, <2>4 DEF Addon!Add
<1>8. ASSUME NEW w \in Wrappers, Addon!CallTooEarly(w) PROVE AddonInv'
  <2>1. /\ state' = [e \in 1 .. MaxOpen |-> IF e \in Addon!Alive THEN "destroyed" ELSE state[e]]
        /\ databases' = [n \in AddonNames |-> 0] /\ db_' = [h \in Wrappers \cup Readers |-> 0]
        /\ UNCHANGED <<entries, metadataFile, kept>>
    BY <1>8, NamesAre DEF Addon!CallTooEarly
  <2>2. state' \in [1 .. MaxOpen -> Life] /\ \A e \in 1 .. MaxOpen : state'[e] \notin {"created", "ready"}
    BY <1>a, <2>1 DEF AddonInv, Life
  <2>3. Addon!Alive' = {}
    BY <2>2, NamesAre DEF Addon!Alive
  <2>4. Addon!AddedIsKept'
    BY <1>a, <2>1, <2>2, NamesAre DEF Addon!AddedIsKept
  <2> QED
    BY <2>1, <2>2, <2>3, <2>4, NamesAre DEF AddonInv
<1>9. ASSUME NEW w \in Wrappers, NEW id \in 1 .. MaxId, Addon!DeleteDocument(w, id) PROVE AddonInv'
  <2> DEFINE d == db_[w]
  <2>1. /\ d \in 1 .. MaxOpen /\ UNCHANGED <<state, metadataFile, databases, db_>>
        /\ entries' = [entries EXCEPT ![d] = @ \ {id}] /\ kept' = kept \ {id}
    BY <1>9, NamesAre DEF Addon!DeleteDocument, AddonInv, AddonNames
  <2> HIDE DEF d
  <2>2. /\ entries' = [e \in 1 .. MaxOpen |-> entries'[e]]
        /\ \A e \in 1 .. MaxOpen : entries[e] \ {id} \subseteq entries'[e]
    BY <2>1 DEF AddonInv
  <2>3. Addon!AddedIsKept'
    BY <1>a, <2>1, <2>2, NamesAre DEF Addon!AddedIsKept
  <2> QED
    BY <1>a, <2>1, <2>2, <2>3 DEF AddonInv, Addon!Alive
<1>10. ASSUME NEW w \in Wrappers, Addon!UpdateDocument(w) PROVE AddonInv'
  <2> DEFINE d == db_[w]
  <2>1. /\ d \in 1 .. MaxOpen /\ UNCHANGED <<state, metadataFile, databases, db_, kept>>
        /\ entries' = [entries EXCEPT ![d] = @ \cup {0}]
    BY <1>10, NamesAre DEF Addon!UpdateDocument, AddonInv, AddonNames
  <2> HIDE DEF d
  <2>2. /\ entries' = [e \in 1 .. MaxOpen |-> entries'[e]]
        /\ \A e \in 1 .. MaxOpen : entries[e] \subseteq entries'[e]
    BY <2>1 DEF AddonInv
  <2>3. Addon!AddedIsKept'
    BY <1>a, <2>1, <2>2, NamesAre DEF Addon!AddedIsKept
  <2> QED
    BY <1>a, <2>1, <2>2, <2>3 DEF AddonInv, Addon!Alive
<1>11. CASE UNCHANGED Addon!vars
  BY <1>11 DEF Addon!vars, AddonInv, Addon!AddedIsKept, Addon!Alive
<1> QED
  BY <1>1, <1>2, <1>3, <1>4, <1>5, <1>6, <1>7, <1>8, <1>9, <1>10, <1>11, NamesAre DEF Addon!Next

LEMMA AddonStarts == Addon!Init => AddonInv
  BY NamesAre DEF Addon!Init, AddonInv, Addon!Alive, Addon!AddedIsKept, Life

------------------------------------------------------------------------------
(* NativeAddon: objects whose state is kept by address.                    *)

Tokens == Lexicon \cup {Addon!PAD}
Vocabularies == UNION {[D -> Nat] : D \in SUBSET Tokens}
Tokenizer == [vocab : Vocabularies, reverse_vocab : Seq(Tokens)]

\* Every id is the place of its word.
Numbered(t) == \A word \in DOMAIN t.vocab :
                  /\ t.vocab[word] < Len(t.reverse_vocab) /\ t.reverse_vocab[t.vocab[word] + 1] = word
ReadsBack(t) == t \in Tokenizer /\ Addon!PAD \in DOMAIN t.vocab /\ Numbered(t)

Records == UNION {[D -> [vector : Vectors, id : Nat]] : D \in SUBSET Nat}
Store == [connected : BOOLEAN, dimension : Nat, next_id : Nat, records : Records]

\* A store has its records under ids it gave out, and what its caller knows.
KeepsTold(s, known) ==
    /\ s \in Store /\ \A id \in DOMAIN s.records : id \in 1 .. s.next_id - 1 /\ s.records[id].id = id
    /\ known = [vectors |-> known.vectors, failed |-> known.failed]
    /\ s.next_id # 0
    /\ \A id \in DOMAIN known.vectors : id \in DOMAIN s.records /\ s.records[id].vector = known.vectors[id]
    /\ ~known.failed => DOMAIN s.records = DOMAIN known.vectors

Beings == {"free", "encoder", "tokenizer", "store"}

ObjectsInv == /\ alive \in [Spots -> Beings] /\ Addon!ObjectsTypeOK
              /\ \A x \in DOMAIN tokenizers : ReadsBack(tokenizers[x])
              /\ call.op = "tokenize" => Addon!Decode(call.at, call.ids) = call.text
              /\ \A x \in Spots : alive[x] = "store" => KeepsTold(stores[x], told[x])
              /\ Addon!SearchIsNearest

------------------------------------------------------------------------------
(* Tokenizers.                                                             *)

LEMMA VocabularyIs ==
  ASSUME NEW m \in Vocabularies
  PROVE  DOMAIN m \subseteq Tokens /\ \A word \in DOMAIN m : m[word] \in Nat
  BY DEF Vocabularies

LEMMA VocabularyWith ==
  ASSUME NEW m \in Vocabularies, NEW word \in Tokens, NEW n \in Nat
  PROVE  /\ Addon!With(m, word, n) \in Vocabularies /\ DOMAIN Addon!With(m, word, n) = DOMAIN m \cup {word}
         /\ Addon!With(m, word, n)[word] = n
         /\ \A w \in DOMAIN m : w # word => Addon!With(m, word, n)[w] = m[w]
<1>1. Addon!With(m, word, n) = [y \in DOMAIN m \cup {word} |-> IF y = word THEN n ELSE m[y]]
  BY DEF Addon!With
<1>2. Addon!With(m, word, n) \in [DOMAIN m \cup {word} -> Nat] /\ DOMAIN m \cup {word} \subseteq Tokens
  BY <1>1, VocabularyIs
<1> QED
  BY <1>1, <1>2 DEF Vocabularies

\* What is written at the end has the next id, and disturbs none.
LEMMA NumberedMore ==
  ASSUME NEW t \in Tokenizer, Numbered(t), NEW word \in Tokens, NEW vocab \in Vocabularies,
         vocab = t.vocab \/ vocab = Addon!With(t.vocab, word, Len(t.reverse_vocab))
  PROVE  LET more == [vocab |-> vocab, reverse_vocab |-> Append(t.reverse_vocab, word)]
         IN  more \in Tokenizer /\ Numbered(more)
<1> DEFINE m == t.vocab
           list == t.reverse_vocab
           longer == Append(list, word)
           more == [vocab |-> vocab, reverse_vocab |-> longer]
<1>1. m \in Vocabularies /\ list \in Seq(Tokens)
  BY DEF Tokenizer
<1>2. /\ longer \in Seq(Tokens) /\ Len(longer) = Len(list) + 1 /\ Len(list) \in Nat
      /\ \A j \in 1 .. Len(list) : longer[j] = list[j]
      /\ longer[Len(list) + 1] = word
  <2> HIDE DEF list
  <2> QED
    BY ONLY <1>1, word \in Tokens, AppendProperties, LenProperties
<1>3. \A w \in DOMAIN m : m[w] \in Nat /\ m[w] < Len(list) /\ list[m[w] + 1] = w
  BY <1>1, VocabularyIs DEF Numbered
<1> HIDE DEF m, list, longer
<1>4. ASSUME NEW w \in DOMAIN vocab PROVE vocab[w] < Len(longer) /\ longer[vocab[w] + 1] = w
  <2>1. CASE vocab = m
    BY <1>2, <1>3, <1>4, <2>1
  <2>2. CASE vocab = Addon!With(m, word, Len(list))
    <3>1. /\ DOMAIN vocab = DOMAIN m \cup {word} /\ vocab[word] = Len(list)
          /\ \A v \in DOMAIN m : v # word => vocab[v] = m[v]
      <4>1. Len(list) \in Nat
        BY <1>2
      <4> DEFINE k == Len(list)
                 after == Addon!With(m, word, k)
      <4> HIDE DEF k
      <4>2. /\ DOMAIN after = DOMAIN m \cup {word} /\ after[word] = k
            /\ \A v \in DOMAIN m : v # word => after[v] = m[v]
        BY ONLY <1>1, <4>1, word \in Tokens, VocabularyWith, ZenonT(60) DEF k
      <4> QED
        BY <2>2, <4>2 DEF k
    <3>2. CASE w = word
      BY <1>2, <3>1, <3>2
    <3>3. CASE w # word
      BY <1>2, <1>3, <1>4, <3>1, <3>3
    <3> QED
      BY <3>2, <3>3
  <2> QED
    BY <2>1, <2>2 DEF m, list
<1>5. more \in Tokenizer
  BY <1>2 DEF Tokenizer
<1>6. more.vocab = vocab /\ more.reverse_vocab = longer
  OBVIOUS
<1> HIDE DEF more
<1>7. Numbered(more)
  BY <1>4, <1>6 DEF Numbered
<1> QED
  BY <1>5, <1>7 DEF more, longer, list

\* The constructor goes on with what is there.
LEMMA TokenizerBegins ==
  ASSUME NEW t, ReadsBack(t) \/ t = Addon!NewTokenizer
  PROVE  ReadsBack(Addon!TokenizerBegun(t))
<1>1. CASE ReadsBack(t)
  <2>1. Addon!TokenizerBegun(t) = [vocab |-> t.vocab, reverse_vocab |-> Append(t.reverse_vocab, Addon!PAD)]
    BY <1>1, Zenon DEF Addon!TokenizerBegun, ReadsBack
  <2>2. t \in Tokenizer /\ Numbered(t) /\ t.vocab \in Vocabularies /\ Addon!PAD \in Tokens /\ Addon!PAD \in DOMAIN t.vocab
    BY <1>1 DEF ReadsBack, Tokenizer, Tokens
  <2>3. Addon!TokenizerBegun(t) \in Tokenizer /\ Numbered(Addon!TokenizerBegun(t))
    BY <2>1, <2>2, NumberedMore
  <2> QED
    BY <2>1, <2>2, <2>3 DEF ReadsBack
<1>2. CASE t = Addon!NewTokenizer
  <2>1. <<>> \in Vocabularies /\ DOMAIN <<>> = {} /\ <<>> \in Seq(Tokens) /\ Len(<<>>) = 0
    <3>1. <<>> \in [{} -> Nat]
      OBVIOUS
    <3> QED
      BY <3>1 DEF Vocabularies
  <2>2. t = [vocab |-> <<>>, reverse_vocab |-> <<>>] /\ t.vocab = <<>> /\ t.reverse_vocab = <<>>
    BY <1>2 DEF Addon!NewTokenizer
  <2> DEFINE vocab == Addon!With(<<>>, Addon!PAD, 0)
  <2>3. Addon!PAD \in Tokens
    BY DEF Tokens
  <2>4. vocab \in Vocabularies /\ DOMAIN vocab = {Addon!PAD}
    <3> DEFINE e == <<>>
    <3>1. e \in Vocabularies /\ DOMAIN e = {} /\ 0 \in Nat
      BY <2>1
    <3> HIDE DEF e
    <3>2. Addon!With(e, Addon!PAD, 0) \in Vocabularies /\ DOMAIN Addon!With(e, Addon!PAD, 0) = DOMAIN e \cup {Addon!PAD}
      BY ONLY <2>3, <3>1, VocabularyWith
    <3> QED
      BY <3>1, <3>2 DEF e
  <2>5. vocab = Addon!With(t.vocab, Addon!PAD, Len(t.reverse_vocab))
    BY <2>1, <2>2
  <2>6. t \in Tokenizer /\ Numbered(t)
    BY <2>1, <2>2 DEF Tokenizer, Numbered
  <2>7. Addon!TokenizerBegun(t) = [vocab |-> vocab, reverse_vocab |-> Append(t.reverse_vocab, Addon!PAD)]
    BY <2>1, <2>2 DEF Addon!TokenizerBegun
  <2> HIDE DEF vocab
  <2>8. Addon!TokenizerBegun(t) \in Tokenizer /\ Numbered(Addon!TokenizerBegun(t))
    BY <2>3, <2>4, <2>5, <2>6, <2>7, NumberedMore
  <2> QED
    BY <2>4, <2>7, <2>8 DEF ReadsBack
<1> QED
  BY <1>1, <1>2

LEMMA WordLearnt ==
  ASSUME NEW t, ReadsBack(t), NEW word \in Tokens
  PROVE  LET next == Addon!Learnt(t, word)
         IN  ReadsBack(next) /\ DOMAIN next.vocab = DOMAIN t.vocab \cup {word}
<1>1. CASE word \in DOMAIN t.vocab
  BY <1>1 DEF Addon!Learnt
<1>2. CASE word \notin DOMAIN t.vocab
  <2> DEFINE m == t.vocab
             n == Len(t.reverse_vocab)
             vocab == Addon!With(m, word, n)
  <2>1. t \in Tokenizer /\ Numbered(t) /\ m \in Vocabularies /\ n \in Nat /\ Addon!PAD \in DOMAIN m
    BY DEF ReadsBack, Tokenizer
  <2>2. Addon!Learnt(t, word) = [vocab |-> vocab, reverse_vocab |-> Append(t.reverse_vocab, word)]
    BY <1>2, Zenon DEF Addon!Learnt
  <2> HIDE DEF m, n
  <2>3. vocab \in Vocabularies /\ DOMAIN vocab = DOMAIN m \cup {word}
    BY ONLY <2>1, word \in Tokens, VocabularyWith
  <2>4. vocab = Addon!With(t.vocab, word, Len(t.reverse_vocab))
    BY DEF m, n
  <2> HIDE DEF vocab
  <2>5. Addon!Learnt(t, word) \in Tokenizer /\ Numbered(Addon!Learnt(t, word))
    BY <2>1, <2>2, <2>3, <2>4, NumberedMore
  <2>6. Addon!Learnt(t, word).vocab = vocab
    BY <2>2
  <2> QED
    BY <2>1, <2>3, <2>5, <2>6 DEF ReadsBack, m
<1> QED
  BY <1>1, <1>2

\* The words of a text are learnt, each of them.
LEMMA TextRead ==
  ASSUME NEW t, ReadsBack(t), NEW n \in Nat, NEW text \in [1 .. n -> Tokens]
  PROVE  LET next == Addon!AfterReading(t, text)
         IN  ReadsBack(next) /\ \A k \in 1 .. n : text[k] \in DOMAIN next.vocab
<1> DEFINE S == {r \in Tokenizer : ReadsBack(r)}
           step == [k \in 1 .. n |-> [r \in S |-> Addon!Learnt(r, text[k])]]
           body(f) == [k \in 0 .. n |-> IF k = 0 THEN t ELSE Addon!Learnt(f[k - 1], text[k])]
<1>1. t \in S
  BY DEF ReadsBack
<1>2. ASSUME NEW r \in S, NEW k \in 1 .. n
      PROVE  /\ Addon!Learnt(r, text[k]) \in S
             /\ DOMAIN Addon!Learnt(r, text[k]).vocab = DOMAIN r.vocab \cup {text[k]}
  <2>1. ReadsBack(r) /\ text[k] \in Tokens
    OBVIOUS
  <2>2. /\ ReadsBack(Addon!Learnt(r, text[k]))
        /\ DOMAIN Addon!Learnt(r, text[k]).vocab = DOMAIN r.vocab \cup {text[k]}
    BY <2>1, WordLearnt
  <2> QED
    BY <2>2 DEF ReadsBack
<1>3. step \in [1 .. n -> [S -> S]]
  <2> HIDE DEF S
  <2> QED
    BY <1>2
<1>4. \E f : f = body(f)
  <2>1. PICK f : Run(n, S, t, step, f)
    <3> HIDE DEF S, step
    <3> QED
      BY <1>1, <1>3, Recursion
  <2>2. f \in [0 .. n -> S] /\ f[0] = t /\ \A k \in 1 .. n : f[k] = step[k][f[k - 1]]
    BY <2>1 DEF Run
  <2>3. \A k \in 1 .. n : k - 1 \in 0 .. n
    OBVIOUS
  <2>4. \A k \in 1 .. n : f[k] = Addon!Learnt(f[k - 1], text[k])
    <3> HIDE DEF S
    <3> QED
      BY <2>2, <2>3
  <2>5. \A k \in 0 .. n : k = 0 \/ k \in 1 .. n
    OBVIOUS
  <2>6. f = body(f)
    <3> HIDE DEF S
    <3> QED
      BY <2>2, <2>4, <2>5
  <2> QED
    BY <2>6
<1> DEFINE read == CHOOSE f : f = body(f)
<1>5. read = body(read)
  <2> HIDE DEF body
  <2> QED
    BY <1>4
<1>6. Addon!AfterReading(t, text) = read[n]
  <2>1. Len(text) = n
    OBVIOUS
  <2> QED
    BY <2>1, Zenon DEF Addon!AfterReading
<1> HIDE DEF read
<1>7. read[0] = t /\ \A k \in 1 .. n : read[k] = Addon!Learnt(read[k - 1], text[k])
  <2>1. 0 \in 0 .. n /\ \A k \in 1 .. n : k \in 0 .. n /\ k # 0
    OBVIOUS
  <2> QED
    BY <1>5, <2>1
<1> DEFINE G == {k \in 0 .. n : read[k] \in S /\ \A j \in 1 .. k : text[j] \in DOMAIN read[k].vocab}
<1>8. 0 \in G
  BY <1>1, <1>7
<1>9. ASSUME NEW k \in 1 .. n, k - 1 \in G PROVE k \in G
  <2>1. read[k - 1] \in S /\ \A j \in 1 .. k - 1 : text[j] \in DOMAIN read[k - 1].vocab
    BY <1>9
  <2> HIDE DEF S
  <2>2. read[k] \in S /\ DOMAIN read[k].vocab = DOMAIN read[k - 1].vocab \cup {text[k]}
    BY <1>2, <1>7, <2>1
  <2>3. \A j \in 1 .. k : j \in 1 .. k - 1 \/ j = k
    OBVIOUS
  <2> QED
    BY <2>1, <2>2, <2>3
<1>10. n \in G
  <2> HIDE DEF G
  <2>1. \A k \in 0 .. n : k \in G
    BY ONLY <1>8, <1>9, n \in Nat, Interval
  <2> QED
    BY <2>1
<1> QED
  BY <1>6, <1>10

\* What was read is read back.
LEMMA ReadBack ==
  ASSUME NEW t, ReadsBack(t), NEW n \in Nat, NEW text \in [1 .. n -> Tokens],
         \A k \in 1 .. n : text[k] \in DOMAIN t.vocab,
         NEW tags, tags = [k \in 1 .. n |-> t.vocab[text[k]]]
  PROVE  Addon!Decoded(t.reverse_vocab, tags) = text
<1> DEFINE reverse == t.reverse_vocab
           body(f) == [k \in 0 .. n |-> IF k = 0 THEN <<>>
                                        ELSE IF tags[k] < Len(reverse) THEN Append(f[k - 1], reverse[tags[k] + 1])
                                        ELSE f[k - 1]]
           part(k) == [j \in 1 .. k |-> text[j]]
           parts == [k \in 0 .. n |-> part(k)]
<1>1. \A k \in 1 .. n : tags[k] < Len(reverse) /\ reverse[tags[k] + 1] = text[k]
  BY DEF ReadsBack, Numbered
<1>2. \A k \in 1 .. n : part(k) = Append(part(k - 1), text[k])
  <2> SUFFICES ASSUME NEW k \in 1 .. n PROVE part(k) = Append(part(k - 1), text[k])
    OBVIOUS
  <2> DEFINE p == part(k - 1)
             q == part(k)
  <2>1. p \in Seq(Tokens) /\ Len(p) = k - 1 /\ q \in Seq(Tokens) /\ Len(q) = k /\ text[k] \in Tokens
    OBVIOUS
  <2>2. \A j \in 1 .. k - 1 : q[j] = p[j]
    OBVIOUS
  <2>3. q[k] = text[k]
    OBVIOUS
  <2> HIDE DEF p, q
  <2>4. /\ Append(p, text[k]) \in Seq(Tokens) /\ Len(Append(p, text[k])) = Len(p) + 1
        /\ \A j \in 1 .. Len(p) : Append(p, text[k])[j] = p[j]
        /\ Append(p, text[k])[Len(p) + 1] = text[k]
    BY ONLY <2>1, AppendProperties
  <2>5. q = Append(p, text[k])
    BY <2>1, <2>2, <2>3, <2>4
  <2> QED
    BY <2>5 DEF p, q
<1>3. part(0) = <<>>
  OBVIOUS
<1> HIDE DEF reverse
<1>4. \E f : f = body(f)
  <2>1. \A k \in 1 .. n : k - 1 \in 0 .. n /\ k \in 0 .. n
    OBVIOUS
  <2>2. \A k \in 0 .. n : k = 0 \/ k \in 1 .. n
    OBVIOUS
  <2> HIDE DEF part
  <2>3. parts = body(parts)
    BY <1>1, <1>2, <1>3, <2>1, <2>2
  <2> HIDE DEF parts, body
  <2> QED
    BY <2>3
<1> DEFINE words == CHOOSE f : f = body(f)
<1>5. words = body(words)
  <2> HIDE DEF body
  <2> QED
    BY <1>4
<1>6. Addon!Decoded(reverse, tags) = words[n]
  <2>1. Len(tags) = n
    OBVIOUS
  <2> QED
    BY <2>1, Zenon DEF Addon!Decoded
<1> HIDE DEF words
<1>7. words[0] = <<>> /\ \A k \in 1 .. n : words[k] = Append(words[k - 1], text[k])
  <2>1. 0 \in 0 .. n /\ \A k \in 1 .. n : k \in 0 .. n /\ k # 0
    OBVIOUS
  <2> QED
    BY <1>1, <1>5, <2>1, ZenonT(60)
<1> DEFINE G == {k \in 0 .. n : words[k] = part(k)}
<1> HIDE DEF part
<1>8. 0 \in G
  BY <1>3, <1>7
<1>9. ASSUME NEW k \in 1 .. n, k - 1 \in G PROVE k \in G
  <2>1. words[k - 1] = part(k - 1) /\ k \in 0 .. n
    BY <1>9
  <2>2. words[k] = part(k)
    BY <1>2, <1>7, <2>1
  <2> QED
    BY <2>1, <2>2
<1>10. n \in G
  <2> HIDE DEF G
  <2>1. \A k \in 0 .. n : k \in G
    BY ONLY <1>8, <1>9, n \in Nat, Interval
  <2> QED
    BY <2>1
<1>11. part(n) = text
  BY DEF part
<1> QED
  BY <1>6, <1>10, <1>11 DEF reverse

------------------------------------------------------------------------------
(* PgVectorStore.                                                          *)

PgRecord == [vector : Vectors, id : Nat]

LEMMA RecordsAre ==
  ASSUME NEW m \in Records
  PROVE  DOMAIN m \subseteq Nat /\ \A id \in DOMAIN m : m[id] \in PgRecord
  BY DEF Records, PgRecord

LEMMA RecordsWith ==
  ASSUME NEW m \in Records, NEW id \in Nat, NEW e \in PgRecord
  PROVE  /\ Addon!With(m, id, e) \in Records /\ DOMAIN Addon!With(m, id, e) = DOMAIN m \cup {id}
         /\ Addon!With(m, id, e)[id] = e
         /\ \A k \in DOMAIN m : k # id => Addon!With(m, id, e)[k] = m[k]
<1>1. Addon!With(m, id, e) = [y \in DOMAIN m \cup {id} |-> IF y = id THEN e ELSE m[y]]
  BY DEF Addon!With
<1>2. Addon!With(m, id, e) \in [DOMAIN m \cup {id} -> PgRecord] /\ DOMAIN m \cup {id} \subseteq Nat
  BY <1>1, RecordsAre
<1> QED
  BY <1>1, <1>2 DEF Records, PgRecord

LEMMA RecordsWithout ==
  ASSUME NEW m \in Records, NEW D
  PROVE  /\ Addon!Without(m, D) \in Records /\ DOMAIN Addon!Without(m, D) = DOMAIN m \ D
         /\ \A k \in DOMAIN m \ D : Addon!Without(m, D)[k] = m[k]
<1>1. Addon!Without(m, D) = [y \in DOMAIN m \ D |-> m[y]]
  BY DEF Addon!Without
<1>2. Addon!Without(m, D) \in [DOMAIN m \ D -> PgRecord] /\ DOMAIN m \ D \subseteq Nat
  BY <1>1, RecordsAre
<1> QED
  BY <1>1, <1>2 DEF Records, PgRecord

LEMMA VectorAdded ==
  ASSUME NEW s \in Store, NEW v \in Vectors
  PROVE  LET next == Addon!Added(s, v)
         IN  /\ next \in Store /\ next.next_id = s.next_id + 1
             /\ DOMAIN next.records = DOMAIN s.records \cup {s.next_id}
             /\ next.records[s.next_id] = [vector |-> v, id |-> s.next_id]
             /\ \A k \in DOMAIN s.records : k # s.next_id => next.records[k] = s.records[k]
<1> DEFINE m == s.records
           id == s.next_id
           e == [vector |-> v, id |-> id]
           after == Addon!With(m, id, e)
           dimension == IF s.dimension = 0 THEN 1 ELSE s.dimension
<1>1. m \in Records /\ id \in Nat /\ e \in PgRecord /\ dimension \in Nat
  BY DEF Store, PgRecord
<1>2. Addon!Added(s, v) = [s EXCEPT !.dimension = dimension, !.next_id = id + 1, !.records = after]
  BY DEF Addon!Added
<1> HIDE DEF m, id, e, dimension
<1>3. /\ after \in Records /\ DOMAIN after = DOMAIN m \cup {id} /\ after[id] = e
      /\ \A k \in DOMAIN m : k # id => after[k] = m[k]
  BY ONLY <1>1, RecordsWith
<1> HIDE DEF after
<1>4. /\ Addon!Added(s, v) \in Store /\ Addon!Added(s, v).next_id = id + 1 /\ Addon!Added(s, v).records = after
  <2>1. s.connected \in BOOLEAN /\ id + 1 \in Nat
    BY <1>1 DEF Store
  <2>2. Addon!Added(s, v) = [connected |-> s.connected, dimension |-> dimension, next_id |-> id + 1, records |-> after]
    BY <1>2 DEF Store
  <2> QED
    BY <1>1, <1>3, <2>1, <2>2 DEF Store
<1> QED
  BY <1>3, <1>4 DEF m, id, e

\* A batch gets the next ids, in its order.
LEMMA VectorsAdded ==
  ASSUME NEW s \in Store, NEW n \in Nat, NEW good \in [1 .. n -> Vectors],
         \A id \in DOMAIN s.records : id \in 1 .. s.next_id - 1
  PROVE  LET next == Addon!AfterAdding(s, good)
         IN  /\ next \in Store /\ next.next_id = s.next_id + n
             /\ DOMAIN next.records = DOMAIN s.records \cup s.next_id .. s.next_id + n - 1
             /\ \A k \in s.next_id .. s.next_id + n - 1 :
                   next.records[k] = [vector |-> good[k - s.next_id + 1], id |-> k]
             /\ \A k \in DOMAIN s.records : next.records[k] = s.records[k]
<1> DEFINE first == s.next_id
           step == [k \in 1 .. n |-> [r \in Store |-> Addon!Added(r, good[k])]]
           body(f) == [k \in 0 .. n |-> IF k = 0 THEN s ELSE Addon!Added(f[k - 1], good[k])]
<1>1. \A k \in 1 .. n : good[k] \in Vectors
  OBVIOUS
<1>2. step \in [1 .. n -> [Store -> Store]]
  BY <1>1, VectorAdded
<1>3. \E f : f = body(f)
  <2>1. PICK f : Run(n, Store, s, step, f)
    <3> HIDE DEF step
    <3> QED
      BY <1>2, Recursion
  <2>2. f \in [0 .. n -> Store] /\ f[0] = s /\ \A k \in 1 .. n : f[k] = step[k][f[k - 1]]
    BY <2>1 DEF Run
  <2>3. \A k \in 1 .. n : k - 1 \in 0 .. n
    OBVIOUS
  <2>4. \A k \in 1 .. n : f[k] = Addon!Added(f[k - 1], good[k])
    BY <2>2, <2>3
  <2>5. \A k \in 0 .. n : k = 0 \/ k \in 1 .. n
    OBVIOUS
  <2>6. f = body(f)
    BY <2>2, <2>4, <2>5
  <2> QED
    BY <2>6
<1> DEFINE added == CHOOSE f : f = body(f)
<1>4. added = body(added)
  <2> HIDE DEF body
  <2> QED
    BY <1>3
<1>5. Addon!AfterAdding(s, good) = added[n]
  <2>1. Len(good) = n
    OBVIOUS
  <2> QED
    BY <2>1, Zenon DEF Addon!AfterAdding
<1> HIDE DEF added
<1>6. added[0] = s /\ \A k \in 1 .. n : added[k] = Addon!Added(added[k - 1], good[k])
  <2>1. 0 \in 0 .. n /\ \A k \in 1 .. n : k \in 0 .. n /\ k # 0
    OBVIOUS
  <2> QED
    BY <1>4, <2>1
<1> DEFINE Good(j) ==
       LET r == added[j]
       IN  /\ r \in Store /\ r.next_id = first + j
           /\ DOMAIN r.records = DOMAIN s.records \cup first .. first + j - 1
           /\ \A k \in first .. first + j - 1 : r.records[k] = [vector |-> good[k - first + 1], id |-> k]
           /\ \A k \in DOMAIN s.records : r.records[k] = s.records[k]
           G == {j \in 0 .. n : Good(j)}
<1>7. first \in Nat
  BY DEF Store
<1> HIDE DEF first
<1>8. 0 \in G
  <2>1. first .. first + 0 - 1 = {}
    BY <1>7
  <2>2. s.next_id = first + 0
    BY <1>7 DEF first
  <2> QED
    BY <1>6, <2>1, <2>2
<1>9. ASSUME NEW j \in 1 .. n, j - 1 \in G PROVE j \in G
  <2> DEFINE r == added[j - 1]
             next == added[j]
             id == first + j - 1
  <2>1. /\ r \in Store /\ r.next_id = first + (j - 1)
        /\ DOMAIN r.records = DOMAIN s.records \cup first .. first + (j - 1) - 1
        /\ \A k \in first .. first + (j - 1) - 1 : r.records[k] = [vector |-> good[k - first + 1], id |-> k]
        /\ \A k \in DOMAIN s.records : r.records[k] = s.records[k]
    BY <1>9
  <2>2. id = r.next_id /\ id \in Nat /\ good[j] \in Vectors /\ next = Addon!Added(r, good[j])
    BY <1>1, <1>6, <1>7, <2>1
  <2> HIDE DEF r, next
  <2>3. /\ next \in Store /\ next.next_id = id + 1
        /\ DOMAIN next.records = DOMAIN r.records \cup {id}
        /\ next.records[id] = [vector |-> good[j], id |-> id]
        /\ \A k \in DOMAIN r.records : k # id => next.records[k] = r.records[k]
    BY <2>1, <2>2, VectorAdded
  <2>4. /\ first .. first + j - 1 = (first .. first + (j - 1) - 1) \cup {id}
        /\ id + 1 = first + j /\ id \notin first .. first + (j - 1) - 1 /\ id - first + 1 = j
    BY <1>7
  <2>5. \A k \in DOMAIN s.records : k < id
    BY <1>7 DEF first
  <2> HIDE DEF id
  <2>6. Good(j)
    <3>1. DOMAIN next.records = DOMAIN s.records \cup first .. first + j - 1
      BY <2>1, <2>3, <2>4
    <3>2. \A k \in first .. first + j - 1 : next.records[k] = [vector |-> good[k - first + 1], id |-> k]
      <4> SUFFICES ASSUME NEW k \in first .. first + j - 1
                   PROVE  next.records[k] = [vector |-> good[k - first + 1], id |-> k]
        OBVIOUS
      <4>1. CASE k = id
        BY <2>3, <2>4, <4>1
      <4>2. CASE k # id
        BY <2>1, <2>3, <2>4, <4>2
      <4> QED
        BY <4>1, <4>2
    <3>3. \A k \in DOMAIN s.records : next.records[k] = s.records[k]
      BY <1>7, <2>1, <2>2, <2>3, <2>5
    <3> QED
      BY <2>3, <2>4, <3>1, <3>2, <3>3 DEF next
  <2> QED
    BY <2>6
<1>10. n \in G
  <2> HIDE DEF G
  <2>1. \A k \in 0 .. n : k \in G
    BY ONLY <1>8, <1>9, n \in Nat, Interval
  <2> QED
    BY <2>1
<1> QED
  BY <1>5, <1>10 DEF first

\* The items before the first that is none are vectors.
LEMMA GoodItems ==
  ASSUME NEW n \in Nat, NEW items \in [1 .. n -> Vectors \cup {Untaken}],
         NEW bad, bad = Addon!SelectInSeq(items, LAMBDA v : v = Untaken)
  PROVE  /\ bad = 0 => items \in [1 .. n -> Vectors]
         /\ bad # 0 => \E m \in Nat : SubSeq(items, 1, bad - 1) \in [1 .. m -> Vectors]
<1> DEFINE I == {k \in 1 .. n : items[k] = Untaken}
<1>1. bad = IF I # {} THEN Addon!Min(I) ELSE 0
  <2>1. Len(items) = n
    OBVIOUS
  <2> QED
    BY <2>1 DEF Addon!SelectInSeq
<1>2. CASE I = {}
  BY <1>1, <1>2
<1>3. CASE I # {}
  <2>1. I \subseteq Nat
    OBVIOUS
  <2>2. \E k \in I : \A j \in I : k <= j
    <3> HIDE DEF I
    <3>1. PICK k \in I : \A j \in I : ~(<<j, k>> \in OpToRel(<, Nat))
      BY <1>3, <2>1, WFMin, NatLessThanWellFounded
    <3>2. \A j \in I : ~(j < k)
      BY <2>1, <3>1 DEF OpToRel
    <3> QED
      BY <2>1, <3>2
  <2>3. bad \in I /\ \A j \in I : bad <= j
    <3> HIDE DEF I
    <3> QED
      BY <1>1, <1>3, <2>2 DEF Addon!Min
  <2>4. bad - 1 \in Nat /\ SubSeq(items, 1, bad - 1) = [k \in 1 .. bad - 1 |-> items[k]]
    BY <2>3
  <2>5. ASSUME NEW k \in 1 .. bad - 1 PROVE items[k] \in Vectors
    <3>1. k \in 1 .. n /\ ~(bad <= k)
      BY <2>3
    <3>2. k \notin I
      BY <2>3, <3>1
    <3> QED
      BY <3>1, <3>2
  <2> DEFINE m == bad - 1
  <2>6. SubSeq(items, 1, bad - 1) \in [1 .. m -> Vectors]
    BY <2>4, <2>5
  <2>7. m \in Nat /\ bad # 0
    BY <2>3
  <2> HIDE DEF m
  <2> QED
    BY <2>6, <2>7
<1> QED
  BY <1>2, <1>3

\* A list of the elements of a set, each once, has all of them.
LEMMA ListsAll ==
  ASSUME NEW S, IsFiniteSet(S), NEW list \in [1 .. Cardinality(S) -> S],
         \A i, j \in 1 .. Cardinality(S) : i # j => list[i] # list[j]
  PROVE  \A e \in S : \E i \in 1 .. Cardinality(S) : list[i] = e
<1> SUFFICES ASSUME NEW e \in S, \A i \in 1 .. Cardinality(S) : list[i] # e PROVE FALSE
  OBVIOUS
<1> DEFINE n == Cardinality(S)
           T == S \ {e}
<1>1. n \in Nat
  BY FS_CardinalityType
<1>2. IsFiniteSet(T) /\ Cardinality(T) = n - 1
  BY FS_RemoveElement
<1>3. IsFiniteSet(1 .. n) /\ Cardinality(1 .. n) = n
  <2>1. 1 \in Int /\ n \in Int
    BY <1>1
  <2> HIDE DEF n
  <2>2. IsFiniteSet(1 .. n) /\ Cardinality(1 .. n) = IF 1 > n THEN 0 ELSE n - 1 + 1
    BY ONLY <2>1, FS_Interval
  <2> QED
    BY <1>1, <2>2
<1>4. list \in [1 .. n -> T]
  OBVIOUS
<1>5. \A i, j \in 1 .. n : i # j => list[i] # list[j]
  OBVIOUS
<1> HIDE DEF n, T
<1>6. \E i, j \in 1 .. n : i # j /\ list[i] = list[j]
  <2> DEFINE D == 1 .. n
  <2>1. IsFiniteSet(D) /\ Cardinality(T) < Cardinality(D) /\ list \in [D -> T]
    BY <1>1, <1>2, <1>3, <1>4
  <2> HIDE DEF D
  <2>2. \E i, j \in D : i # j /\ list[i] = list[j]
    BY ONLY <1>2, <2>1, FS_PigeonHole
  <2> QED
    BY <2>2 DEF D
<1> QED
  BY <1>5, <1>6

LEMMA SameCount == \A S : Addon!Cardinality(S) = Cardinality(S)
  BY Zenon DEF Addon!Cardinality, Cardinality

\* Of all records in the order of their distance the first ones are the nearest.
LEMMA NearestFirst ==
  ASSUME ObjectsInv, NEW x \in Spots, NEW sought \in Vectors, NEW k \in 0 .. 2, Addon!Search(x, sought, k)
  PROVE  Addon!SearchIsNearest'
<1> DEFINE records == stores[x].records
           S == DOMAIN records
           n == Cardinality(S)
           distance(id) == Addon!Distance(records[id].vector, sought)
<1>1. KeepsTold(stores[x], told[x]) /\ UNCHANGED stores
  BY DEF ObjectsInv, Addon!Search
<1>2. IsFiniteSet(S) /\ n \in Nat
  <2>1. stores[x].next_id - 1 \in Int /\ 1 \in Int
    BY <1>1 DEF KeepsTold, Store
  <2>2. IsFiniteSet(1 .. stores[x].next_id - 1)
    BY ONLY <2>1, FS_Interval
  <2>3. S \subseteq 1 .. stores[x].next_id - 1
    BY <1>1 DEF KeepsTold
  <2>4. IsFiniteSet(S)
    BY <2>2, <2>3, FS_Subset
  <2> QED
    BY <2>4, FS_CardinalityType
<1>3. PICK list \in Addon!SetToSeqs(S) :
         /\ \A i, j \in DOMAIN list : i < j => distance(list[i]) <= distance(list[j])
         /\ call' = [op |-> "search", at |-> x, query |-> sought, k |-> k,
                     answer |-> SubSeq(list, 1, IF k < Len(list) THEN k ELSE Len(list))]
  BY DEF Addon!Search
<1>4. list \in [1 .. n -> S] /\ \A i, j \in 1 .. n : i # j => list[i] # list[j]
  BY SameCount DEF Addon!SetToSeqs
<1>5. \A e \in S : \E i \in 1 .. n : list[i] = e
  <2> HIDE DEF S
  <2> QED
    BY <1>2, <1>4, ListsAll
<1> HIDE DEF S, n, distance
<1>6. Len(list) = n /\ DOMAIN list = 1 .. n
  BY <1>2, <1>4
<1> DEFINE m == IF k < n THEN k ELSE n
           firstOnes == SubSeq(list, 1, m)
<1>7. m \in 0 .. n /\ m <= k /\ (m = k \/ m = n)
  BY <1>2
<1>8. firstOnes = [i \in 1 .. m |-> list[i]] /\ Len(firstOnes) = m /\ DOMAIN firstOnes = 1 .. m
  <2> HIDE DEF m
  <2>1. firstOnes = [i \in 1 .. m |-> list[i]]
    BY <1>4, <1>6, <1>7
  <2> QED
    BY <1>7, <2>1
<1>9. call'.op = "search" /\ call'.at = x /\ call'.query = sought /\ call'.k = k /\ call'.answer = firstOnes
  BY <1>3, <1>6
<1>10. Addon!Min({k, n}) = m
  <2>1. m \in {k, n} /\ \A y \in {k, n} : m <= y
    BY <1>2
  <2>2. \A y \in {k, n} : (\A z \in {k, n} : y <= z) => y = m
    BY <1>2
  <2> HIDE DEF m
  <2> QED
    BY <2>1, <2>2 DEF Addon!Min
<1> HIDE DEF m, firstOnes
<1>11. ASSUME NEW id \in Addon!ToSet(firstOnes), NEW other \in S \ Addon!ToSet(firstOnes)
       PROVE  distance(id) <= distance(other)
  <2>1. PICK i \in 1 .. m : id = list[i]
    BY <1>8 DEF Addon!ToSet
  <2>2. PICK j \in 1 .. n : other = list[j]
    BY <1>5
  <2>3. j \notin 1 .. m
    BY <1>8, <2>2 DEF Addon!ToSet
  <2>4. i < j /\ i \in 1 .. n
    BY <1>2, <1>7, <2>3
  <2> QED
    BY <1>3, <1>6, <2>1, <2>2, <2>4
<1>12. stores'[call'.at].records = records /\ Addon!Cardinality(S) = n
  BY <1>1, <1>9, SameCount DEF n
<1> QED
  BY <1>8, <1>9, <1>10, <1>11, <1>12 DEF Addon!SearchIsNearest, distance, S

------------------------------------------------------------------------------
\* An encoder comes, changes or goes.
LEMMA EncodersChange ==
  ASSUME ObjectsInv, NEW x \in Spots, NEW being \in {"free", "encoder"}, alive' = [alive EXCEPT ![x] = being],
         UNCHANGED <<tokenizers, stores, told>>, call' = Addon!NoCall, DOMAIN encoders \subseteq DOMAIN encoders',
         being = "encoder" => x \in DOMAIN encoders'
  PROVE  ObjectsInv'
<1>1. call'.op = "none"
  BY DEF Addon!NoCall
<1>2. /\ alive' \in [Spots -> Beings] /\ alive'[x] = being
      /\ \A y \in Spots : y # x => alive'[y] = alive[y]
  BY DEF ObjectsInv, Beings
<1>3. Addon!ObjectsTypeOK'
  BY <1>2 DEF ObjectsInv, Addon!ObjectsTypeOK
<1>4. \A y \in Spots : alive'[y] = "store" => alive[y] = "store"
  BY <1>2
<1>5. Addon!SearchIsNearest' /\ (call'.op = "tokenize" => (Addon!Decode(call.at, call.ids) = call.text)')
  BY <1>1 DEF Addon!SearchIsNearest
<1> QED
  BY <1>2, <1>3, <1>4, <1>5 DEF ObjectsInv

LEMMA TokenizersChange ==
  ASSUME ObjectsInv, NEW x \in Spots, alive' = [alive EXCEPT ![x] = "tokenizer"], UNCHANGED <<encoders, stores, told>>,
         NEW t, ReadsBack(t), DOMAIN tokenizers' = DOMAIN tokenizers \cup {x}, tokenizers'[x] = t,
         \A y \in DOMAIN tokenizers : y # x => tokenizers'[y] = tokenizers[y],
         call'.op \in {"none", "tokenize"}, call'.op = "tokenize" => (Addon!Decode(call.at, call.ids) = call.text)'
  PROVE  ObjectsInv'
<1>1. /\ alive' \in [Spots -> Beings] /\ alive'[x] = "tokenizer"
      /\ \A y \in Spots : y # x => alive'[y] = alive[y]
  BY DEF ObjectsInv, Beings
<1>2. Addon!ObjectsTypeOK'
  BY <1>1 DEF ObjectsInv, Addon!ObjectsTypeOK
<1>3. \A y \in DOMAIN tokenizers' : ReadsBack(tokenizers'[y])
  BY DEF ObjectsInv
<1>4. \A y \in Spots : alive'[y] = "store" => alive[y] = "store"
  BY <1>1
<1>5. Addon!SearchIsNearest'
  BY DEF Addon!SearchIsNearest
<1> QED
  BY <1>1, <1>2, <1>3, <1>4, <1>5 DEF ObjectsInv

LEMMA StoresChange ==
  ASSUME ObjectsInv, NEW x \in Spots, alive' = [alive EXCEPT ![x] = "store"], UNCHANGED <<encoders, tokenizers>>,
         NEW s, NEW known, KeepsTold(s, known),
         DOMAIN stores' = DOMAIN stores \cup {x}, stores'[x] = s,
         \A y \in DOMAIN stores : y # x => stores'[y] = stores[y],
         DOMAIN told' = DOMAIN told \cup {x}, told'[x] = known,
         \A y \in DOMAIN told : y # x => told'[y] = told[y],
         call' = Addon!NoCall
  PROVE  ObjectsInv'
<1>1. /\ alive' \in [Spots -> Beings] /\ alive'[x] = "store"
      /\ \A y \in Spots : y # x => alive'[y] = alive[y]
  BY DEF ObjectsInv, Beings
<1>2. Addon!ObjectsTypeOK'
  BY <1>1 DEF ObjectsInv, Addon!ObjectsTypeOK
<1>3. call'.op = "none"
  BY DEF Addon!NoCall
<1>4. Addon!SearchIsNearest' /\ (call'.op = "tokenize" => (Addon!Decode(call.at, call.ids) = call.text)')
  BY <1>3 DEF Addon!SearchIsNearest
<1>5. ASSUME NEW y \in Spots, alive'[y] = "store" PROVE KeepsTold(stores'[y], told'[y])
  <2>1. CASE y = x
    BY <2>1
  <2>2. CASE y # x
    <3>1. alive[y] = "store" /\ y \in DOMAIN stores \cap DOMAIN told
      BY <1>1, <1>5, <2>2 DEF ObjectsInv, Addon!ObjectsTypeOK
    <3> QED
      BY <2>2, <3>1 DEF ObjectsInv
  <2> QED
    BY <2>1, <2>2
<1> QED
  BY <1>1, <1>2, <1>4, <1>5 DEF ObjectsInv

LEMMA ObjectsSteps == ObjectsInv /\ [Addon!ObjectsNext]_(Addon!objectVars) => ObjectsInv'
<1> SUFFICES ASSUME ObjectsInv, [Addon!ObjectsNext]_(Addon!objectVars) PROVE ObjectsInv'
  OBVIOUS
<1>a. ASSUME NEW x \in Spots, NEW being \in Beings, alive[x] = being PROVE alive' = alive => alive' = [alive EXCEPT ![x] = being]
  BY <1>a DEF ObjectsInv
<1>1. ASSUME NEW x \in Spots, Addon!CollectObject(x) PROVE ObjectsInv'
  <2>1. alive' = [alive EXCEPT ![x] = "free"] /\ call' = Addon!NoCall /\ UNCHANGED <<encoders, tokenizers, stores, told>>
    BY <1>1 DEF Addon!CollectObject
  <2> QED
    BY <2>1, EncodersChange
<1>2. ASSUME NEW x \in Spots, NEW d \in Sizes \cup {Addon!Untold}, Addon!CreateEncoder(x, d) PROVE ObjectsInv'
  <2>1. /\ alive' = [alive EXCEPT ![x] = "encoder"] /\ call' = Addon!NoCall /\ UNCHANGED <<tokenizers, stores, told>>
        /\ DOMAIN encoders' = DOMAIN encoders \cup {x}
    BY <1>2 DEF Addon!CreateEncoder, Addon!Create, Addon!With
  <2> QED
    BY <2>1, EncodersChange
<1>3. ASSUME NEW x \in Spots, alive[x] = "encoder", UNCHANGED <<alive, tokenizers, stores, told>>, call' = Addon!NoCall,
             DOMAIN encoders' = DOMAIN encoders
      PROVE  ObjectsInv'
  <2>1. alive' = [alive EXCEPT ![x] = "encoder"] /\ x \in DOMAIN encoders
    BY <1>3 DEF ObjectsInv, Addon!ObjectsTypeOK
  <2> QED
    BY <1>3, <2>1, EncodersChange
<1>4. ASSUME NEW x \in Spots, Addon!CreateTokenizer(x) PROVE ObjectsInv'
  <2> DEFINE t == Addon!TokenizerBegun(Addon!At(tokenizers, x, Addon!NewTokenizer))
  <2>1. /\ alive' = [alive EXCEPT ![x] = "tokenizer"] /\ call' = Addon!NoCall /\ UNCHANGED <<encoders, stores, told>>
        /\ tokenizers' = Addon!With(tokenizers, x, t)
    BY <1>4 DEF Addon!CreateTokenizer, Addon!Create
  <2>2. ReadsBack(t)
    <3>1. ReadsBack(Addon!At(tokenizers, x, Addon!NewTokenizer)) \/ Addon!At(tokenizers, x, Addon!NewTokenizer) = Addon!NewTokenizer
      BY Zenon DEF ObjectsInv, Addon!At
    <3> QED
      BY <3>1, TokenizerBegins
  <2> HIDE DEF t
  <2>3. /\ DOMAIN tokenizers' = DOMAIN tokenizers \cup {x} /\ tokenizers'[x] = t
        /\ \A y \in DOMAIN tokenizers : y # x => tokenizers'[y] = tokenizers[y]
    BY <2>1 DEF Addon!With
  <2>4. call'.op = "none"
    BY <2>1 DEF Addon!NoCall
  <2> QED
    BY <2>1, <2>2, <2>3, <2>4, TokenizersChange
<1>5. ASSUME NEW x \in Spots, NEW text \in Addon!SeqOf(Lexicon \cup {Addon!PAD}, 2), Addon!Tokenize(x, text) PROVE ObjectsInv'
  <2>1. PICK n \in 0 .. 2 : text \in [1 .. n -> Tokens]
    BY DEF Addon!SeqOf, Tokens
  <2> DEFINE t == Addon!AfterReading(tokenizers[x], text)
             tags == [k \in DOMAIN text |-> t.vocab[text[k]]]
  <2>2. /\ alive[x] = "tokenizer" /\ tokenizers' = [tokenizers EXCEPT ![x] = t] /\ UNCHANGED <<alive, encoders, stores, told>>
        /\ call' = [op |-> "tokenize", text |-> text, at |-> x, ids |-> tags]
    BY <1>5 DEF Addon!Tokenize
  <2>3. x \in DOMAIN tokenizers /\ ReadsBack(tokenizers[x])
    BY <2>2 DEF ObjectsInv, Addon!ObjectsTypeOK
  <2>4. ReadsBack(t) /\ \A k \in 1 .. n : text[k] \in DOMAIN t.vocab
    <3> DEFINE r == tokenizers[x]
    <3>1. ReadsBack(r) /\ n \in Nat
      BY <2>3
    <3> HIDE DEF r
    <3>2. LET next == Addon!AfterReading(r, text) IN ReadsBack(next) /\ \A k \in 1 .. n : text[k] \in DOMAIN next.vocab
      BY ONLY <2>1, <3>1, TextRead
    <3> QED
      BY <3>2 DEF r
  <2>5. tags = [k \in 1 .. n |-> t.vocab[text[k]]]
    BY <2>1
  <2> HIDE DEF t, tags
  <2>6. /\ DOMAIN tokenizers' = DOMAIN tokenizers \cup {x} /\ tokenizers'[x] = t
        /\ \A y \in DOMAIN tokenizers : y # x => tokenizers'[y] = tokenizers[y]
    BY <2>2, <2>3
  <2>7. call'.op = "tokenize" /\ call'.at = x /\ call'.text = text /\ call'.ids = tags
    BY <2>2
  <2>8. Addon!Decoded(t.reverse_vocab, tags) = text
    <3>1. n \in Nat
      BY <2>1
    <3> QED
      BY ONLY <2>1, <2>4, <2>5, <3>1, ReadBack
  <2>9. (Addon!Decode(call.at, call.ids) = call.text)'
    BY <2>6, <2>7, <2>8 DEF Addon!Decode
  <2>10. alive' = [alive EXCEPT ![x] = "tokenizer"]
    BY <1>a, <2>2 DEF Beings
  <2> QED
    BY <2>2, <2>4, <2>6, <2>7, <2>9, <2>10, TokenizersChange
<1>6. ASSUME NEW x \in Spots, Addon!CreateStore(x) PROVE ObjectsInv'
  <2> DEFINE s == Addon!NewStore
             known == [vectors |-> <<>>, failed |-> FALSE]
  <2>1. /\ alive' = [alive EXCEPT ![x] = "store"] /\ call' = Addon!NoCall /\ UNCHANGED <<encoders, tokenizers>>
        /\ stores' = Addon!With(stores, x, s) /\ told' = Addon!With(told, x, known)
    BY <1>6 DEF Addon!CreateStore, Addon!Create, Addon!StoreBegun
  <2>2. KeepsTold(s, known)
    <3>1. DOMAIN <<>> = {} /\ <<>> \in [{} -> [vector : Vectors, id : Nat]]
      OBVIOUS
    <3>2. <<>> \in Records
      BY <3>1 DEF Records
    <3>3. s = [connected |-> FALSE, dimension |-> 0, next_id |-> 1, records |-> <<>>]
      BY DEF Addon!NewStore
    <3> HIDE DEF s
    <3>4. s \in Store /\ s.records = <<>> /\ s.next_id = 1
      BY <3>2, <3>3 DEF Store
    <3> QED
      BY <3>1, <3>4 DEF KeepsTold
  <2> HIDE DEF s, known
  <2>3. /\ DOMAIN stores' = DOMAIN stores \cup {x} /\ stores'[x] = s
        /\ \A y \in DOMAIN stores : y # x => stores'[y] = stores[y]
    BY <2>1 DEF Addon!With
  <2>4. /\ DOMAIN told' = DOMAIN told \cup {x} /\ told'[x] = known
        /\ \A y \in DOMAIN told : y # x => told'[y] = told[y]
    BY <2>1 DEF Addon!With
  <2> QED
    BY <2>1, <2>2, <2>3, <2>4, StoresChange
\* A store that is there changes, and what is known of it.
<1>7. ASSUME NEW x \in Spots, alive[x] = "store", NEW s, NEW known, KeepsTold(s, known),
             stores' = [stores EXCEPT ![x] = s],
             told' = [told EXCEPT ![x] = known] \/ (told' = told /\ known = told[x]),
             UNCHANGED <<alive, encoders, tokenizers>>, call' = Addon!NoCall
      PROVE  ObjectsInv'
  <2>1. x \in DOMAIN stores /\ x \in DOMAIN told
    BY <1>7 DEF ObjectsInv, Addon!ObjectsTypeOK
  <2>2. /\ DOMAIN stores' = DOMAIN stores \cup {x} /\ stores'[x] = s
        /\ \A y \in DOMAIN stores : y # x => stores'[y] = stores[y]
    BY <1>7, <2>1
  <2>3. /\ DOMAIN told' = DOMAIN told \cup {x} /\ told'[x] = known
        /\ \A y \in DOMAIN told : y # x => told'[y] = told[y]
    BY <1>7, <2>1
  <2>4. alive' = [alive EXCEPT ![x] = "store"]
    BY <1>a, <1>7 DEF Beings
  <2> QED
    BY <1>7, <2>2, <2>3, <2>4, StoresChange
<1>b. ASSUME NEW x \in Spots, alive[x] = "store"
      PROVE  /\ KeepsTold(stores[x], told[x]) /\ stores[x] \in Store /\ stores[x].records \in Records
             /\ stores[x].next_id \in Nat \ {0} /\ x \in DOMAIN stores /\ x \in DOMAIN told
  BY <1>b DEF ObjectsInv, Addon!ObjectsTypeOK, KeepsTold, Store
<1>8. ASSUME NEW x \in Spots, NEW connected \in BOOLEAN, Addon!Connect(x, connected) PROVE ObjectsInv'
  <2> DEFINE s == [stores[x] EXCEPT !.connected = connected]
  <2>1. /\ alive[x] = "store" /\ stores' = [stores EXCEPT ![x] = s] /\ call' = Addon!NoCall
        /\ UNCHANGED <<alive, encoders, tokenizers, told>>
    BY <1>8 DEF Addon!Connect
  <2>2. s \in Store /\ s.records = stores[x].records /\ s.next_id = stores[x].next_id
    BY <1>b, <2>1 DEF Store
  <2> HIDE DEF s
  <2>3. KeepsTold(s, told[x])
    BY <1>b, <2>1, <2>2 DEF KeepsTold
  <2> QED
    BY <1>7, <2>1, <2>3
<1>9. ASSUME NEW x \in Spots, NEW items \in Addon!SeqOf(Vectors \cup {Untaken}, 2), Addon!AddBatch(x, items)
      PROVE  ObjectsInv'
  <2>1. PICK n \in 0 .. 2 : items \in [1 .. n -> Vectors \cup {Untaken}]
    BY DEF Addon!SeqOf
  <2> DEFINE bad == Addon!SelectInSeq(items, LAMBDA v : v = Untaken)
             good == IF bad = 0 THEN items ELSE SubSeq(items, 1, bad - 1)
             first == stores[x].next_id
             s == Addon!AfterAdding(stores[x], good)
             theirs == told[x].vectors
             failing == [told[x] EXCEPT !.failed = TRUE]
             more == [id \in DOMAIN theirs \cup first .. first + Len(items) - 1 |->
                         IF id < first THEN theirs[id] ELSE items[id - first + 1]]
             known == [told[x] EXCEPT !.vectors = more]
  <2>2. alive[x] = "store" /\ call' = Addon!NoCall /\ UNCHANGED <<alive, encoders, tokenizers>>
    BY <1>9 DEF Addon!AddBatch
  <2>3. stores' = [stores EXCEPT ![x] = s]
    BY <1>9 DEF Addon!AddBatch
  <2>4. told' = IF bad # 0 THEN [told EXCEPT ![x] = failing] ELSE [told EXCEPT ![x] = known]
    BY <1>9 DEF Addon!AddBatch
  <2>5. PICK m \in Nat : good \in [1 .. m -> Vectors] /\ (bad = 0 => m = n /\ good = items)
    <3>1. bad = Addon!SelectInSeq(items, LAMBDA v : v = Untaken) /\ n \in Nat
      BY <2>1
    <3> HIDE DEF bad
    <3>2. /\ bad = 0 => items \in [1 .. n -> Vectors]
          /\ bad # 0 => \E m \in Nat : SubSeq(items, 1, bad - 1) \in [1 .. m -> Vectors]
      BY ONLY <2>1, <3>1, GoodItems
    <3> QED
      BY <3>1, <3>2
  <2> HIDE DEF bad, good
  <2>6. /\ s \in Store /\ s.next_id = first + m
        /\ DOMAIN s.records = DOMAIN stores[x].records \cup first .. first + m - 1
        /\ \A k \in first .. first + m - 1 : s.records[k] = [vector |-> good[k - first + 1], id |-> k]
        /\ \A k \in DOMAIN stores[x].records : s.records[k] = stores[x].records[k]
    <3> DEFINE r == stores[x]
    <3>1. r \in Store /\ \A id \in DOMAIN r.records : id \in 1 .. r.next_id - 1
      BY <1>b, <2>2 DEF KeepsTold
    <3> HIDE DEF r
    <3>2. LET next == Addon!AfterAdding(r, good)
          IN  /\ next \in Store /\ next.next_id = r.next_id + m
              /\ DOMAIN next.records = DOMAIN r.records \cup r.next_id .. r.next_id + m - 1
              /\ \A k \in r.next_id .. r.next_id + m - 1 :
                    next.records[k] = [vector |-> good[k - r.next_id + 1], id |-> k]
              /\ \A k \in DOMAIN r.records : next.records[k] = r.records[k]
      BY ONLY <2>5, <3>1, VectorsAdded
    <3> QED
      BY <3>2 DEF r
  <2> HIDE DEF s
  <2>7. /\ told[x] = [vectors |-> theirs, failed |-> told[x].failed] /\ first \in Nat \ {0}
        /\ \A id \in DOMAIN stores[x].records : id \in 1 .. first - 1 /\ stores[x].records[id].id = id
        /\ \A id \in DOMAIN theirs : id \in DOMAIN stores[x].records /\ stores[x].records[id].vector = theirs[id]
        /\ ~told[x].failed => DOMAIN stores[x].records = DOMAIN theirs
    BY <1>b, <2>2 DEF KeepsTold
  <2> HIDE DEF first
  <2>8. s.next_id # 0 /\ \A id \in DOMAIN s.records : id \in 1 .. s.next_id - 1 /\ s.records[id].id = id
    <3>1. s.next_id \in Nat /\ s.next_id = first + m /\ m \in Nat
      BY <2>6, <2>7
    <3>2. ASSUME NEW id \in DOMAIN s.records PROVE id \in 1 .. s.next_id - 1 /\ s.records[id].id = id
      <4>1. CASE id \in DOMAIN stores[x].records
        <5>1. s.records[id] = stores[x].records[id] /\ stores[x].records[id].id = id /\ id \in 1 .. first - 1
          BY <2>6, <2>7, <4>1
        <5>2. id \in 1 .. s.next_id - 1
          BY <2>7, <3>1, <5>1
        <5>3. s.records[id].id = id
          BY <5>1, Zenon
        <5> QED
          BY <5>2, <5>3
      <4>2. CASE id \in first .. first + m - 1
        <5>1. s.records[id] = [vector |-> good[id - first + 1], id |-> id]
          BY <2>6, <4>2
        <5>2. s.records[id].id = id
          BY <5>1
        <5>3. id \in 1 .. s.next_id - 1
          BY <2>7, <3>1, <4>2
        <5> QED
          BY <5>2, <5>3
      <4> QED
        BY <2>6, <3>2, <4>1, <4>2
    <3> QED
      BY <2>7, <3>1, <3>2
  <2>9. CASE bad # 0
    <3>1. failing = [vectors |-> theirs, failed |-> TRUE]
      <4> DEFINE r == told[x]
      <4>1. r = [vectors |-> theirs, failed |-> r.failed]
        BY <2>7
      <4> HIDE DEF r, theirs
      <4>2. [r EXCEPT !.failed = TRUE] = [vectors |-> theirs, failed |-> TRUE]
        <5> DEFINE f == r.failed
                   b == TRUE
        <5>1. r = [vectors |-> theirs, failed |-> f]
          BY <4>1
        <5> HIDE DEF f, b
        <5>2. [r EXCEPT !.failed = b] = [vectors |-> theirs, failed |-> b]
          BY <5>1
        <5> QED
          BY <5>2 DEF b
      <4> QED
        BY <4>2 DEF r
    <3> HIDE DEF failing
    <3>2. failing.vectors = theirs /\ failing.failed = TRUE /\ failing = [vectors |-> failing.vectors, failed |-> failing.failed]
      BY <3>1
    <3>3. KeepsTold(s, failing)
      BY <2>6, <2>7, <2>8, <3>2 DEF KeepsTold
    <3> QED
      BY <1>7, <2>2, <2>3, <2>4, <2>9, <3>3
  <2>10. CASE bad = 0
    <3>1. m = n /\ good = items /\ Len(items) = n /\ n \in Nat
      BY <2>1, <2>5, <2>10
    <3>2. known = [vectors |-> more, failed |-> told[x].failed]
      <4> DEFINE r == told[x]
      <4>1. r = [vectors |-> theirs, failed |-> r.failed]
        BY <2>7
      <4> HIDE DEF r, theirs, more
      <4>2. [r EXCEPT !.vectors = more] = [vectors |-> more, failed |-> r.failed]
        BY <4>1
      <4> QED
        BY <4>2 DEF r
    <3>3. DOMAIN more = DOMAIN theirs \cup first .. first + n - 1
      BY <3>1
    <3>4. \A id \in DOMAIN more : more[id] = IF id < first THEN theirs[id] ELSE items[id - first + 1]
      OBVIOUS
    <3> HIDE DEF known, more
    <3>5. known.vectors = more /\ known.failed = told[x].failed /\ known = [vectors |-> known.vectors, failed |-> known.failed]
      BY <3>2
    <3>6. ASSUME NEW id \in DOMAIN more PROVE id \in DOMAIN s.records /\ s.records[id].vector = more[id]
      <4>1. CASE id \in DOMAIN theirs
        <5>1. id < first /\ id \in DOMAIN stores[x].records /\ stores[x].records[id].vector = theirs[id]
          BY <2>7, <4>1
        <5>2. id \in DOMAIN s.records /\ s.records[id] = stores[x].records[id] /\ more[id] = theirs[id]
          BY <2>6, <3>4, <3>6, <5>1
        <5> QED
          BY <5>1, <5>2, Zenon
      <4>2. CASE id \in first .. first + n - 1
        <5>1. ~(id < first) /\ id \in first .. first + m - 1
          BY <2>7, <3>1, <4>2
        <5>2. id \in DOMAIN s.records /\ s.records[id] = [vector |-> good[id - first + 1], id |-> id]
          BY <2>6, <5>1
        <5>3. s.records[id].vector = good[id - first + 1]
          BY <5>2
        <5>4. more[id] = good[id - first + 1]
          BY <3>1, <3>4, <3>6, <5>1
        <5> QED
          BY <5>2, <5>3, <5>4
      <4> QED
        BY <3>3, <3>6, <4>1, <4>2
    <3>7. ~told[x].failed => DOMAIN s.records = DOMAIN more
      BY <2>6, <2>7, <3>1, <3>3
    <3>8. KeepsTold(s, known)
      BY <2>6, <2>8, <3>5, <3>6, <3>7 DEF KeepsTold
    <3> QED
      BY <1>7, <2>2, <2>3, <2>4, <2>10, <3>8
  <2> QED
    BY <2>9, <2>10
<1>10. ASSUME NEW x \in Spots, NEW D, Addon!RemoveBatch(x, D) PROVE ObjectsInv'
  <2> DEFINE m == stores[x].records
             less == Addon!Without(m, D)
             s == [stores[x] EXCEPT !.records = less]
             theirs == told[x].vectors
             known == [told[x] EXCEPT !.vectors = Addon!Without(theirs, D)]
  <2>1. /\ alive[x] = "store" /\ stores' = [stores EXCEPT ![x] = s] /\ call' = Addon!NoCall
        /\ told' = [told EXCEPT ![x] = known] /\ UNCHANGED <<alive, encoders, tokenizers>>
    BY <1>10 DEF Addon!RemoveBatch
  <2>2. less \in Records /\ DOMAIN less = DOMAIN m \ D /\ \A k \in DOMAIN m \ D : less[k] = m[k]
    <3>1. m \in Records
      BY <1>b, <2>1
    <3> HIDE DEF m
    <3> QED
      BY <3>1, RecordsWithout
  <2> HIDE DEF less
  <2>3. s \in Store /\ s.records = less /\ s.next_id = stores[x].next_id
    BY <1>b, <2>1, <2>2 DEF Store
  <2>4. /\ known = [vectors |-> known.vectors, failed |-> known.failed] /\ known.failed = told[x].failed
        /\ DOMAIN known.vectors = DOMAIN theirs \ D
        /\ \A k \in DOMAIN known.vectors : known.vectors[k] = theirs[k]
    <3>1. told[x] = [vectors |-> theirs, failed |-> told[x].failed]
      BY <1>b, <2>1 DEF KeepsTold
    <3> QED
      BY <3>1 DEF Addon!Without
  <2>5. /\ \A id \in DOMAIN m : id \in 1 .. stores[x].next_id - 1 /\ m[id].id = id
        /\ \A id \in DOMAIN theirs : id \in DOMAIN m /\ m[id].vector = theirs[id]
        /\ ~told[x].failed => DOMAIN m = DOMAIN theirs
    BY <1>b, <2>1 DEF KeepsTold
  <2>6. s.next_id # 0
    BY <1>b, <2>1, <2>3
  <2> HIDE DEF s, known, m, theirs
  <2>7. KeepsTold(s, known)
    BY <2>2, <2>3, <2>4, <2>5, <2>6 DEF KeepsTold
  <2> QED
    BY <1>7, <2>1, <2>7
<1>11. ASSUME NEW x \in Spots, NEW id, Addon!UpdateMetadata(x, id) PROVE ObjectsInv'
  <2> DEFINE m == stores[x].records
             e == [m[id] EXCEPT !.id = id]
             s == [stores[x] EXCEPT !.records = [m EXCEPT ![id] = e]]
  <2>1. /\ alive[x] = "store" /\ id \in DOMAIN m /\ stores' = [stores EXCEPT ![x] = s] /\ call' = Addon!NoCall
        /\ UNCHANGED <<alive, encoders, tokenizers, told>>
    BY <1>11 DEF Addon!UpdateMetadata
  <2>2. m \in Records /\ m[id].id = id /\ m[id] \in PgRecord
    BY <1>b, <2>1, RecordsAre DEF KeepsTold
  <2>3. e = m[id]
    BY <2>2 DEF PgRecord
  <2>4. [m EXCEPT ![id] = e] = m
    BY <2>1, <2>2, <2>3, RecordsAre DEF Records
  <2>5. s = stores[x]
    BY <1>b, <2>1, <2>4 DEF Store
  <2> HIDE DEF s
  <2> QED
    BY <1>b, <1>7, <2>1, <2>5
<1>12. ASSUME NEW x \in Spots, NEW sought \in Vectors, NEW k \in 0 .. 2, Addon!Search(x, sought, k) PROVE ObjectsInv'
  <2>1. call'.op = "search" /\ UNCHANGED <<alive, encoders, tokenizers, stores, told>>
    BY <1>12 DEF Addon!Search
  <2>2. Addon!SearchIsNearest'
    BY <1>12, NearestFirst
  <2>3. Addon!ObjectsTypeOK'
    BY <2>1 DEF ObjectsInv, Addon!ObjectsTypeOK
  <2> QED
    BY <2>1, <2>2, <2>3 DEF ObjectsInv
<1>13. CASE UNCHANGED Addon!objectVars
  <2>1. UNCHANGED <<alive, encoders, tokenizers, stores, told, call>>
    BY <1>13 DEF Addon!objectVars
  <2>2. Addon!ObjectsTypeOK' /\ Addon!SearchIsNearest' /\ (call'.op = "tokenize" => (Addon!Decode(call.at, call.ids) = call.text)')
    BY <2>1 DEF ObjectsInv, Addon!ObjectsTypeOK, Addon!SearchIsNearest, Addon!Decode
  <2> QED
    BY <2>1, <2>2 DEF ObjectsInv
<1>14. ASSUME NEW x \in Spots, NEW d, Addon!InitEncoder(x, d) PROVE ObjectsInv'
  BY <1>3, <1>14 DEF Addon!InitEncoder
<1>15. ASSUME NEW x \in Spots, NEW batch, Addon!Encode(x, batch) PROVE ObjectsInv'
  BY <1>3, <1>15 DEF Addon!Encode
<1> QED
  BY <1>1, <1>2, <1>4, <1>5, <1>6, <1>8, <1>9, <1>10, <1>11, <1>12, <1>13, <1>14, <1>15 DEF Addon!ObjectsNext

LEMMA ObjectsStart == Addon!ObjectsInit => ObjectsInv
<1> SUFFICES ASSUME Addon!ObjectsInit PROVE ObjectsInv
  OBVIOUS
<1>1. alive = [x \in Spots |-> "free"] /\ tokenizers = <<>> /\ call.op = "none"
  BY DEF Addon!ObjectsInit, Addon!NoCall
<1>2. Addon!SearchIsNearest
  BY <1>1 DEF Addon!SearchIsNearest
<1> QED
  BY <1>1, <1>2 DEF ObjectsInv, Addon!ObjectsTypeOK, Beings

LEMMA ObjectsAnswer ==
  ObjectsInv => Addon!ObjectsTypeOK /\ Addon!TokensReadBack /\ Addon!StoreHoldsTold /\ Addon!SearchIsNearest
<1> SUFFICES ASSUME ObjectsInv PROVE Addon!TokensReadBack /\ Addon!StoreHoldsTold
  BY DEF ObjectsInv
<1>1. Addon!TokensReadBack
  BY DEF ObjectsInv, Addon!TokensReadBack, ReadsBack, Numbered
<1>2. ASSUME NEW x \in Spots, alive[x] = "store", NEW id \in DOMAIN stores[x].records PROVE id < stores[x].next_id
  <2>1. stores[x].next_id \in Nat /\ id \in 1 .. stores[x].next_id - 1
    BY <1>2 DEF ObjectsInv, KeepsTold, Store
  <2> QED
    BY <2>1
<1>3. Addon!StoreHoldsTold
  BY <1>2 DEF ObjectsInv, Addon!StoreHoldsTold, KeepsTold
<1> QED
  BY <1>1, <1>3

------------------------------------------------------------------------------
(* NativeAddon: objects that hold an index or a text engine.               *)

Maps == UNION {[D -> Payloads] : D \in SUBSET Items}
Index == [kind : {"hnsw", "flat", "bm25"}, content : Maps, buried : Maps, count : Int, room : Rooms \cup {0}]

Within(known, content) == \A i \in DOMAIN known : i \in DOMAIN content /\ content[i] = known[i]

\* x has what its caller knows to be there, and as a FlatIndex or BM25Engine only that.
Holds(x, known) == Within(known, x.content) /\ (x.kind # "hnsw" => DOMAIN x.content = DOMAIN known)

\* What is promised is there, in memory and in the file.
HeldInv == /\ object \in [Handles -> Index \cup {Addon!Nothing}] /\ promised \in [Handles -> Maps]
           /\ \A h \in Handles : object[h] \in Index => Holds(object[h], promised[h])
           /\ onDisk \in [object : Index \cup {Addon!Nothing}, promised : Maps]
           /\ onDisk.object \in Index => Holds(onDisk.object, onDisk.promised)

LEMMA NothingIsNone == Addon!Nothing \notin Index /\ Addon!Nothing.kind = "none" /\ <<>> \in Maps
<1>1. Addon!Nothing.kind = "none"
  BY DEF Addon!Nothing
<1>2. \A x \in Index : x.kind # "none"
  BY DEF Index
<1>3. <<>> \in [{} -> Payloads]
  OBVIOUS
<1> QED
  BY <1>1, <1>2, <1>3 DEF Maps

LEMMA MapIs ==
  ASSUME NEW m \in Maps
  PROVE  /\ DOMAIN m \subseteq Items /\ \A i \in DOMAIN m : m[i] \in Payloads
         /\ m = [i \in DOMAIN m |-> m[i]]
  BY DEF Maps

LEMMA MapMade ==
  ASSUME NEW D \in SUBSET Items, NEW m, m \in [D -> Payloads]
  PROVE  m \in Maps
  BY DEF Maps

LEMMA MapWith ==
  ASSUME NEW m \in Maps, NEW i \in Items, NEW v \in Payloads
  PROVE  /\ Addon!With(m, i, v) \in Maps /\ DOMAIN Addon!With(m, i, v) = DOMAIN m \cup {i}
         /\ Addon!With(m, i, v)[i] = v /\ \A j \in DOMAIN m : j # i => Addon!With(m, i, v)[j] = m[j]
<1>1. Addon!With(m, i, v) = [y \in DOMAIN m \cup {i} |-> IF y = i THEN v ELSE m[y]]
  BY DEF Addon!With
<1>2. Addon!With(m, i, v) \in [DOMAIN m \cup {i} -> Payloads]
  BY <1>1, MapIs
<1> QED
  BY <1>1, <1>2, MapIs, MapMade

LEMMA MapWithout ==
  ASSUME NEW m \in Maps, NEW D
  PROVE  /\ Addon!Without(m, D) \in Maps /\ DOMAIN Addon!Without(m, D) = DOMAIN m \ D
         /\ \A j \in DOMAIN m \ D : Addon!Without(m, D)[j] = m[j]
<1>1. Addon!Without(m, D) = [y \in DOMAIN m \ D |-> m[y]]
  BY DEF Addon!Without
<1>2. Addon!Without(m, D) \in [DOMAIN m \ D -> Payloads]
  BY <1>1, MapIs
<1> QED
  BY <1>1, <1>2, MapIs, MapMade

\* An item that is taken does not hide another, and one that leaves takes none with it.
LEMMA IndexEntered ==
  ASSUME NEW x \in Index, NEW i \in Items, NEW v \in Payloads
  PROVE  LET after == Addon!Entered(x, i, v).content
         IN  /\ Addon!Entered(x, i, v) \in Index /\ Addon!Entered(x, i, v).kind = x.kind
             /\ DOMAIN after = DOMAIN x.content \cup {i}
             /\ after[i] = v /\ \A j \in DOMAIN x.content : j # i => after[j] = x.content[j]
<1>1. x.content \in Maps /\ x.buried \in Maps /\ x.count + 1 \in Int
  BY DEF Index
<1>2. Addon!With(x.content, i, v) \in Maps /\ Addon!Without(x.buried, {i}) \in Maps
  BY <1>1, MapWith, MapWithout
<1>3. Addon!Entered(x, i, v) = [x EXCEPT !.content = Addon!With(x.content, i, v),
                                         !.buried = Addon!Without(x.buried, {i}), !.count = x.count + 1]
  BY DEF Addon!Entered
<1>4. /\ Addon!Entered(x, i, v) \in Index /\ Addon!Entered(x, i, v).kind = x.kind
      /\ Addon!Entered(x, i, v).content = Addon!With(x.content, i, v)
  BY <1>1, <1>2, <1>3 DEF Index
<1> DEFINE m == x.content
<1>5. m \in Maps
  BY <1>1
<1> HIDE DEF m
<1>6. /\ DOMAIN Addon!With(m, i, v) = DOMAIN m \cup {i} /\ Addon!With(m, i, v)[i] = v
      /\ \A j \in DOMAIN m : j # i => Addon!With(m, i, v)[j] = m[j]
  BY ONLY <1>5, i \in Items, v \in Payloads, MapWith
<1> QED
  BY <1>4, <1>6 DEF m

LEMMA IndexLeft ==
  ASSUME NEW x \in Index, NEW i \in DOMAIN x.content
  PROVE  LET after == Addon!Left(x, i).content
         IN  /\ Addon!Left(x, i) \in Index /\ Addon!Left(x, i).kind = x.kind
             /\ DOMAIN after = DOMAIN x.content \ {i} /\ \A j \in DOMAIN after : after[j] = x.content[j]
<1>1. x.content \in Maps /\ x.buried \in Maps /\ x.count - 1 \in Int
  BY DEF Index
<1>2. /\ Addon!Without(x.content, {i}) \in Maps /\ Addon!With(x.buried, i, x.content[i]) \in Maps
  BY <1>1, MapIs, MapWith, MapWithout
<1>3. Addon!Left(x, i) = [x EXCEPT !.content = Addon!Without(x.content, {i}), !.count = x.count - 1,
                                   !.buried = IF x.kind = "hnsw" THEN Addon!With(x.buried, i, x.content[i]) ELSE x.buried]
  BY DEF Addon!Left
<1>4. /\ Addon!Left(x, i) \in Index /\ Addon!Left(x, i).kind = x.kind
      /\ Addon!Left(x, i).content = Addon!Without(x.content, {i})
  BY <1>1, <1>2, <1>3 DEF Index
<1> DEFINE m == x.content
<1>5. m \in Maps
  BY <1>1
<1> HIDE DEF m
<1>6. /\ DOMAIN Addon!Without(m, {i}) = DOMAIN m \ {i}
      /\ \A j \in DOMAIN m \ {i} : Addon!Without(m, {i})[j] = m[j]
  BY ONLY <1>5, MapWithout
<1> QED
  BY <1>4, <1>6 DEF m

Batch == [x : Index, known : Maps, ok : BOOLEAN]

\* One item of a batch.
LEMMA ItemTaken ==
  ASSUME NEW r \in Batch, NEW item \in Items \X Payloads
  PROVE  LET next == Addon!Taking(r, item)
         IN  /\ next \in Batch /\ next.x.kind = r.x.kind
             /\ \A known \in Maps : Within(known, r.x.content) => Within(known, next.x.content)
             /\ Within(r.known, r.x.content) => Within(next.known, next.x.content)
             /\ r.ok /\ DOMAIN r.known = DOMAIN r.x.content /\ next.ok => DOMAIN next.known = DOMAIN next.x.content
             /\ ~next.ok => next.x = r.x
             /\ next.ok => r.ok
<1> DEFINE next == Addon!Taking(r, item)
           i == item[1]
           v == item[2]
           x == Addon!Entered(r.x, i, v)
<1>1. i \in Items /\ v \in Payloads /\ r.x \in Index /\ r.known \in Maps /\ r.x.content \in Maps /\ r.ok \in BOOLEAN
  BY DEF Batch, Index
<1>2. CASE r.ok /\ ~Addon!Refused(r.x, i, v)
  <2>1. next = [r EXCEPT !.x = x, !.known = Addon!With(r.known, i, v)]
    BY <1>2 DEF Addon!Taking
  <2>2. /\ x \in Index /\ x.kind = r.x.kind
        /\ DOMAIN x.content = DOMAIN r.x.content \cup {i}
        /\ x.content[i] = v /\ \A j \in DOMAIN r.x.content : j # i => x.content[j] = r.x.content[j]
    BY <1>1, IndexEntered
  <2>3. i \notin DOMAIN r.x.content
    BY <1>2 DEF Addon!Refused
  <2> HIDE DEF next, x, i, v
  <2>4. /\ Addon!With(r.known, i, v) \in Maps /\ DOMAIN Addon!With(r.known, i, v) = DOMAIN r.known \cup {i}
        /\ Addon!With(r.known, i, v)[i] = v /\ \A j \in DOMAIN r.known : j # i => Addon!With(r.known, i, v)[j] = r.known[j]
        /\ DOMAIN x.content = DOMAIN r.x.content \cup {i}
        /\ x.content[i] = v /\ \A j \in DOMAIN r.x.content : j # i => x.content[j] = r.x.content[j]
    <3> DEFINE m == r.known
    <3>1. m \in Maps
      BY <1>1
    <3> HIDE DEF m
    <3>2. /\ Addon!With(m, i, v) \in Maps /\ DOMAIN Addon!With(m, i, v) = DOMAIN m \cup {i}
          /\ Addon!With(m, i, v)[i] = v
          /\ \A j \in DOMAIN m : j # i => Addon!With(m, i, v)[j] = m[j]
      BY ONLY <1>1, <3>1, MapWith
    <3> QED
      BY <2>2, <3>2 DEF m
  <2>5. next \in Batch /\ next.x = x /\ next.known = Addon!With(r.known, i, v) /\ next.ok = r.ok
    BY <1>1, <2>1, <2>2, <2>4 DEF Batch
  <2>6. \A known \in Maps : Within(known, r.x.content) => Within(known, x.content)
    BY <2>3, <2>4 DEF Within
  <2>7. Within(r.known, r.x.content) => Within(Addon!With(r.known, i, v), x.content)
    BY <2>3, <2>4 DEF Within
  <2> QED
    BY <1>2, <2>2, <2>4, <2>5, <2>6, <2>7 DEF next
<1>3. CASE ~(r.ok /\ ~Addon!Refused(r.x, i, v))
  <2>1. next = [r EXCEPT !.ok = FALSE]
    BY <1>3 DEF Addon!Taking
  <2> HIDE DEF next
  <2>2. next \in Batch /\ next.x = r.x /\ next.known = r.known /\ next.ok = FALSE
    BY <2>1 DEF Batch
  <2> QED
    BY <2>2 DEF next
<1> QED
  BY <1>2, <1>3

\* A batch of any length adds to an HnswIndex, and one item to any index.
LEMMA BatchTaken ==
  ASSUME NEW x \in Index, NEW known \in Maps, Holds(x, known), NEW n \in Nat, NEW batch \in [1 .. n -> Items \X Payloads],
         x.kind = "hnsw" \/ n = 1
  PROVE  LET r == Addon!AfterTaking([x |-> x, known |-> known, ok |-> TRUE], batch)
         IN  /\ r.x \in Index /\ r.known \in Maps
             /\ r.ok => Holds(r.x, r.known)
             /\ ~r.ok => Holds(r.x, known)
<1> DEFINE a == [x |-> x, known |-> known, ok |-> TRUE]
           S == {r \in Batch : /\ r.x.kind = x.kind /\ Within(known, r.x.content) /\ Within(r.known, r.x.content)
                               /\ (r.ok => x.kind = "hnsw" \/ DOMAIN r.known = DOMAIN r.x.content)}
           step == [k \in 1 .. n |-> [r \in S |-> Addon!Taking(r, batch[k])]]
           body(f) == [k \in 0 .. n |-> IF k = 0 THEN a ELSE Addon!Taking(f[k - 1], batch[k])]
<1>1. a \in S
  BY DEF Batch, Holds
<1>2. ASSUME NEW r \in S, NEW k \in 1 .. n PROVE Addon!Taking(r, batch[k]) \in S
  <2>1. r \in Batch /\ batch[k] \in Items \X Payloads
    OBVIOUS
  <2> DEFINE next == Addon!Taking(r, batch[k])
  <2>2. /\ next \in Batch /\ next.x.kind = r.x.kind
        /\ Within(known, r.x.content) => Within(known, next.x.content)
        /\ Within(r.known, r.x.content) => Within(next.known, next.x.content)
        /\ r.ok /\ DOMAIN r.known = DOMAIN r.x.content /\ next.ok => DOMAIN next.known = DOMAIN next.x.content
        /\ next.ok => r.ok
    BY <2>1, ItemTaken
  <2> HIDE DEF next
  <2> QED
    BY <2>2 DEF next
<1>3. step \in [1 .. n -> [S -> S]]
  <2> HIDE DEF S
  <2> QED
    BY <1>2
<1>4. \E f : f = body(f)
  <2>1. PICK f : Run(n, S, a, step, f)
    <3> HIDE DEF S, a, step
    <3> QED
      BY <1>1, <1>3, Recursion
  <2>2. f \in [0 .. n -> S] /\ f[0] = a /\ \A k \in 1 .. n : f[k] = step[k][f[k - 1]]
    BY <2>1 DEF Run
  <2>3. \A k \in 1 .. n : k - 1 \in 0 .. n
    OBVIOUS
  <2>4. \A k \in 1 .. n : f[k] = Addon!Taking(f[k - 1], batch[k])
    <3> HIDE DEF S
    <3> QED
      BY <2>2, <2>3
  <2>5. \A k \in 0 .. n : k = 0 \/ k \in 1 .. n
    OBVIOUS
  <2>6. f = body(f)
    <3> HIDE DEF S, a
    <3> QED
      BY <2>2, <2>4, <2>5
  <2> QED
    BY <2>6
<1> DEFINE taken == CHOOSE f : f = body(f)
<1>5. taken = body(taken)
  <2> HIDE DEF body
  <2> QED
    BY <1>4
<1>6. Addon!AfterTaking(a, batch) = taken[n]
  <2>1. Len(batch) = n
    OBVIOUS
  <2> QED
    BY <2>1, Zenon DEF Addon!AfterTaking
<1> HIDE DEF taken
<1>7. taken[0] = a /\ \A k \in 1 .. n : taken[k] = Addon!Taking(taken[k - 1], batch[k])
  <2>1. 0 \in 0 .. n /\ \A k \in 1 .. n : k \in 0 .. n /\ k # 0
    OBVIOUS
  <2> HIDE DEF a
  <2> QED
    BY <1>5, <2>1
<1> DEFINE G == {k \in 0 .. n : taken[k] \in S}
<1>8. 0 \in G
  BY <1>1, <1>7
<1>9. \A k \in 1 .. n : k - 1 \in G => k \in G
  <2> HIDE DEF S
  <2> QED
    BY <1>2, <1>7
<1>10. n \in G
  <2> HIDE DEF G
  <2>1. \A k \in 0 .. n : k \in G
    BY ONLY <1>8, <1>9, n \in Nat, Interval
  <2> QED
    BY <2>1
<1> DEFINE r == taken[n]
<1>11. r \in S
  BY <1>10
<1>12. CASE x.kind = "hnsw"
  <2> HIDE DEF r
  <2>1. /\ r \in Batch /\ r.x.kind = "hnsw" /\ Within(known, r.x.content) /\ Within(r.known, r.x.content)
    BY <1>11, <1>12
  <2>2. r.x \in Index /\ r.known \in Maps
    BY <2>1 DEF Batch
  <2> QED
    BY <1>6, <2>1, <2>2 DEF r, Holds
<1>13. CASE x.kind # "hnsw"
  <2>1. n = 1
    BY <1>13
  <2>2. r = Addon!Taking(a, batch[1]) /\ batch[1] \in Items \X Payloads /\ a \in Batch
    BY <1>1, <1>7, <2>1
  <2> HIDE DEF r, a
  <2>3. ~r.ok => r.x = a.x
    BY <2>2, ItemTaken
  <2>4. /\ r \in Batch /\ r.x.kind = x.kind /\ Within(r.known, r.x.content)
        /\ r.ok => DOMAIN r.known = DOMAIN r.x.content
    BY <1>11, <1>13
  <2>5. r.x \in Index /\ r.known \in Maps
    BY <2>4 DEF Batch
  <2>6. a.x = x
    BY DEF a
  <2> QED
    BY <1>6, <2>3, <2>4, <2>5, <2>6 DEF r, a, Holds
<1> QED
  BY <1>12, <1>13

\* An object changes and the promises of its caller with it.
LEMMA ObjectBecomes ==
  ASSUME HeldInv, NEW h \in Handles, NEW x \in Index \cup {Addon!Nothing}, NEW known \in Maps,
         x \in Index => Holds(x, known), Addon!Become(h, x, known), UNCHANGED onDisk
  PROVE  HeldInv'
<1>1. object' = [object EXCEPT ![h] = x] /\ promised' = [promised EXCEPT ![h] = known]
  BY DEF Addon!Become
<1> HIDE DEF Holds
<1>2. \A g \in Handles : object'[g] = (IF g = h THEN x ELSE object[g]) /\ promised'[g] = IF g = h THEN known ELSE promised[g]
  BY <1>1 DEF HeldInv
<1> QED
  BY <1>1, <1>2 DEF HeldInv

LEMMA HeldSteps == HeldInv /\ [Addon!HeldNext]_(Addon!heldVars) => HeldInv'
<1> SUFFICES ASSUME HeldInv, [Addon!HeldNext]_(Addon!heldVars) PROVE HeldInv'
  OBVIOUS
<1>a. ASSUME NEW h \in Handles, object[h].kind \in {"hnsw", "flat", "bm25"}
      PROVE  object[h] \in Index /\ promised[h] \in Maps /\ Holds(object[h], promised[h])
  BY <1>a, NothingIsNone DEF HeldInv
<1>1. ASSUME NEW h \in Handles, Addon!CollectHeld(h) PROVE HeldInv'
  BY <1>1, NothingIsNone, ObjectBecomes DEF Addon!CollectHeld
<1>2. ASSUME NEW h \in Handles, NEW kind \in {"hnsw", "flat", "bm25"}, NEW room \in Rooms \cup {0},
             Addon!CreateHeld(h, Addon!NewIndex(kind, room))
      PROVE  HeldInv'
  <2> DEFINE x == Addon!NewIndex(kind, room)
  <2>1. x \in Index /\ x.content = <<>>
    BY NothingIsNone DEF Addon!NewIndex, Index
  <2>2. Holds(x, <<>>)
    BY <2>1 DEF Holds, Within
  <2> HIDE DEF x
  <2> QED
    BY <1>2, <2>1, <2>2, NothingIsNone, ObjectBecomes DEF Addon!CreateHeld, x
<1>3. ASSUME NEW h \in Handles, object[h].kind \in {"hnsw", "flat", "bm25"}, Addon!SaveHeld(h) PROVE HeldInv'
  <2>1. /\ onDisk' = [object |-> object[h], promised |-> promised[h]] /\ UNCHANGED <<object, promised>>
    BY <1>3 DEF Addon!SaveHeld
  <2> QED
    BY <1>3, <1>a, <2>1 DEF HeldInv
<1>4. ASSUME NEW h \in Handles, object[h].kind \in {"hnsw", "flat", "bm25"},
             NEW n \in Nat, NEW batch \in [1 .. n -> Items \X Payloads], object[h].kind = "hnsw" \/ n = 1,
             Addon!AddHeld(h, batch)
      PROVE  HeldInv'
  <2> DEFINE r == Addon!AfterTaking([x |-> object[h], known |-> promised[h], ok |-> TRUE], batch)
             known == IF r.ok THEN r.known ELSE promised[h]
  <2>1. /\ r.x \in Index /\ r.known \in Maps
        /\ r.ok => Holds(r.x, r.known)
        /\ ~r.ok => Holds(r.x, promised[h])
    BY <1>4, <1>a, BatchTaken
  <2>2. Addon!Become(h, r.x, known) /\ UNCHANGED onDisk
    BY <1>4 DEF Addon!AddHeld
  <2> HIDE DEF r
  <2>3. known \in Maps /\ Holds(r.x, known)
    BY <1>4, <1>a, <2>1
  <2> HIDE DEF known
  <2> QED
    BY <2>1, <2>2, <2>3, ObjectBecomes
<1>5. ASSUME NEW h \in Handles, object[h].kind \in {"hnsw", "flat", "bm25"}, NEW i \in Items, Addon!RemoveHeld(h, i)
      PROVE  HeldInv'
  <2> DEFINE x == Addon!Left(object[h], i)
             known == Addon!Without(promised[h], {i})
  <2>1. i \in DOMAIN object[h].content /\ Addon!Become(h, x, known) /\ UNCHANGED onDisk
    BY <1>5 DEF Addon!RemoveHeld
  <2>2. /\ object[h] \in Index /\ promised[h] \in Maps /\ Holds(object[h], promised[h])
        /\ object[h].content \in Maps
    BY <1>5, <1>a DEF Index
  <2>3. /\ x \in Index /\ x.kind = object[h].kind /\ DOMAIN x.content = DOMAIN object[h].content \ {i}
        /\ \A j \in DOMAIN x.content : x.content[j] = object[h].content[j]
    BY <2>1, <2>2, IndexLeft
  <2> HIDE DEF x, known
  <2>4. known \in Maps /\ Holds(x, known)
    <3> DEFINE m == promised[h]
    <3>1. m \in Maps
      BY <2>2
    <3> HIDE DEF m
    <3>2. /\ Addon!Without(m, {i}) \in Maps /\ DOMAIN Addon!Without(m, {i}) = DOMAIN m \ {i}
          /\ \A j \in DOMAIN m \ {i} : Addon!Without(m, {i})[j] = m[j]
      BY ONLY <3>1, MapWithout
    <3>3. /\ known \in Maps /\ DOMAIN known = DOMAIN promised[h] \ {i}
          /\ \A j \in DOMAIN promised[h] \ {i} : known[j] = promised[h][j]
      BY <3>2 DEF known, m
    <3> QED
      BY <2>2, <2>3, <3>3 DEF Holds, Within
  <2> QED
    BY <2>1, <2>3, <2>4, ObjectBecomes
<1>6. ASSUME NEW h \in Handles, object[h].kind = "hnsw", NEW room \in Rooms, Addon!ResizeHeld(h, room) PROVE HeldInv'
  <2> DEFINE x == [object[h] EXCEPT !.room = room]
  <2>1. object' = [object EXCEPT ![h] = x] /\ UNCHANGED <<onDisk, promised>>
    BY <1>6 DEF Addon!ResizeHeld
  <2>2. object[h] \in Index /\ promised[h] \in Maps /\ Holds(object[h], promised[h])
    BY <1>6, <1>a
  <2>3. x \in Index /\ x.kind = object[h].kind /\ x.content = object[h].content
    BY <2>2 DEF Index
  <2>4. Holds(x, promised[h])
    BY <2>2, <2>3 DEF Holds
  <2>5. Addon!Become(h, x, promised[h])
    BY <2>1 DEF Addon!Become, HeldInv
  <2> HIDE DEF x
  <2> QED
    BY <2>1, <2>2, <2>3, <2>4, <2>5, ObjectBecomes
<1>7. ASSUME NEW h \in Handles, object[h].kind = "bm25", NEW i \in Items, NEW v \in Payloads, Addon!UpdateHeld(h, i, v)
      PROVE  HeldInv'
  <2> DEFINE x == IF i \in DOMAIN object[h].content THEN Addon!Left(object[h], i) ELSE object[h]
             less == Addon!Without(promised[h], {i})
             more == Addon!With(promised[h], i, v)
  <2>1. /\ IF Addon!Refused(x, i, v) THEN Addon!Become(h, x, less)
                                     ELSE Addon!Become(h, Addon!Entered(x, i, v), more)
        /\ UNCHANGED onDisk
    BY <1>7 DEF Addon!UpdateHeld
  <2>2. /\ object[h] \in Index /\ promised[h] \in Maps /\ Holds(object[h], promised[h])
        /\ object[h].content \in Maps
    BY <1>7, <1>a DEF Index
  <2>3. /\ x \in Index /\ x.kind = "bm25" /\ DOMAIN x.content = DOMAIN object[h].content \ {i}
        /\ \A j \in DOMAIN x.content : x.content[j] = object[h].content[j]
    <3>1. CASE i \in DOMAIN object[h].content
      <4> DEFINE y == Addon!Left(object[h], i)
      <4>1. /\ y \in Index /\ y.kind = object[h].kind /\ DOMAIN y.content = DOMAIN object[h].content \ {i}
            /\ \A j \in DOMAIN y.content : y.content[j] = object[h].content[j]
        BY <2>2, <3>1, IndexLeft
      <4>2. x = y
        BY <3>1
      <4> HIDE DEF x, y
      <4> QED
        BY <1>7, <4>1, <4>2
    <3>2. CASE i \notin DOMAIN object[h].content
      BY <1>7, <2>2, <3>2
    <3> QED
      BY <3>1, <3>2
  <2> HIDE DEF x
  <2>4. /\ less \in Maps /\ DOMAIN less = DOMAIN promised[h] \ {i}
        /\ \A j \in DOMAIN less : less[j] = promised[h][j]
    <3> DEFINE m == promised[h]
    <3>1. m \in Maps
      BY <2>2
    <3> HIDE DEF m
    <3>2. /\ Addon!Without(m, {i}) \in Maps /\ DOMAIN Addon!Without(m, {i}) = DOMAIN m \ {i}
          /\ \A j \in DOMAIN m \ {i} : Addon!Without(m, {i})[j] = m[j]
      BY ONLY <3>1, MapWithout
    <3> QED
      BY <3>2 DEF m
  <2>5. Holds(x, less)
    <3> HIDE DEF less
    <3> QED
      BY <1>7, <2>2, <2>3, <2>4 DEF Holds, Within
  <2>6. /\ more \in Maps /\ DOMAIN more = DOMAIN promised[h] \cup {i}
        /\ more[i] = v /\ \A j \in DOMAIN promised[h] : j # i => more[j] = promised[h][j]
    BY <2>2, MapWith
  <2>7. /\ Addon!Entered(x, i, v) \in Index /\ Holds(Addon!Entered(x, i, v), more)
    <3> DEFINE y == Addon!Entered(x, i, v)
    <3>1. /\ y \in Index /\ y.kind = "bm25" /\ DOMAIN y.content = DOMAIN x.content \cup {i}
          /\ y.content[i] = v /\ \A j \in DOMAIN x.content : j # i => y.content[j] = x.content[j]
      BY <2>3, IndexEntered
    <3> HIDE DEF y, more
    <3>3. Holds(y, more)
      BY <1>7, <2>2, <2>3, <2>6, <3>1 DEF Holds, Within
    <3> QED
      BY <3>1, <3>3 DEF y
  <2> HIDE DEF less, more
  <2> QED
    BY <2>1, <2>3, <2>4, <2>5, <2>6, <2>7, ObjectBecomes
<1>8. ASSUME NEW h \in Handles, Addon!HnswLoad(h) PROVE HeldInv'
  <2> DEFINE x == onDisk.object
             all == [i \in DOMAIN x.content \cup DOMAIN x.buried |-> IF i \in DOMAIN x.content THEN x.content[i]
                                                                     ELSE x.buried[i]]
             back == [x EXCEPT !.content = all, !.buried = <<>>]
  <2>1. x.kind = "hnsw" /\ Addon!Become(h, back, onDisk.promised) /\ UNCHANGED onDisk
    BY <1>8 DEF Addon!HnswLoad
  <2>2. x \in Index /\ onDisk.promised \in Maps /\ Holds(x, onDisk.promised)
    BY <2>1, NothingIsNone DEF HeldInv
  <2>3. x.content \in Maps /\ x.buried \in Maps
    BY <2>2 DEF Index
  <2> HIDE DEF x
  <2>4. all \in Maps
    <3>1. all \in [DOMAIN x.content \cup DOMAIN x.buried -> Payloads]
      BY <2>3, MapIs
    <3>2. DOMAIN x.content \cup DOMAIN x.buried \subseteq Items
      BY <2>3, MapIs
    <3> QED
      BY <3>1, <3>2, MapMade
  <2>5. DOMAIN x.content \subseteq DOMAIN all /\ \A i \in DOMAIN x.content : all[i] = x.content[i]
    OBVIOUS
  <2> HIDE DEF all
  <2>6. back \in Index /\ back.content = all /\ back.kind = "hnsw"
    BY <2>1, <2>2, <2>4, NothingIsNone DEF Index
  <2> HIDE DEF back
  <2>7. Holds(back, onDisk.promised)
    BY <2>2, <2>5, <2>6 DEF Holds, Within
  <2> QED
    BY <2>1, <2>2, <2>6, <2>7, ObjectBecomes
<1>9. ASSUME NEW h \in Handles, Addon!FlatLoad(h) PROVE HeldInv'
  <2>1. CASE onDisk.object.kind = "flat"
    <3>1. onDisk.object \in Index /\ onDisk.promised \in Maps /\ Holds(onDisk.object, onDisk.promised)
      BY <2>1, NothingIsNone DEF HeldInv
    <3>2. Addon!Become(h, onDisk.object, onDisk.promised) /\ UNCHANGED onDisk
      BY <1>9, <2>1 DEF Addon!FlatLoad
    <3> QED
      BY <3>1, <3>2, ObjectBecomes
  <2>2. CASE onDisk.object.kind # "flat"
    <3>1. /\ object' = [g \in Handles |-> Addon!Nothing] /\ promised' = [g \in Handles |-> <<>>] /\ UNCHANGED onDisk
      BY <1>9, <2>2 DEF Addon!FlatLoad
    <3> QED
      BY <3>1, NothingIsNone DEF HeldInv
  <2> QED
    BY <2>1, <2>2
<1>10. CASE UNCHANGED Addon!heldVars
  BY <1>10 DEF Addon!heldVars, HeldInv
<1>11. ASSUME NEW h \in Handles, Addon!HnswCall(h) PROVE HeldInv'
  <2>1. object[h].kind = "hnsw"
    BY <1>11 DEF Addon!HnswCall
  <2>2. ASSUME NEW batch \in Addon!SeqOf(Items \X Payloads, 2), Addon!AddHeld(h, batch) PROVE HeldInv'
    <3>1. PICK n \in 0 .. 2 : batch \in [1 .. n -> Items \X Payloads]
      BY <2>2 DEF Addon!SeqOf
    <3> QED
      BY <1>4, <2>1, <2>2, <3>1
  <2> QED
    BY <1>11, <2>1, <2>2, <1>3, <1>5, <1>6 DEF Addon!HnswCall
<1>12. ASSUME NEW h \in Handles, Addon!FlatCall(h) \/ Addon!EngineCall(h) PROVE HeldInv'
  <2>1. object[h].kind \in {"flat", "bm25"}
    BY <1>12 DEF Addon!FlatCall, Addon!EngineCall
  <2>2. ASSUME NEW i \in Items, NEW v \in Payloads, Addon!AddHeld(h, <<<<i, v>>>>) PROVE HeldInv'
    <3>1. <<<<i, v>>>> \in [1 .. 1 -> Items \X Payloads]
      OBVIOUS
    <3> QED
      BY <1>4, <2>1, <2>2, <3>1
  <2> QED
    BY <1>12, <2>1, <2>2, <1>3, <1>5, <1>7 DEF Addon!FlatCall, Addon!EngineCall
<1>13. ASSUME NEW h \in Handles, Addon!EngineLoad(h) PROVE HeldInv'
  BY <1>2, <1>13 DEF Addon!EngineLoad
<1> QED
  BY <1>1, <1>2, <1>8, <1>9, <1>10, <1>11, <1>12, <1>13 DEF Addon!HeldNext

LEMMA HeldStarts == Addon!HeldInit => HeldInv
  BY NothingIsNone DEF Addon!HeldInit, HeldInv

LEMMA HeldAnswers == HeldInv => Addon!HeldAsPromised
  BY NothingIsNone DEF HeldInv, Addon!HeldAsPromised, Holds, Within

------------------------------------------------------------------------------
\* What is in front of a database.  One worker's registry tracks of each
\* collection what a search answers for it, and has every collection it answered
\* as created, until a worker dies or a save of the registry fails; and wherever
\* it dies or fails, a collection tracks no other's documents until one is
\* deleted.  Of the addon's databases one at most is alive and none loses what it
\* was given; the addon's objects keep what they were told by address and by
\* handle; spans form trees with one owner each, and an insertion is counted if
\* any is.
THEOREM FrontsStay == StoresSpec => []FrontsAgree
<1>1. (/\ instance = "spans" => SpanInv
       /\ instance = "metrics" => MetricInv
       /\ instance = "api" => ApiInv
       /\ instance = "addon" => AddonInv
       /\ instance = "objects" => ObjectsInv
       /\ instance = "held" => HeldInv) => FrontsAgree
  BY MetricsAnswer, ApiAnswers, ObjectsAnswer, HeldAnswers DEF FrontsAgree, SpanInv, AddonInv
<1>2. StoresSpec => [](instance = "spans" => SpanInv)
  <2>1. Traces!Init /\ [][Traces!SpanNext]_(Traces!vars) => []SpanInv
    BY SpanStarts, SpanSteps, PTL
  <2>2. ~(instance = "spans") /\ [FALSE]_instance => ~(instance = "spans")'
    OBVIOUS
  <2> QED
    BY <2>1, <2>2, PTL DEF StoresSpec
<1>3. StoresSpec => [](instance = "metrics" => MetricInv)
  <2>1. Traces!Init /\ [][Traces!MetricNext]_(Traces!vars) => []MetricInv
    BY MetricsStart, MetricSteps, PTL
  <2>2. ~(instance = "metrics") /\ [FALSE]_instance => ~(instance = "metrics")'
    OBVIOUS
  <2> QED
    BY <2>1, <2>2, PTL DEF StoresSpec
<1>4. StoresSpec => [](instance = "api" => ApiInv)
  <2>1. Api!Spec => []ApiInv
    BY ApiStarts, ApiSteps, PTL DEF Api!Spec
  <2>2. ~(instance = "api") /\ [FALSE]_instance => ~(instance = "api")'
    OBVIOUS
  <2> QED
    BY <2>1, <2>2, PTL DEF StoresSpec
<1>5. StoresSpec => [](instance = "addon" => AddonInv)
  <2>1. Addon!Spec => []AddonInv
    BY AddonStarts, AddonSteps, PTL DEF Addon!Spec
  <2>2. ~(instance = "addon") /\ [FALSE]_instance => ~(instance = "addon")'
    OBVIOUS
  <2> QED
    BY <2>1, <2>2, PTL DEF StoresSpec
<1>6. StoresSpec => [](instance = "objects" => ObjectsInv)
  <2>1. Addon!ObjectsSpec => []ObjectsInv
    BY ObjectsStart, ObjectsSteps, PTL DEF Addon!ObjectsSpec
  <2>2. ~(instance = "objects") /\ [FALSE]_instance => ~(instance = "objects")'
    OBVIOUS
  <2> QED
    BY <2>1, <2>2, PTL DEF StoresSpec
<1>7. StoresSpec => [](instance = "held" => HeldInv)
  <2>1. Addon!HeldSpec => []HeldInv
    BY HeldStarts, HeldSteps, PTL DEF Addon!HeldSpec
  <2>2. ~(instance = "held") /\ [FALSE]_instance => ~(instance = "held")'
    OBVIOUS
  <2> QED
    BY <2>1, <2>2, PTL DEF StoresSpec
<1> QED
  BY <1>1, <1>2, <1>3, <1>4, <1>5, <1>6, <1>7, PTL
==============================================================================
