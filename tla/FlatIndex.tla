------------------------------ MODULE FlatIndex ------------------------------
(***************************************************************************)
(* FlatIndex (src/index/hnsw.cpp, include/vdb/index.hpp): ids and vectors  *)
(* side by side in the order they were added, a map from an id to its      *)
(* place, and a file.  Neither save nor load tests its stream while it     *)
(* goes: a file cut short is answered as saved, and loading it makes up    *)
(* the rest: an id is whatever its variable holds, a vector is zero.       *)
(***************************************************************************)
EXTENDS Integers, Sequences

CONSTANTS Ids, Vectors,
          Zero,   \* the zero vector
          None,
          MaxSize \* bound: vectors in the index

VARIABLES
    ids,         \* ids_
    vectors,     \* vectors_
    id_to_index, \* id -> place, or 0
    file,        \* the entries in the file and the number its header gives, or None
    saved,       \* history: what the index held when that file was written
    sound        \* history: no file cut short has been loaded

vars == <<ids, vectors, id_to_index, file, saved, sound>>

Init == /\ ids = <<>> /\ vectors = <<>>
        /\ id_to_index = [id \in Ids |-> 0]
        /\ file = None
        /\ saved = [id \in Ids |-> None]
        /\ sound = TRUE

AddReplacing(id, v) ==   \* mutant of Add: an id that is there is not refused
    /\ Len(ids) < MaxSize
    /\ id_to_index' = [id_to_index EXCEPT ![id] = Len(vectors) + 1]
    /\ ids' = Append(ids, id)
    /\ vectors' = Append(vectors, v)
    /\ UNCHANGED <<file, saved, sound>>

Add(id, v) ==
    /\ id_to_index[id] = 0
    /\ Len(ids) < MaxSize
    /\ id_to_index' = [id_to_index EXCEPT ![id] = Len(vectors) + 1]
    /\ ids' = Append(ids, id)
    /\ vectors' = Append(vectors, v)
    /\ UNCHANGED <<file, saved, sound>>

\* What get_vector answers, by id.
Contents == [id \in Ids |-> IF id_to_index[id] = 0 THEN None ELSE vectors[id_to_index[id]]]

SaveFirstVector(n) ==   \* mutant of SaveUpTo: the same vector for every entry
    /\ file' = [count |-> Len(vectors), ids |-> SubSeq(ids, 1, n), vectors |-> [i \in 1 .. n |-> vectors[1]]]
    /\ saved' = Contents
    /\ UNCHANGED <<ids, vectors, id_to_index, sound>>

\* save writes the count first; after n entries the file may end, because the
\* disk is full or the process dies.
SaveUpTo(n) ==
    /\ file' = [count |-> Len(vectors), ids |-> SubSeq(ids, 1, n), vectors |-> SubSeq(vectors, 1, n)]
    /\ saved' = Contents
    /\ UNCHANGED <<ids, vectors, id_to_index, sound>>

Save == SaveUpTo(Len(ids))
SaveInPart == \E n \in 0 .. Len(ids) - 1 : SaveUpTo(n)

FirstPlace(all) == [id \in Ids |-> IF \E i \in DOMAIN all : all[i] = id   \* mutant of LastPlace
                                   THEN CHOOSE i \in DOMAIN all :
                                            all[i] = id /\ \A j \in DOMAIN all : all[j] = id => i <= j
                                   ELSE 0]

\* The map load makes: the last place of each id.
LastPlace(all) == [id \in Ids |-> IF \E i \in DOMAIN all : all[i] = id
                                  THEN CHOOSE i \in DOMAIN all :
                                           all[i] = id /\ \A j \in DOMAIN all : all[j] = id => j <= i
                                  ELSE 0]

\* The file in which no save was cut short.
Whole == file = None \/ Len(file.ids) = file.count

Load == /\ file # None
        /\ \E garbage \in [1 .. file.count -> Ids] :
              ids' = [i \in 1 .. file.count |-> IF i <= Len(file.ids) THEN file.ids[i] ELSE garbage[i]]
        /\ vectors' = [i \in 1 .. file.count |-> IF i <= Len(file.vectors) THEN file.vectors[i] ELSE Zero]
        /\ id_to_index' = LastPlace(ids')
        /\ sound' = (sound /\ Whole)
        /\ UNCHANGED <<file, saved>>

Next == \/ \E id \in Ids, v \in Vectors : Add(id, v)
        \/ Save \/ SaveInPart \/ Load

Spec == Init /\ [][Next]_vars

------------------------------------------------------------------------------
\* Whatever was loaded, and from whatever file: what contains and get_vector
\* say of an id is the last entry of that id, and search answers only ids that
\* contains knows.
PlacesAreLast ==
    /\ Len(ids) = Len(vectors)
    /\ \A id \in Ids : id_to_index[id] # 0 => /\ id_to_index[id] \in DOMAIN ids
                                              /\ ids[id_to_index[id]] = id
    /\ \A i \in DOMAIN ids : ids[i] \in Ids /\ i <= id_to_index[ids[i]]

\* Until a file cut short is loaded no id is there twice, in memory or in the file.
NoIdTwice == sound =>
    /\ \A i, j \in DOMAIN ids : ids[i] = ids[j] => i = j
    /\ file # None => \A i, j \in DOMAIN file.ids : file.ids[i] = file.ids[j] => i = j

\* From a file that is whole, load brings back what the index held.
LoadRestores == Load /\ Whole => Contents' = saved
==============================================================================
