------------------------------ MODULE VectorMap ------------------------------
(***************************************************************************)
(* What VectorStore (include/vdb/storage.hpp) promises its caller: a       *)
(* dictionary from vector ids to vectors.  Slots, the free list, growth of *)
(* the file and compaction are invisible here.                             *)
(***************************************************************************)
CONSTANTS Ids,      \* the vector ids callers use
          Vectors,  \* the vectors (of the configured dimension)
          Absent    \* no vector: what get() answers for an id not stored

VARIABLE map        \* id -> vector or Absent

MapTypeOK == map \in [Ids -> Vectors \cup {Absent}]

Init == map = [id \in Ids |-> Absent]

\* add: an id that is present is never overwritten.
Put(id, v) == /\ map[id] = Absent
              /\ map' = [map EXCEPT ![id] = v]

\* remove
Delete(id) == /\ map[id] # Absent
              /\ map' = [map EXCEPT ![id] = Absent]

\* A new process starts with an empty dictionary (init keeps no ids).
Restart == map' = [id \in Ids |-> Absent]

Update == \E id \in Ids : Delete(id) \/ \E v \in Vectors : Put(id, v)

Spec == Init /\ [][Update \/ Restart]_map

\* The stronger promise of a store whose contents outlive the process.
DurableSpec == Init /\ [][Update]_map
==============================================================================
