----------------------------- MODULE VectorStore -----------------------------
(***************************************************************************)
(* VectorStore and the MemoryMappedFile under it                           *)
(* (src/storage/mmap_store.cpp, include/vdb/storage.hpp): vectors live in  *)
(* equal slots of one memory-mapped file, `id_to_offset_` says which slot  *)
(* holds an id, `free_slots_` is the stack of vacated slots, and the file  *)
(* doubles when neither a vacated nor a fresh slot is left.                *)
(*                                                                         *)
(* The callers (VectorDatabase) serialise the operations with a lock of    *)
(* their own.  compact() is one action per iteration of its loop; the      *)
(* other operations are one action each.  File lengths and the mapping are *)
(* counted in slots; every system call of resize() may fail.               *)
(***************************************************************************)
EXTENDS Integers, Sequences, FiniteSets

CONSTANTS Ids,              \* vector ids
          Vectors,          \* vectors of the configured dimension
          Blank,            \* what a never-written slot reads as
          InitialCapacity,  \* VectorStoreConfig::initial_capacity
          PageSlots,        \* slots in a page: file lengths are multiples
          MaxSlots          \* the file-size limit, in slots

ASSUME ConstantsAssumption ==
    /\ IsFiniteSet(Ids)
    /\ Blank \notin Vectors
    /\ InitialCapacity \in Nat
    /\ PageSlots \in Nat \ {0}
    /\ MaxSlots \in Nat
    /\ InitialCapacity <= MaxSlots

VARIABLES
    mapping,      \* data_: "mapped", "null", "dangling"; "down": no process
    mapSlots,     \* MemoryMappedFile::capacity_ = size_, in slots
    fileSlots,    \* length of vectors.bin, in slots
    disk,         \* the vectors in the file
    headerCapacity, \* VectorFileHeader::capacity
    capacity,     \* VectorStore::capacity_
    slotOf,       \* id_to_offset_: id -> slot or NoSlot
    freeSlots,    \* free_slots_, a stack
    compacting,   \* compact() is in its loop
    compactLeft,  \* the free slots its loop has still to visit
    reply         \* what the last operation answered

fileVars    == <<fileSlots, disk, headerCapacity>>
mapVars     == <<mapping, mapSlots, capacity>>
compactVars == <<compacting, compactLeft>>
vars == <<fileVars, mapVars, slotOf, freeSlots, compactVars, reply>>

NoSlot == -1
Slots  == 0 .. MaxSlots - 1
Replies == {"none", "ok", "InvalidVectorId", "VectorNotFound", "IoError"}

Live   == {id \in Ids : slotOf[id] # NoSlot}
Used   == {slotOf[id] : id \in Live}
Vacant == {freeSlots[i] : i \in DOMAIN freeSlots}
Count  == Cardinality(Live)                  \* id_to_offset_.size()
Greatest(S) == CHOOSE s \in S : \A t \in S : t <= s

\* The lock is free for an operation.
Ready == mapping # "down" /\ ~compacting

Init == /\ mapping = "mapped"
        /\ mapSlots = InitialCapacity
        /\ fileSlots = InitialCapacity
        /\ disk = [s \in Slots |-> Blank]
        /\ headerCapacity = InitialCapacity
        /\ capacity = InitialCapacity
        /\ slotOf = [id \in Ids |-> NoSlot]
        /\ freeSlots = <<>>
        /\ compacting = FALSE
        /\ compactLeft = {}
        /\ reply = "none"

------------------------------------------------------------------------------
\* get_slot_ptr: is there a pointer for slot s in a mapping of m slots, when
\* the store believes it has c slots?
HasPointer(s, c, m) == s < c /\ s < m

\* The process dies (a fault on an unmapped page, or any other end): the
\* mapping is MAP_SHARED, so the file keeps every store made so far.
Dies == /\ mapping' = "down"
        /\ compacting' = FALSE
        /\ compactLeft' = {}
        /\ reply' = "none"

\* add, once a slot is allocated: write through the pointer and index the id.
Place(id, v, s) ==
    \/ /\ mapping' = "mapped" /\ HasPointer(s, capacity', mapSlots')
       /\ disk' = [disk EXCEPT ![s] = v]
       /\ slotOf' = [slotOf EXCEPT ![id] = s]
       /\ reply' = "ok"
    \/ /\ mapping' = "null" \/ ~HasPointer(s, capacity', mapSlots')
       /\ reply' = "IoError"
       /\ UNCHANGED <<disk, slotOf>>

\* Mutant of AddRecycled: the vacated slot stays on the stack.
AddRecycledUnpopped(id, v) ==
    /\ freeSlots # <<>>
    /\ UNCHANGED <<freeSlots, mapVars, fileSlots, headerCapacity, compactVars>>
    /\ Place(id, v, freeSlots[Len(freeSlots)])

\* allocate_slot, first choice: the slot vacated last.
AddRecycled(id, v) ==
    /\ freeSlots # <<>>
    /\ freeSlots' = SubSeq(freeSlots, 1, Len(freeSlots) - 1)
    /\ UNCHANGED <<mapVars, fileSlots, headerCapacity, compactVars>>
    /\ Place(id, v, freeSlots[Len(freeSlots)])

\* Second choice: the slot after the last one in use.
AddFresh(id, v) ==
    /\ freeSlots = <<>>
    /\ Count < capacity
    /\ UNCHANGED <<mapVars, fileSlots, headerCapacity, freeSlots, compactVars>>
    /\ Place(id, v, Count)

\* Last choice: double the file.  MemoryMappedFile::resize unmaps, extends
\* the file to whole pages and maps it again.
Doubled == 2 * capacity

AddGrows(id, v) ==
    /\ freeSlots = <<>>
    /\ Count >= capacity
    /\ Doubled > mapSlots
    /\ \E pages \in Doubled .. Doubled + PageSlots - 1 :
          /\ pages % PageSlots = 0
          /\ pages <= MaxSlots
          /\ mapping' = "mapped"
          /\ mapSlots' = pages
          /\ fileSlots' = pages
    /\ capacity' = Doubled
    /\ headerCapacity' = Doubled
    /\ UNCHANGED <<freeSlots, compactVars>>
    /\ Place(id, v, Count)

\* The mapping is already long enough: resize has nothing to do.
AddGrowsInPlace(id, v) ==
    /\ freeSlots = <<>>
    /\ Count >= capacity
    /\ Doubled <= mapSlots
    /\ mapping = "mapped"
    /\ capacity' = Doubled
    /\ headerCapacity' = Doubled
    /\ UNCHANGED <<mapping, mapSlots, fileSlots, freeSlots, compactVars>>
    /\ Place(id, v, Count)

\* Mutants of AddCannotGrow: the file is extended one slot too early; capacity_
\* is doubled before the outcome of resize() is known.
AddCannotGrowEarly ==
    /\ freeSlots = <<>>
    /\ Count + 1 >= capacity
    /\ Doubled > mapSlots
    /\ mapping' = IF mapping = "null" THEN "null" ELSE "dangling"
    /\ reply' = "IoError"
    /\ UNCHANGED <<mapSlots, capacity, fileVars, slotOf, freeSlots, compactVars>>

AddCannotGrowDoubled ==
    /\ freeSlots = <<>>
    /\ Count >= capacity
    /\ Doubled > mapSlots
    /\ mapping' = "null"
    /\ capacity' = Doubled
    /\ reply' = "IoError"
    /\ UNCHANGED <<mapSlots, fileVars, slotOf, freeSlots, compactVars>>

\* resize fails after it has unmapped: ftruncate refuses, and data_ is left
\* pointing at the old region; or mmap refuses, and data_ is reset.
AddCannotGrow ==
    /\ freeSlots = <<>>
    /\ Count >= capacity
    /\ Doubled > mapSlots
    /\ \/ /\ mapping' = IF mapping = "null" THEN "null" ELSE "dangling"
          /\ UNCHANGED fileSlots
       \/ /\ \E pages \in Doubled .. Doubled + PageSlots - 1 :
                /\ pages % PageSlots = 0
                /\ pages <= MaxSlots
                /\ fileSlots' = pages
          /\ mapping' = "null"
    /\ reply' = "IoError"
    /\ UNCHANGED <<mapSlots, capacity, disk, headerCapacity, slotOf, freeSlots,
                   compactVars>>

Add(id, v) == /\ Ready
              /\ id \notin Live
              /\ \/ AddRecycled(id, v)
                 \/ AddFresh(id, v)
                 \/ AddGrows(id, v)
                 \/ AddGrowsInPlace(id, v)
                 \/ AddCannotGrow

AddDuplicate(id) == /\ Ready
                    /\ id \in Live
                    /\ reply' = "InvalidVectorId"
                    /\ UNCHANGED <<fileVars, mapVars, slotOf, freeSlots, compactVars>>

\* Mutants of Remove: the slot is read from the entry just erased; the slot is
\* never given back.
RemoveErased(id) ==
    /\ Ready
    /\ mapping # "dangling"
    /\ id \in Live
    /\ freeSlots' = Append(freeSlots, NoSlot)
    /\ slotOf' = [slotOf EXCEPT ![id] = NoSlot]
    /\ reply' = IF mapping = "mapped" THEN "ok" ELSE "IoError"
    /\ UNCHANGED <<fileVars, mapVars, compactVars>>

RemoveLeaking(id) ==
    /\ Ready
    /\ mapping # "dangling"
    /\ id \in Live
    /\ slotOf' = [slotOf EXCEPT ![id] = NoSlot]
    /\ reply' = IF mapping = "mapped" THEN "ok" ELSE "IoError"
    /\ UNCHANGED <<freeSlots, fileVars, mapVars, compactVars>>

\* remove unindexes the id before it looks at the mapping.
Remove(id) ==
    /\ Ready
    /\ mapping # "dangling"
    /\ id \in Live
    /\ freeSlots' = Append(freeSlots, slotOf[id])
    /\ slotOf' = [slotOf EXCEPT ![id] = NoSlot]
    /\ reply' = IF mapping = "mapped" THEN "ok" ELSE "IoError"
    /\ UNCHANGED <<fileVars, mapVars, compactVars>>

RemoveMissing(id) == /\ Ready
                     /\ id \notin Live
                     /\ reply' = "VectorNotFound"
                     /\ UNCHANGED <<fileVars, mapVars, slotOf, freeSlots, compactVars>>

\* remove of a stored id, or a read of the view get() returned for it,
\* dereferences a dangling mapping.
Fault == /\ Ready
         /\ mapping = "dangling"
         /\ Live # {}
         /\ Dies
         /\ UNCHANGED <<fileVars, mapSlots, capacity, slotOf, freeSlots>>

------------------------------------------------------------------------------
\* compact: the free slots are visited from the highest down.
CompactStart == /\ Ready
                /\ freeSlots # <<>>
                /\ compacting' = TRUE
                /\ compactLeft' = Vacant
                /\ reply' = "none"
                /\ UNCHANGED <<fileVars, mapVars, slotOf, freeSlots>>

\* Mutant of CompactMove: the id is moved, the vector is not copied.
CompactMoveUncopied ==
    /\ compacting
    /\ compactLeft # {}
    /\ LET hole == Greatest(compactLeft)
           top  == Greatest(Used \cup {0})
       IN  /\ compactLeft' = compactLeft \ {hole}
           /\ slotOf' = [id \in Ids |-> IF slotOf[id] = top /\ hole < top
                                           THEN hole ELSE slotOf[id]]
    /\ UNCHANGED <<fileVars, mapVars, freeSlots, compacting, reply>>

\* The vector in the highest used slot moves into the visited one, if that
\* is lower and both slots can be reached.
CompactMove ==
    /\ compacting
    /\ compactLeft # {}
    /\ LET hole == Greatest(compactLeft)
           top  == Greatest(Used \cup {0})
       IN  /\ compactLeft' = compactLeft \ {hole}
           /\ IF /\ hole < top
                 /\ mapping = "mapped"
                 /\ HasPointer(top, capacity, mapSlots)
                 /\ HasPointer(hole, capacity, mapSlots)
              THEN /\ disk' = [disk EXCEPT ![hole] = disk[top]]
                   /\ slotOf' = [id \in Ids |-> IF slotOf[id] = top THEN hole
                                                                   ELSE slotOf[id]]
              ELSE UNCHANGED <<disk, slotOf>>
    /\ UNCHANGED <<fileSlots, headerCapacity, mapVars, freeSlots, compacting, reply>>

\* Mutant of CompactEnd: the free list is not cleared.
CompactEndKeeping == /\ compacting
                     /\ compactLeft = {}
                     /\ compacting' = FALSE
                     /\ reply' = "ok"
                     /\ UNCHANGED <<fileVars, mapVars, slotOf, freeSlots, compactLeft>>

CompactEnd == /\ compacting
              /\ compactLeft = {}
              /\ freeSlots' = <<>>
              /\ compacting' = FALSE
              /\ reply' = "ok"
              /\ UNCHANGED <<fileVars, mapVars, slotOf, compactLeft>>

------------------------------------------------------------------------------
\* The process ends, orderly (the destructor only syncs) or not.
Stop == /\ mapping # "down"
        /\ Dies
        /\ UNCHANGED <<fileVars, mapSlots, capacity, slotOf, freeSlots>>

\* A new process runs init on the existing file: the header gives the
\* capacity, and nothing in the file says which id a slot holds.
Reopen == /\ mapping = "down"
          /\ mapping' = "mapped"
          /\ mapSlots' = fileSlots
          /\ capacity' = headerCapacity
          /\ slotOf' = [id \in Ids |-> NoSlot]
          /\ freeSlots' = <<>>
          /\ reply' = "none"
          /\ UNCHANGED <<fileVars, compactVars>>

Next == \/ \E id \in Ids : \/ \E v \in Vectors : Add(id, v)
                           \/ AddDuplicate(id)
                           \/ Remove(id)
                           \/ RemoveMissing(id)
        \/ Fault
        \/ CompactStart
        \/ CompactMove
        \/ CompactEnd
        \/ Stop
        \/ Reopen

Spec == Init /\ [][Next]_vars

------------------------------------------------------------------------------
TypeOK == /\ mapping \in {"mapped", "null", "dangling", "down"}
          /\ mapSlots \in Nat
          /\ fileSlots \in Nat
          /\ disk \in [Slots -> Vectors \cup {Blank}]
          /\ headerCapacity \in Nat
          /\ capacity \in Nat
          /\ slotOf \in [Ids -> Nat \cup {NoSlot}]
          /\ freeSlots \in Seq(Nat)
          /\ compacting \in BOOLEAN
          /\ compactLeft \in SUBSET Nat
          /\ reply \in Replies

\* No two ids share a slot, no slot is vacated twice, and (outside
\* compact's loop) no vacated slot holds an id: what add and remove do to
\* id_to_offset_ and free_slots_ never makes one vector overwrite another.
SlotsDistinct ==
    /\ \A a, b \in Live : slotOf[a] = slotOf[b] => a = b
    /\ \A i, j \in DOMAIN freeSlots : freeSlots[i] = freeSlots[j] => i = j
    /\ Ready => Used \cap Vacant = {}

\* add takes id_to_offset_.size() for a fresh slot when the free list is
\* empty.  That is a free slot only because used and vacated slots together
\* fill the file from its start without a gap.  A store that has lost its
\* mapping is excepted: it drops slots, and can no longer add.
NoGaps ==
    mapping \in {"mapped", "dangling"} /\ ~compacting =>
        Used \cup Vacant = 0 .. Cardinality(Used \cup Vacant) - 1

\* Every used or vacated slot can be reached through the mapping, and the
\* file holds all the slots its header promises, so a process that dies at
\* any point leaves a file whose every slot can be reached again.
SlotsReachable ==
    /\ headerCapacity <= fileSlots /\ fileSlots <= MaxSlots
    /\ mapping # "down" => /\ capacity = headerCapacity
                           /\ \A s \in Used \cup Vacant : s < capacity
    /\ mapping = "mapped" => capacity <= mapSlots

\* data_ dangles only in a full store: the next add tries to map again
\* before anything is written through it.
DanglingOnlyWhenFull ==
    mapping = "dangling" => freeSlots = <<>> /\ Count >= capacity /\ ~compacting

\* The raw views get() hands out: as long as the mapping is the same and
\* compact is not running, the vector of an id that stays stored neither
\* moves nor changes, whatever other ids are added and removed.
ViewsAreStable ==
    [][mapping' # "down" /\ mapping # "down" /\ ~compacting =>
         \A id \in Live \cap Live' : /\ slotOf'[id] = slotOf[id]
                                     /\ disk'[slotOf[id]] = disk[slotOf[id]]]_vars

\* The dictionary the store implements: the vector in the slot of each id.
Contents == [id \in Ids |-> IF id \in Live THEN disk[slotOf[id]] ELSE Blank]
Map == INSTANCE VectorMap WITH Absent <- Blank, map <- Contents

\* Through growth, slot reuse, compaction and failing system calls, the
\* store is a dictionary: only add(id) gives id a vector, only remove(id)
\* takes it away, and only a restart empties it.
ImplementsMap == Map!Spec

\* "Vectors: Synced on explicit sync() call or auto-sync interval": the
\* dictionary outlives the process.
ImplementsDurableMap == Map!DurableSpec

\* For TLC: ids are alike, and so are vectors.
LOCAL INSTANCE TLC
Symmetry == Permutations(Ids) \cup Permutations(Vectors)
==============================================================================
