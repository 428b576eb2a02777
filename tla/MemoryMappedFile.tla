--------------------------- MODULE MemoryMappedFile --------------------------
(***************************************************************************)
(* MemoryMappedFile (src/storage/mmap_store.cpp): an object that holds a   *)
(* file's descriptor and the address its contents are mapped at, may be    *)
(* moved, opened again and resized, and gives both back when it is closed. *)
(* Every system call may fail.  The kernel's side, external, is which      *)
(* regions are mapped and which descriptors are open; on Windows handles   *)
(* are what descriptors and regions are here.                              *)
(*                                                                         *)
(* size_ and capacity_ are the same throughout, and path_, which is never  *)
(* read, is that of the descriptor here.  Lengths are in half pages.       *)
(* Files are those of this process: each is open in one object at a time,  *)
(* as each VectorStore has its own.                                        *)
(***************************************************************************)
EXTENDS Integers, FiniteSets

CONSTANTS Objects, Paths, None,
          Addresses,  \* numbers
          Lengths,    \* bound: what is asked for, in half pages
          Faults      \* calls that may fail: of "open", "map", "sync", "truncate"

Page == 2

VARIABLES objects, \* object -> [data, capacity, writable, fd, path]
          regions, \* address -> [path, length, writable], or None
          fds,     \* descriptor -> its path, or None
          files,   \* path -> length, or None
          dirty    \* history: paths with writes that nothing has put on the disk

vars == <<objects, regions, fds, files, dirty>>

Fresh == [data |-> None, capacity |-> 0, writable |-> FALSE, fd |-> None, path |-> None]

Init == /\ objects = [o \in Objects |-> Fresh]
        /\ regions = [a \in Addresses |-> None]
        /\ fds = [d \in 1 .. Cardinality(Objects) + 1 |-> None]
        /\ files \in [Paths -> {None, 0, Page}]
        /\ dirty = {}

MayFail(call) == call \in Faults

------------------------------------------------------------------------------
(* unmap and close, which every call that opens begins with.               *)

\* munmap takes away what is mapped there, whoever's it is by now.
Unmapped(o) == IF objects[o].data = None THEN regions ELSE [regions EXCEPT ![objects[o].data] = None]
FreedOf(o) == IF objects[o].fd = None THEN fds ELSE [fds EXCEPT ![objects[o].fd] = None]
\* What is dirty after unmap has synced what is there; it does not look at what
\* msync answers.
Flushed(o) ==
    LET at == objects[o].data
    IN  {IF at = None \/ ~objects[o].writable \/ regions[at] = None THEN dirty ELSE dirty \ {regions[at].path}}
        \cup IF MayFail("sync") THEN {dirty} ELSE {}

Close(o) == /\ objects' = [objects EXCEPT ![o] = [Fresh EXCEPT !.writable = objects[o].writable]]
            /\ regions' = Unmapped(o) /\ fds' = FreedOf(o) /\ dirty' \in Flushed(o)
            /\ UNCHANGED files

Destroy(o) == /\ objects' = [objects EXCEPT ![o] = Fresh]
              /\ regions' = Unmapped(o) /\ fds' = FreedOf(o) /\ dirty' \in Flushed(o)
              /\ UNCHANGED files

------------------------------------------------------------------------------
\* What open gives, and mmap too: the sooner a freed address is another's.  Neither
\* runs out.
Free(table) == {d \in DOMAIN table : table[d] = None}
Lowest(table) == CHOOSE d \in Free(table) : \A e \in Free(table) : d <= e

\* What an open comes to that fails, whose writable_ and sizes stay, and one that
\* does not.
Failed(o, writable, length) ==
    /\ objects' = [objects EXCEPT ![o] = [Fresh EXCEPT !.writable = writable, !.capacity = length]]
    /\ regions' = Unmapped(o) /\ fds' = FreedOf(o)

Opened(o, path, writable, length) ==
    LET place == Lowest(Unmapped(o))
        d == Lowest(FreedOf(o))
    IN  /\ Free(Unmapped(o)) # {} /\ Free(FreedOf(o)) # {}
        /\ objects' = [objects EXCEPT ![o] = [data |-> place, capacity |-> length, writable |-> writable,
                                              fd |-> d, path |-> path]]
        /\ regions' = [Unmapped(o) EXCEPT ![place] = [path |-> path, length |-> length, writable |-> writable]]
        /\ fds' = [FreedOf(o) EXCEPT ![d] = path]

Elsewhere(o, path) == \E p \in Objects \ {o} : objects[p].fd # None /\ objects[p].path = path

\* open_read and open_readwrite.  Of an empty file nothing is opened, with success.
OpenExisting(o, path, writable) ==
    /\ ~Elsewhere(o, path)
    /\ LET length == IF files[path] = None THEN 0 ELSE files[path]
       IN  \/ (length = 0 \/ MayFail("open") \/ MayFail("map")) /\ Failed(o, writable, length)
           \/ length > 0 /\ Opened(o, path, writable, length)
    /\ dirty' \in Flushed(o)
    /\ UNCHANGED files

\* open_write: what the file had is gone also when a later call fails; of no
\* length nothing can be mapped.
OpenWrite(o, path, length) ==
    /\ ~Elsewhere(o, path)
    /\ \/ MayFail("open") /\ Failed(o, TRUE, length) /\ UNCHANGED files /\ dirty' \in Flushed(o)
       \/ /\ \/ MayFail("truncate") /\ Failed(o, TRUE, length) /\ files' = [files EXCEPT ![path] = 0]
             \/ /\ \/ (MayFail("map") \/ length = 0) /\ Failed(o, TRUE, length)
                   \/ length > 0 /\ Opened(o, path, TRUE, length)
                /\ files' = [files EXCEPT ![path] = length]
          /\ dirty' \in {d \ {path} : d \in Flushed(o)}

RoundedUp(length) == Page * ((length + Page - 1) \div Page)

\* resize.  It unmaps first: when ftruncate refuses, data_ is left as it was, and
\* what it points at may become another's; when mmap refuses it is null, and the
\* next resize tries again, unless it asks for no more than there was.
Resize(o, asked) ==
    LET length == RoundedUp(asked)
    IN  /\ objects[o].writable /\ asked > objects[o].capacity
        /\ dirty' \in Flushed(o)
        /\ \/ /\ objects[o].fd = None \/ MayFail("truncate")
              /\ regions' = Unmapped(o)
              /\ UNCHANGED <<objects, files>>
           \/ /\ objects[o].fd # None
              /\ files' = [files EXCEPT ![objects[o].path] = length]
              /\ \/ /\ MayFail("map")
                    /\ objects' = [objects EXCEPT ![o].data = None]
                    /\ regions' = Unmapped(o)
                 \/ LET place == Lowest(Unmapped(o))
                    IN  /\ Free(Unmapped(o)) # {}
                        /\ objects' = [objects EXCEPT ![o].data = place, ![o].capacity = length]
                        /\ regions' = [Unmapped(o) EXCEPT ![place] = [path |-> objects[o].path, length |-> length,
                                                                      writable |-> TRUE]]
        /\ UNCHANGED fds

\* o = std::move(p), and a new o made of p, for which there is nothing to close.
MoveKeepingData(o, p) ==   \* mutant of Move: the other keeps data_
    /\ o # p
    /\ objects' = [objects EXCEPT ![o] = objects[p], ![p] = [Fresh EXCEPT !.data = objects[p].data]]
    /\ regions' = Unmapped(o) /\ fds' = FreedOf(o) /\ dirty' \in Flushed(o)
    /\ UNCHANGED files

Move(o, p) == /\ o # p
              /\ objects' = [objects EXCEPT ![o] = objects[p], ![p] = Fresh]
              /\ regions' = Unmapped(o) /\ fds' = FreedOf(o) /\ dirty' \in Flushed(o)
              /\ UNCHANGED files

\* Through data().
Write(o) == /\ objects[o].data # None /\ objects[o].writable /\ regions[objects[o].data] # None
            /\ dirty' = dirty \cup {regions[objects[o].data].path}
            /\ UNCHANGED <<objects, regions, fds, files>>

Sync(o) == /\ objects[o].data # None /\ objects[o].writable
           /\ dirty' \in Flushed(o)
           /\ UNCHANGED <<objects, regions, fds, files>>

Next == \E o \in Objects :
            \/ Close(o) \/ Destroy(o) \/ Write(o) \/ Sync(o)
            \/ \E path \in Paths : \/ \E writable \in BOOLEAN : OpenExisting(o, path, writable)
                                   \/ \E length \in Lengths : OpenWrite(o, path, length)
            \/ \E asked \in Lengths : Resize(o, asked)
            \/ \E p \in Objects : Move(o, p)

Spec == Init /\ [][Next]_vars

------------------------------------------------------------------------------
Mapped == {o \in Objects : objects[o].data # None}
Taken(table) == {x \in DOMAIN table : table[x] # None}

\* However objects are moved, opened again and resized, and whichever calls fail,
\* a descriptor is held by one object, for its file, and none is left open.
DescriptorsAreHeld ==
    /\ \A d \in Taken(fds) : \E o \in Objects : {p \in Objects : objects[p].fd = d} = {o}
    /\ \A o \in Objects : objects[o].fd # None => fds[objects[o].fd] = objects[o].path
    /\ \A o \in Mapped : objects[o].fd # None

\* A region belongs to one object, which knows its length, and no object points
\* at what is not its own: as long as no ftruncate fails.
RegionsAreHeld ==
    /\ \A a \in Taken(regions) : \E o \in Objects : {p \in Objects : objects[p].data = a} = {o}
    /\ \A o \in Mapped : /\ regions[objects[o].data] # None
                         /\ regions[objects[o].data] = [path |-> objects[o].path, length |-> objects[o].capacity,
                                                        writable |-> objects[o].writable]

\* What is mapped is in the file: to read it is no bus error.
RegionsAreInFiles == \A a \in Taken(regions) : files[regions[a].path] >= regions[a].length

\* What was written and is not on the disk can still be synced through some
\* object, unless an msync failed: nobody need sync before a close, a move or a
\* resize.
WritesAreHeld ==
    \A path \in dirty : \E o \in Mapped : objects[o].path = path /\ objects[o].writable
==============================================================================
