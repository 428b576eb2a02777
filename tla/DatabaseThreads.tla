---------------------------- MODULE DatabaseThreads ----------------------------
(***************************************************************************)
(* The threads that share a VectorDatabase (src/database.cpp).  Writers    *)
(* hold its shared_mutex exclusively, readers share it, and some           *)
(* operations let go of it on the way: remove_by_date looks the documents  *)
(* up under one lock and removes each under another, add_texts locks for   *)
(* each text, and add_text with auto_sync asks for the lock it holds.      *)
(*                                                                         *)
(* A document is its date (VectorDatabase.tla has the files).  A search    *)
(* finds every indexed id (HnswIndex.tla has the search).                  *)
(***************************************************************************)
EXTENDS Integers, FiniteSets

CONSTANTS Threads, Ids, Dates, None,
          AutoSync,      \* DatabaseConfig::auto_sync
          Faults,        \* may VectorStore or MetadataStore fail?
          MaxCalls       \* bound: calls a thread makes

ASSUME ThreadsAssumption == /\ Ids = 1 .. Cardinality(Ids) /\ IsFiniteSet(Ids)
                            /\ IsFiniteSet(Threads) /\ Dates # {}
                            /\ None \notin Dates /\ None \notin Threads
                            /\ AutoSync \in BOOLEAN /\ Faults \in BOOLEAN
                            /\ MaxCalls \in Nat

VARIABLES
    writer, readers,   \* mutex_: who holds it exclusively, who shares it
    nextId,            \* next_id_
    indexed, stored,   \* ids in index_ and in vectors_
    metadata,          \* metadata_: the date of each id
    efSearch,          \* the index's ef_search
    pc, call,          \* what each thread does, and the arguments of its call
    answer, reply,     \* what its last query, and its last call, answered
    calls,             \* how many calls it has made
    late,              \* history: ids updated while the index did not have them
    failed             \* history: ids of adds the metadata's file refused

lock  == <<writer, readers>>
parts == <<nextId, indexed, stored, metadata>>
told  == <<answer, reply, calls>>
history == <<late, failed>>
vars  == <<lock, parts, efSearch, pc, call, told, history>>

Calls == [op : {"add", "remove", "removeByDate", "update", "query"},
          date : Dates, id : Ids \cup {0}, text : BOOLEAN, left : 0 .. 2,
          found : SUBSET Ids, todo : SUBSET Ids, got : SUBSET Ids]

\* text: add_text rather than add_vector; of a query, that it names an
\* ef_search of its own.
New(op, date, id, text, left) ==
    [op |-> op, date |-> date, id |-> id, text |-> text, left |-> left,
     found |-> {}, todo |-> {}, got |-> {}]

NoCall == New("query", CHOOSE d \in Dates : TRUE, 0, FALSE, 0)

Init == /\ writer = None /\ readers = {}
        /\ nextId = 1
        /\ indexed = {} /\ stored = {}
        /\ metadata = [i \in Ids |-> None]
        /\ efSearch = "default"
        /\ pc = [t \in Threads |-> "idle"]
        /\ call = [t \in Threads |-> NoCall]
        /\ answer = [t \in Threads |-> {}]
        /\ reply = [t \in Threads |-> "none"]
        /\ calls = [t \in Threads |-> 0]
        /\ late = {} /\ failed = {}

At(t, where) == pc[t] = where
Goto(t, where) == pc' = [pc EXCEPT ![t] = where]

\* unique_lock and shared_lock; the lock is let go of where they go out of scope.
LockAlone(t) == writer = None /\ readers = {} /\ writer' = t /\ UNCHANGED readers
LockShared(t) == writer = None /\ readers' = readers \cup {t} /\ UNCHANGED writer
Unlock(t) == /\ writer' = (IF writer = t THEN None ELSE writer)
             /\ readers' = readers \ {t}

Return(t, what) == /\ Goto(t, "idle")
                   /\ reply' = [reply EXCEPT ![t] = what]
                   /\ UNCHANGED <<answer, calls>>

\* Ids the adds under way have yet to draw: the bound on Ids must leave them.
Draws == {d \in Threads \X (1 .. 2) :
             ~At(d[1], "idle") /\ call[d[1]].op = "add" /\ d[2] <= call[d[1]].left}
ToDraw == Cardinality(Draws)

\* A thread calls an operation.  add_vector and add_text add one document,
\* add_texts two.
Begin(t, c) ==
    /\ At(t, "idle")
    /\ calls[t] < MaxCalls
    /\ calls' = [calls EXCEPT ![t] = @ + 1]
    /\ call' = [call EXCEPT ![t] = c]
    /\ answer' = [answer EXCEPT ![t] = {}]
    /\ reply' = [reply EXCEPT ![t] = "none"]
    /\ Goto(t, c.op)
    /\ UNCHANGED <<lock, parts, efSearch, history>>

BeginAdd(t) == \E d \in Dates, text \in BOOLEAN, n \in {1, 2} :
                  /\ n = 1 \/ text
                  /\ nextId + ToDraw + n <= Cardinality(Ids) + 1
                  /\ Begin(t, New("add", d, 0, text, n))
BeginById(t) == \E i \in Ids : \/ Begin(t, New("remove", NoCall.date, i, FALSE, 0))
                              \/ \E d \in Dates : Begin(t, New("update", d, i, FALSE, 0))
BeginByDate(t) == \E d \in Dates :
                  \/ Begin(t, New("removeByDate", d, 0, FALSE, 0))
                  \/ \E own \in BOOLEAN : Begin(t, New("query", d, 0, own, 0))

------------------------------------------------------------------------------
\* Mutant of AddIndex: next_id counts before it answers.
AddIndexNext(t) ==
    /\ At(t, "add")
    /\ LockAlone(t)
    /\ nextId' = nextId + 1
    /\ indexed' = indexed \cup {nextId + 1}
    /\ call' = [call EXCEPT ![t].id = nextId + 1, ![t].left = @ - 1]
    /\ Goto(t, "store")
    /\ UNCHANGED <<stored, metadata, efSearch, told, history>>

\* add_vector, add_text, add_image: the lock, the id, the index ...
AddIndex(t) ==
    /\ At(t, "add")
    /\ LockAlone(t)
    /\ nextId' = nextId + 1
    /\ indexed' = indexed \cup {nextId}
    /\ call' = [call EXCEPT ![t].id = nextId, ![t].left = @ - 1]
    /\ Goto(t, "store")
    /\ UNCHANGED <<stored, metadata, efSearch, told, history>>

\* ... the store, or the index forgets the id again ...
AddStore(t) ==
    /\ At(t, "store")
    /\ \/ /\ stored' = stored \cup {call[t].id}
          /\ Goto(t, "metadata")
          /\ UNCHANGED <<lock, indexed, told>>
       \/ /\ Faults
          /\ indexed' = indexed \ {call[t].id}
          /\ Unlock(t) /\ Return(t, "error")
          /\ UNCHANGED stored
    /\ UNCHANGED <<nextId, metadata, efSearch, call, history>>

\* ... and the metadata.  If its line cannot be appended, index and store
\* forget the id, but not the map: it has the entry by then.
AddMetadata(t) ==
    /\ At(t, "metadata")
    /\ metadata' = [metadata EXCEPT ![call[t].id] = call[t].date]
    /\ \/ /\ Goto(t, IF AutoSync /\ call[t].text THEN "sync" ELSE "added")
          /\ UNCHANGED <<lock, indexed, stored, told, failed>>
       \/ /\ Faults
          /\ indexed' = indexed \ {call[t].id}
          /\ stored' = stored \ {call[t].id}
          /\ failed' = failed \cup {call[t].id}
          /\ Unlock(t) /\ Return(t, "error")
    /\ UNCHANGED <<nextId, efSearch, call, late>>

\* sync, called with the lock held, locks it again: undefined for a
\* shared_mutex.  The thread waits for itself, or (glibc) the lock throws and
\* unwinding lets go of it.
SyncAgain(t) ==
    /\ At(t, "sync")
    /\ \/ Goto(t, "stuck") /\ UNCHANGED <<lock, told>>
       \/ Unlock(t) /\ Return(t, "thrown")
    /\ UNCHANGED <<parts, efSearch, call, history>>

AddDone(t) ==
    /\ At(t, "added")
    /\ Unlock(t)
    /\ call' = [call EXCEPT ![t].got = @ \cup {call[t].id}]
    /\ IF call[t].left = 0 THEN Return(t, "ok") ELSE Goto(t, "add") /\ UNCHANGED told
    /\ UNCHANGED <<parts, efSearch, history>>

------------------------------------------------------------------------------
\* Mutant of RemoveIndex: whatever the index says, the document counts.
RemoveIndexBlind(t) ==
    /\ At(t, "remove")
    /\ LockAlone(t)
    /\ indexed' = indexed \ {call[t].id}
    /\ Goto(t, "unindexed")
    /\ UNCHANGED <<nextId, stored, metadata, efSearch, call, told, history>>

\* remove: only the index says whether the id is there.
RemoveIndex(t) ==
    /\ At(t, "remove")
    /\ LockAlone(t)
    /\ call[t].id \in indexed
    /\ indexed' = indexed \ {call[t].id}
    /\ Goto(t, "unindexed")
    /\ UNCHANGED <<nextId, stored, metadata, efSearch, call, told, history>>

\* Mutant of RemoveMissing: remove_by_date gives up at the first one missing.
RemoveMissingEnds(t) ==
    /\ At(t, "remove")
    /\ writer = None /\ readers = {}
    /\ call[t].id \notin indexed
    /\ Return(t, IF call[t].op = "remove" THEN "missing" ELSE "ok")
    /\ UNCHANGED <<lock, parts, efSearch, call, history>>

RemoveMissing(t) ==
    /\ At(t, "remove")
    /\ writer = None /\ readers = {}
    /\ call[t].id \notin indexed
    /\ IF call[t].op = "remove" THEN Return(t, "missing")
                                ELSE Goto(t, "next") /\ UNCHANGED told
    /\ UNCHANGED <<lock, parts, efSearch, call, history>>

\* Mutant of RemoveRest: the metadata stays.
RemoveRestKept(t) ==
    /\ At(t, "unindexed")
    /\ stored' = stored \ {call[t].id}
    /\ call' = [call EXCEPT ![t].got = @ \cup {call[t].id}]
    /\ late' = late \ {call[t].id}
    /\ Unlock(t)
    /\ IF call[t].op = "remove" THEN Return(t, "ok") ELSE Goto(t, "next") /\ UNCHANGED told
    /\ UNCHANGED <<nextId, indexed, metadata, efSearch, failed>>

RemoveRest(t) ==
    /\ At(t, "unindexed")
    /\ stored' = stored \ {call[t].id}
    /\ metadata' = [metadata EXCEPT ![call[t].id] = None]
    /\ late' = late \ {call[t].id}
    /\ call' = [call EXCEPT ![t].got = @ \cup {call[t].id}]
    /\ Unlock(t)
    /\ IF call[t].op = "remove" THEN Return(t, "ok") ELSE Goto(t, "next") /\ UNCHANGED told
    /\ UNCHANGED <<nextId, indexed, efSearch, failed>>

\* Mutant of FindByDate: the shared lock is kept.
FindByDateHeld(t) ==
    /\ At(t, "removeByDate")
    /\ LockShared(t)
    /\ LET dated == {i \in Ids : metadata[i] = call[t].date}
       IN call' = [call EXCEPT ![t].found = dated \cap indexed, ![t].todo = dated]
    /\ Goto(t, "next")
    /\ UNCHANGED <<parts, efSearch, told, history>>

\* remove_by_date: the documents of the date, under a shared lock of its own ...
FindByDate(t) ==
    /\ At(t, "removeByDate")
    /\ writer = None
    /\ LET dated == {i \in Ids : metadata[i] = call[t].date}
       IN call' = [call EXCEPT ![t].found = dated \cap indexed, ![t].todo = dated]
    /\ Goto(t, "next")
    /\ UNCHANGED <<lock, parts, efSearch, told, history>>

\* ... and one remove after the other, whatever has become of them.
RemoveNext(t) ==
    /\ At(t, "next")
    /\ \/ \E i \in call[t].todo :
             /\ call' = [call EXCEPT ![t].id = i, ![t].todo = @ \ {i}]
             /\ Goto(t, "remove")
             /\ UNCHANGED told
       \/ call[t].todo = {} /\ Return(t, "ok") /\ UNCHANGED call
    /\ UNCHANGED <<lock, parts, efSearch, history>>

\* update_metadata writes the entry of the metadata's own id (its argument is
\* not looked at), whether or not the index has it.
Update(t) ==
    /\ At(t, "update")
    /\ writer = None /\ readers = {}
    /\ metadata' = [metadata EXCEPT ![call[t].id] = call[t].date]
    /\ late' = IF call[t].id \in indexed THEN late ELSE late \cup {call[t].id}
    /\ Return(t, "ok")
    /\ UNCHANGED <<lock, nextId, indexed, stored, efSearch, call, failed>>

------------------------------------------------------------------------------
\* Mutant of QuerySearch: the lock is not kept for the filter.
QuerySearchBrief(t) ==
    /\ At(t, "query")
    /\ writer = None
    /\ efSearch' = IF call[t].text THEN "wide" ELSE efSearch
    /\ call' = [call EXCEPT ![t].got = indexed]
    /\ Goto(t, "filter")
    /\ UNCHANGED <<lock, parts, told, history>>

\* query_vector: a width of its own stays in the index for the queries to come.
QuerySearch(t) ==
    /\ At(t, "query")
    /\ LockShared(t)
    /\ efSearch' = IF call[t].text THEN "wide" ELSE efSearch
    /\ call' = [call EXCEPT ![t].got = indexed]
    /\ Goto(t, "filter")
    /\ UNCHANGED <<parts, told, history>>

\* The filters look every id found up in the metadata.
QueryFilter(t) ==
    /\ At(t, "filter")
    /\ Unlock(t)
    /\ Goto(t, "idle")
    /\ answer' = [answer EXCEPT ![t] = {i \in call[t].got : metadata[i] = call[t].date}]
    /\ reply' = [reply EXCEPT ![t] = "ok"]
    /\ UNCHANGED <<parts, efSearch, call, calls, history>>

------------------------------------------------------------------------------
Add(t) == AddIndex(t) \/ AddStore(t) \/ AddMetadata(t) \/ SyncAgain(t) \/ AddDone(t)
Remove(t) == RemoveIndex(t) \/ RemoveMissing(t) \/ RemoveRest(t)
RemoveByDate(t) == FindByDate(t) \/ RemoveNext(t)
QueryVector(t) == QuerySearch(t) \/ QueryFilter(t)

Step(t) == Add(t) \/ Remove(t) \/ RemoveByDate(t) \/ Update(t) \/ QueryVector(t)

Next == \E t \in Threads : BeginAdd(t) \/ BeginById(t) \/ BeginByDate(t) \/ Step(t)

\* A thread that can go on does, sooner or later.
Spec == Init /\ [][Next]_vars /\ \A t \in Threads : WF_vars(Step(t))

------------------------------------------------------------------------------
TypeOK == /\ writer \in Threads \cup {None} /\ readers \subseteq Threads
          /\ nextId \in 1 .. Cardinality(Ids) + 1
          /\ indexed \subseteq Ids /\ stored \subseteq Ids
          /\ metadata \in [Ids -> Dates \cup {None}]
          /\ efSearch \in {"default", "wide"}
          /\ pc \in [Threads -> {"idle", "add", "store", "metadata", "sync", "stuck", "added",
                                 "remove", "unindexed", "removeByDate", "next", "update",
                                 "query", "filter"}]
          /\ call \in [Threads -> Calls]
          /\ answer \in [Threads -> SUBSET Ids]
          /\ reply \in [Threads -> {"none", "ok", "error", "missing", "thrown"}]
          /\ calls \in [Threads -> 0 .. MaxCalls]
          /\ late \subseteq Ids /\ failed \subseteq Ids

\* "Concurrent reads with exclusive writes": whenever nobody holds the lock
\* exclusively, each document is whole (the index and the store agree and its
\* metadata is there), whatever failed; and metadata without a document is
\* there only where update_metadata wrote it while there was none, and no
\* removal has erased it since, or where an add was refused after the map had
\* it: the document of such an add is nowhere.
WholeWhenUnlocked ==
    writer = None => /\ indexed = stored
                     /\ \A i \in indexed : metadata[i] # None
                     /\ \A i \in Ids \ indexed : metadata[i] # None => i \in late \cup failed
                     /\ failed \cap indexed = {}

\* No document is counted as removed by two calls; and when remove_by_date
\* returns, no document that had the date when it looked is left, whoever
\* changed or removed some of them in between.
RemovalsAddUp ==
    /\ \A t, u \in Threads :
          t # u /\ {call[t].op, call[u].op} \subseteq {"remove", "removeByDate"}
              => call[t].got \cap call[u].got = {}
    /\ \A t \in Threads : call[t].op = "removeByDate" /\ reply[t] = "ok"
                             => call[t].found \cap indexed = {}

\* Every call returns, unless some thread has locked itself out.  (The callers
\* stop after MaxCalls calls each: the lock itself does not keep readers from
\* starving a writer.)
CallsReturn ==
    \A t \in Threads : ~At(t, "idle") ~> (At(t, "idle") \/ \E u \in Threads : At(u, "stuck"))

\* A document that is being added, under the lock.
UnderWay(i) == \E t \in Threads : pc[t] \in {"store", "metadata"} /\ call[t].id = i

\* Seen from outside, documents change and are queried in single steps: a
\* document appears with its metadata and disappears from the index.
Documents == INSTANCE DocumentMap
    WITH docs <- [i \in Ids |-> IF i \in indexed /\ ~UnderWay(i) THEN metadata[i] ELSE None]
ImplementsDocuments == Documents!Spec

\* "Sync after each write": the caller of an add that has put its document in
\* the database learns of it.
AddsAreAnswered == \A t \in Threads : reply[t] # "thrown" /\ ~At(t, "stuck")
================================================================================
