---------------------------- MODULE VectorDatabase ----------------------------
(***************************************************************************)
(* VectorDatabase (src/database.cpp, include/vdb/database.hpp): an HNSW    *)
(* index, a VectorStore and a MetadataStore behind one lock, from one      *)
(* process to the next.  Each write changes the three in turn and undoes   *)
(* the earlier ones when a later one fails; sync saves the three in turn.  *)
(*                                                                         *)
(* Every operation holds the lock, so it is one action; a process may die  *)
(* between the parts of one.  What is added is a document, which stands    *)
(* for both its vector and its metadata.  Of the index only the nodes are  *)
(* kept (HnswIndex has the graph), of the store the ids (VectorStore has   *)
(* the slots).                                                             *)
(***************************************************************************)
EXTENDS MetadataStore

CONSTANTS MaxRestarts,   \* bound: processes after the first
          MaxUpdated,    \* bound: ids update_metadata names
          StoreFaults,   \* may VectorStore fail to grow?
          CrashInSync,   \* may a process die inside sync, the index saved?
          SaveFaults     \* may the writing of the index file fail or be cut short?

ASSUME DatabaseAssumption == /\ IsFiniteSet(Ids) /\ Ids = 1 .. Cardinality(Ids)
                             /\ MaxRestarts \in Nat /\ MaxUpdated \in Nat
                             /\ StoreFaults \in BOOLEAN /\ CrashInSync \in BOOLEAN
                             /\ SaveFaults \in BOOLEAN

VARIABLES
    up,        \* ready_: a process has the database open
    nodes,     \* the newest index node of each id, removed or not
    indexed,   \* id_to_index_
    stored,    \* ids in the VectorStore (all of them indexed)
    nextId,    \* next_id_
    saved,     \* the nodes in the index file
    savedTorn, \* that file was cut short
    reply,     \* what the last operation answered
    restarts,
    acked,     \* history: documents whose add succeeded, until removed
    synced,    \* history: those of them a completed sync has covered
    updated    \* history: the ids update_metadata has named

inMemory == <<nodes, indexed, stored, nextId>>
history  == <<acked, synced, updated>>
indexFile == <<saved, savedTorn>>
vars == <<metaVars, up, inMemory, indexFile, reply, restarts, history>>

Nothing == [id \in Ids |-> None]   \* also what a file not there yet holds

Init == /\ MetaInit
        /\ up = TRUE
        /\ nodes = Nothing
        /\ indexed = {}
        /\ stored = {}
        /\ nextId = 1
        /\ saved = Nothing
        /\ savedTorn = FALSE
        /\ reply = "none"
        /\ restarts = 0
        /\ acked = Nothing
        /\ synced = Nothing
        /\ updated = {}

------------------------------------------------------------------------------
NeverTaken == FALSE   \* mutant of Taken: the index does not look

\* The index has the next id already.
Taken == nextId \in indexed

\* add_vector, for the next id: index, store, metadata.
AddRefused ==
    /\ Taken
    /\ reply' = "InvalidVectorId"
    /\ UNCHANGED <<metaVars, nodes, indexed, stored, acked>>

\* Mutant of AddUnstored: the index keeps the id.
AddUnstoredKept(doc) ==
    /\ ~Taken /\ StoreFaults
    /\ nodes' = [nodes EXCEPT ![nextId] = doc]
    /\ indexed' = indexed \cup {nextId}
    /\ reply' = "IoError"
    /\ UNCHANGED <<metaVars, stored, acked>>

\* The store fails: the index forgets the id again, but not its node.
AddUnstored(doc) ==
    /\ ~Taken /\ StoreFaults
    /\ nodes' = [nodes EXCEPT ![nextId] = doc]
    /\ reply' = "IoError"
    /\ UNCHANGED <<metaVars, indexed, stored, acked>>

AddStored(doc) ==
    /\ ~Taken
    /\ nodes' = [nodes EXCEPT ![nextId] = doc]
    /\ \/ /\ AddMetadata(nextId, doc, "ok")
          /\ indexed' = indexed \cup {nextId}
          /\ stored' = stored \cup {nextId}
          /\ acked' = [acked EXCEPT ![nextId] = doc]
          /\ reply' = "ok"
       \/ /\ AddMetadata(nextId, doc, "IoError")
          /\ reply' = "IoError"
          /\ UNCHANGED <<indexed, stored, acked>>

AddVector(doc) ==
    /\ up
    /\ nextId \in Ids
    /\ nextId' = nextId + 1
    /\ AddRefused \/ AddUnstored(doc) \/ AddStored(doc)
    /\ UNCHANGED <<up, indexFile, restarts, synced, updated>>

\* remove: only the index's answer is looked at.
RemoveVector(id) ==
    /\ up
    /\ id \in indexed
    /\ indexed' = indexed \ {id}
    /\ stored' = stored \ {id}
    /\ RemoveMetadata(id)
    /\ reply' = "ok"
    /\ acked' = [acked EXCEPT ![id] = None]
    /\ synced' = [synced EXCEPT ![id] = None]
    /\ UNCHANGED <<up, nodes, nextId, indexFile, restarts, updated>>

\* update_metadata: the id that counts is the metadata's own (the argument is
\* not looked at), and whatever it says is written, be there a document or not.
Update(id, doc) ==
    /\ up
    /\ updated' = updated \cup {id}
    /\ Cardinality(updated') <= MaxUpdated
    /\ UpdateMetadata(id, doc)
    /\ reply' = "ok"
    /\ UNCHANGED <<up, inMemory, indexFile, restarts, acked, synced>>

------------------------------------------------------------------------------
\* HnswIndex::save writes every node, removed ones too, over the old file, and
\* does not look whether the writes succeed.
SaveIndex == saved' = nodes /\ savedTorn' \in {FALSE, SaveFaults}

\* The index file cannot be opened for writing.
SaveIndexRefused == SaveFaults /\ UNCHANGED indexFile

\* sync: index, then vectors, then metadata.
SyncRefused ==
    /\ up
    /\ SaveIndexRefused
    /\ reply' = "IoError"
    /\ UNCHANGED <<metaVars, up, inMemory, restarts, history>>

Sync ==
    /\ up
    /\ SaveIndex
    /\ \/ SyncMetadata /\ reply' = "ok" /\ synced' = acked
       \/ SyncMetadataInPart /\ reply' = "ok" /\ synced' = acked
       \/ SyncMetadataRefused /\ reply' = "IoError" /\ UNCHANGED synced
       \/ StoreFaults /\ UNCHANGED metaVars /\ reply' = "IoError" /\ UNCHANGED synced
    /\ UNCHANGED <<up, inMemory, restarts, acked, updated>>

\* The process is gone: files stay.
Gone == /\ up' = FALSE
        /\ nodes' = Nothing /\ indexed' = {} /\ stored' = {} /\ nextId' = 1
        /\ reply' = "none"
        /\ UNCHANGED restarts

\* What the destructors make of the metadata file: nobody looks whether the
\* writes succeed.
LastRewrite ==
    \/ ~dirty /\ UNCHANGED <<lines, torn>>
    \/ dirty /\ lines' = SetToSeq(Entries(Ids)) /\ torn' = FALSE
    \/ WriteFaults /\ dirty /\ (RewrittenInPart \/ UNCHANGED <<lines, torn>>)

\* The destructors sync, and MetadataStore's own does so whatever became of
\* the index.
Close == /\ up
         /\ \/ SaveIndex /\ synced' = acked
            \/ SaveIndexRefused /\ UNCHANGED synced
         /\ LastRewrite
         /\ Forgotten
         /\ Gone
         /\ UNCHANGED <<acked, updated>>

Crash == /\ up
         /\ Forgotten
         /\ Gone
         /\ UNCHANGED <<lines, torn, indexFile, history>>

CrashInAdd(doc) ==
    /\ up
    /\ nextId \in Ids /\ ~Taken
    /\ DiesAppending(nextId, doc)
    /\ Gone
    /\ UNCHANGED <<indexFile, history>>

\* Inside the save of the index, between the parts, or inside the rewrite of
\* the metadata.
CrashDuringSync ==
    /\ up
    /\ saved' = nodes
    /\ \/ SaveFaults /\ savedTorn' = TRUE /\ Forgotten /\ UNCHANGED <<lines, torn>>
       \/ CrashInSync /\ savedTorn' = FALSE /\ Forgotten /\ UNCHANGED <<lines, torn>>
       \/ CrashInSync /\ savedTorn' = FALSE /\ DiesRewriting
    /\ Gone
    /\ UNCHANGED history

ResumedShort == Size   \* mutant of ResumedId: off by one

\* The id init goes on with.
ResumedId == Size + 1

\* What load reads.  Of a file cut short it keeps some of the nodes, without
\* looking whether the reads succeed (or init fails, and no process is up).
Readable == IF savedTorn
            THEN {[id \in Ids |-> IF id \in kept THEN saved[id] ELSE None] : kept \in SUBSET Ids}
            ELSE {saved}

\* init, in a new process.  Every node read is indexed; the store
\* keeps no ids; ids continue after the number of metadata entries.
Open == /\ ~up
        /\ restarts < MaxRestarts
        /\ up' = TRUE
        /\ restarts' = restarts + 1
        /\ nodes' \in Readable
        /\ indexed' = {id \in Ids : nodes'[id] # None}
        /\ stored' = {}
        /\ LoadMetadata
        /\ nextId' = ResumedId'
        /\ reply' = "none"
        /\ acked' = synced
        /\ UNCHANGED <<indexFile, synced, updated>>

Next == \/ \E doc \in Docs : AddVector(doc) \/ CrashInAdd(doc)
        \/ \E id \in Ids : RemoveVector(id) \/ \E doc \in Docs : Update(id, doc)
        \/ Sync
        \/ SyncRefused
        \/ Close
        \/ Crash
        \/ CrashDuringSync
        \/ Open

Spec == Init /\ [][Next]_vars

------------------------------------------------------------------------------
Documents == [Ids -> Docs \cup {None}]

TypeOK == /\ metadata \in Documents
          /\ dirty \in BOOLEAN
          /\ stream \in {"closed", "open", "bad"}
          /\ \A i \in DOMAIN lines : lines[i] \in LineSet \cup {Malformed}
          /\ torn \in BOOLEAN
          /\ up \in BOOLEAN
          /\ nodes \in Documents
          /\ indexed \subseteq Ids /\ stored \subseteq Ids
          /\ nextId \in 1 .. Cardinality(Ids) + 1
          /\ saved \in Documents
          /\ savedTorn \in BOOLEAN
          /\ reply \in {"none", "ok", "IoError", "InvalidVectorId"}
          /\ restarts \in 0 .. MaxRestarts
          /\ acked \in Documents /\ synced \in Documents
          /\ updated \subseteq Ids

\* In the first process the three parts agree, whatever failed on the way: the
\* index and the store hold exactly the documents whose add succeeded and that
\* were not removed, each with its own metadata or what an update made of it.
AddsAreAtomic ==
    up /\ restarts = 0 =>
        /\ indexed = stored
        /\ indexed = {id \in DOMAIN acked : acked[id] # None}
        /\ \A id \in indexed : /\ nodes[id] = acked[id]
                               /\ metadata[id] # None
                               /\ id \in updated \/ metadata[id] = acked[id]

\* As long as the index file is never cut short, a vector a completed sync has
\* covered is in the index of every later process, as that document, until it
\* is removed, whatever else fails and wherever a process dies: ids given out
\* again never displace it.
SyncedVectorsSurvive ==
    up => \A id \in DOMAIN synced : synced[id] # None => id \in indexed /\ nodes[id] = synced[id]

\* So is its metadata, every field of it, unless it is updated, if no rewrite of
\* the metadata file fails or is cut short: a process may die between the parts
\* of a sync, and inside the append of an add.
SyncedMetadataSurvives ==
    up => \A id \in Ids \ updated : synced[id] # None => metadata[id] = synced[id]

\* Added, not updated, and not to be read back, even without the three fields.
Unread == {id \in Ids \ updated : /\ acked[id] # None
                                 /\ Loaded[id] \notin {acked[id], Abridged[acked[id]]}}

\* "Metadata: Immediately flushed after each write", as far as it is true: what
\* a sync has covered is in the file with every field, what was added since
\* without three of them; an add can be missing only if a process died inside
\* an append, and then only the first one after it; and when nothing is dirty
\* the file says what the map says, updates and removals included.
MetadataFlushed ==
    up => /\ \A id \in Ids \ updated : synced[id] # None => Loaded[id] = synced[id]
          /\ \A i, j \in Unread : TornAppends /\ i = j
          /\ ~dirty => Loaded = metadata

\* "Each vector stores rich metadata extracted from Gold Standard": a vector
\* is never answered with the metadata of another document.
Paired ==
    up => \A id \in indexed \ updated : metadata[id] \in {None, nodes[id], Abridged[nodes[id]]}
===============================================================================
