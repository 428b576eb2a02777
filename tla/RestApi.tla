------------------------------- MODULE RestApi -------------------------------
(***************************************************************************)
(* The REST API (api/main.py): DatabaseManager keeps a registry of         *)
(* collections and of the ids of their documents beside the vector         *)
(* database, in memory and in collections.json.  The endpoints do not      *)
(* await, so in one worker a request is one step, but it may raise, or the *)
(* process die, on the way; workers are processes that share the files.    *)
(*                                                                         *)
(* Of a database (VectorDatabase) there are here the index and the         *)
(* metadata, which names the collection: a line of the metadata is in its  *)
(* file at once, the index and all removals only after a sync, which the   *)
(* API asks for when it is shut down and never before.                     *)
(***************************************************************************)
EXTENDS Integers, FiniteSets

CONSTANTS Workers,
          Collections, \* names
          None,
          MaxId        \* bound: ids a database gives out

VARIABLES
    up,             \* the workers that serve requests
    registry,       \* DatabaseManager.collections: name -> document_ids, or None
    file,           \* collections.json: the same, or None when it cannot be read
    indexed, nodes, \* each worker's index: the ids it finds, and those it has a node of
    documents,      \* its metadata: id -> collection, or None
    next_id,
    savedNodes, savedDocuments,   \* both in their files
    answered,       \* history: collections whose creation, and not removal, was answered
    clean,          \* history: no worker died and no save of the registry failed
    deleted         \* history: a collection was deleted

memory == <<up, registry, indexed, nodes, documents, next_id>>
saved == <<savedNodes, savedDocuments>>
vars == <<memory, file, saved, answered, clean, deleted>>

DocumentIds == 1 .. MaxId
NoCollections == [c \in Collections |-> None]
NoDocuments == [i \in DocumentIds |-> None]

Init == /\ up = {}
        /\ registry = [w \in Workers |-> NoCollections]
        /\ indexed = [w \in Workers |-> {}] /\ nodes = [w \in Workers |-> {}]
        /\ documents = [w \in Workers |-> NoDocuments]
        /\ next_id = [w \in Workers |-> 1]
        /\ file = NoCollections
        /\ savedNodes = {} /\ savedDocuments = NoDocuments
        /\ answered = {} /\ clean = TRUE /\ deleted = FALSE

------------------------------------------------------------------------------
Entries == {i \in DocumentIds : savedDocuments[i] # None}

\* Mutant of ResumedId: ids go on after the number of nodes in the index.
ResumedByIndex == Cardinality(savedNodes) + 1

\* VectorDatabase::init: ids go on after the number of metadata entries.
ResumedId == Cardinality(Entries) + 1

\* initialize: a registry that cannot be read is an empty one.  The index finds
\* every node in its file.
Start(w) == /\ w \notin up
            /\ up' = up \cup {w}
            /\ registry' = [registry EXCEPT ![w] = IF file = None THEN NoCollections ELSE file]
            /\ indexed' = [indexed EXCEPT ![w] = savedNodes]
            /\ nodes' = [nodes EXCEPT ![w] = savedNodes]
            /\ documents' = [documents EXCEPT ![w] = savedDocuments]
            /\ next_id' = [next_id EXCEPT ![w] = ResumedId]
            /\ UNCHANGED <<file, saved, answered, clean, deleted>>

Gone(w) == /\ w \in up
           /\ up' = up \ {w}
           /\ registry' = [registry EXCEPT ![w] = NoCollections]
           /\ indexed' = [indexed EXCEPT ![w] = {}]
           /\ nodes' = [nodes EXCEPT ![w] = {}]
           /\ documents' = [documents EXCEPT ![w] = NoDocuments]
           /\ next_id' = [next_id EXCEPT ![w] = 1]

\* lifespan: a worker that is shut down syncs its database.
Stop(w) == /\ Gone(w)
           /\ savedNodes' = nodes[w] /\ savedDocuments' = documents[w]
           /\ UNCHANGED <<file, answered, clean, deleted>>

\* The database has a document for c: index, store and metadata, of which only
\* the metadata's line is in its file.
CanAdd(w, c) == registry[w][c] # None /\ next_id[w] \in DocumentIds \ indexed[w]
LineAppended(w, c) == savedDocuments' = [savedDocuments EXCEPT ![next_id[w]] = c]

\* A worker dies: at rest or with a removal under way, while it writes
\* collections.json, which write_text has emptied, between the line of a document
\* and the end of the request, or in the sync of its shutdown.
Die(w) == /\ Gone(w)
          /\ clean' = FALSE
          /\ \/ UNCHANGED saved /\ file' \in {file, None}
             \/ /\ \E c \in Collections : CanAdd(w, c) /\ LineAppended(w, c)
                /\ file' \in {file, None} /\ UNCHANGED savedNodes
             \/ savedNodes' = nodes[w] /\ UNCHANGED <<file, savedDocuments>>
          /\ UNCHANGED <<answered, deleted>>

\* _save_collections: the whole registry, over what is there; or write_text
\* raises, before it has emptied the file or after, and the memory has changed.
Save(w, new) == /\ registry' = [registry EXCEPT ![w] = new]
                /\ file' = new
                /\ UNCHANGED clean
SaveFails(w, new) == /\ registry' = [registry EXCEPT ![w] = new]
                     /\ file' \in {file, None}
                     /\ clean' = FALSE

CreateAnyway(w, c) ==   \* mutant of Create: an existing name is not refused
    /\ w \in up
    /\ Save(w, [registry[w] EXCEPT ![c] = {}]) /\ answered' = answered \cup {c}
    /\ UNCHANGED <<up, indexed, nodes, documents, next_id, saved, deleted>>

CreateUnsaved(w, c) ==   \* mutant of Create: only the memory knows it
    /\ w \in up /\ registry[w][c] = None
    /\ registry' = [registry EXCEPT ![w][c] = {}] /\ answered' = answered \cup {c}
    /\ UNCHANGED <<up, file, indexed, nodes, documents, next_id, saved, clean, deleted>>

Create(w, c) ==
    /\ w \in up /\ registry[w][c] = None
    /\ LET new == [registry[w] EXCEPT ![c] = {}]
       IN \/ Save(w, new) /\ answered' = answered \cup {c}
          \/ SaveFails(w, new) /\ UNCHANGED answered
    /\ UNCHANGED <<up, indexed, nodes, documents, next_id, saved, deleted>>

\* add_document, and each document of a batch: into the database, then into the
\* registry.  If that is not saved, the answer is an error for a document that
\* is there.
AddDocument(w, c) ==
    /\ w \in up /\ CanAdd(w, c)
    /\ next_id' = [next_id EXCEPT ![w] = @ + 1]
    /\ indexed' = [indexed EXCEPT ![w] = @ \cup {next_id[w]}]
    /\ nodes' = [nodes EXCEPT ![w] = @ \cup {next_id[w]}]
    /\ documents' = [documents EXCEPT ![w][next_id[w]] = c]
    /\ LineAppended(w, c)
    /\ LET new == [registry[w] EXCEPT ![c] = @ \cup {next_id[w]}]
       IN Save(w, new) \/ SaveFails(w, new)
    /\ UNCHANGED <<up, savedNodes, answered, deleted>>

\* The database refuses an id its index has: the request fails, the id is used up.
AddRefused(w, c) ==
    /\ w \in up /\ registry[w][c] # None /\ next_id[w] \in DocumentIds \cap indexed[w]
    /\ next_id' = [next_id EXCEPT ![w] = @ + 1]
    /\ UNCHANGED <<up, registry, indexed, nodes, documents, file, saved, answered, clean, deleted>>

\* remove, for each id; one that the index does not have is only logged.
Remove(w, ids) ==
    /\ indexed' = [indexed EXCEPT ![w] = @ \ ids]
    /\ documents' = [documents EXCEPT ![w] =
                        [i \in DocumentIds |-> IF i \in ids \cap indexed[w] THEN None ELSE documents[w][i]]]

DeleteUnsaved(w, c) ==   \* mutant of Delete: the registry is not saved
    /\ w \in up /\ registry[w][c] # None
    /\ Remove(w, registry[w][c])
    /\ registry' = [registry EXCEPT ![w][c] = None] /\ answered' = answered \ {c}
    /\ deleted' = TRUE
    /\ UNCHANGED <<up, file, nodes, next_id, saved, clean>>

\* delete_collection.
Delete(w, c) ==
    /\ w \in up /\ registry[w][c] # None
    /\ Remove(w, registry[w][c])
    /\ LET new == [registry[w] EXCEPT ![c] = None]
       IN \/ Save(w, new) /\ answered' = answered \ {c}
          \/ SaveFails(w, new) /\ UNCHANGED answered
    /\ deleted' = TRUE
    /\ UNCHANGED <<up, nodes, next_id, saved>>

Next == \E w \in Workers :
           \/ Start(w) \/ Stop(w) \/ Die(w)
           \/ \E c \in Collections : Create(w, c) \/ AddDocument(w, c) \/ AddRefused(w, c) \/ Delete(w, c)

Spec == Init /\ [][Next]_vars

------------------------------------------------------------------------------
Tracked(w, c) == IF registry[w][c] = None THEN {} ELSE registry[w][c]
Found(w, c) == {i \in indexed[w] : documents[w][i] = c}   \* what a search answers for c

\* With one worker that is only ever shut down, and whose saves succeed, a
\* collection tracks exactly what a search answers for it: deleting it removes
\* no other's documents, and none outlives it to be found under a new one of its
\* name.
TracksItsOwn == clean => \A w \in up, c \in Collections : Tracked(w, c) = Found(w, c)

\* With one worker, wherever it died and whichever saves failed: as long as no
\* collection was deleted, each tracks only documents of its own, which the
\* metadata has; ids are never given out again.
TracksNoOthers ==
    ~deleted => \A w \in up, c \in Collections : \A i \in Tracked(w, c) : documents[w][i] = c

\* A collection that was answered as created is there until it is deleted, if
\* the one worker never died and no save failed.
AnsweredIsKept == clean => \A w \in up : \A c \in answered : registry[w][c] # None
==============================================================================
