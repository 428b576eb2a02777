----------------------------- MODULE NativeAddon -----------------------------
(***************************************************************************)
(* The Studio's native addon (studio/hektor-app/native-addon/src):         *)
(* JavaScript objects hold databases by shared_ptr, and DatabaseManager    *)
(* keeps a map from names to databases.  A database is destroyed, and      *)
(* saves itself, with the last reference to it, which Close need not be:   *)
(* a Search, Ingestion or IndexManagement object, or a query on a worker   *)
(* thread, may hold it longer.                                             *)
(*                                                                         *)
(* All databases are on one path.  They are taken at their interface: the  *)
(* metadata in memory and in the file (VectorDatabase, MetadataStore).     *)
(* DatabaseManager's map has no lock; a worker thread reading it while the *)
(* main thread changes it is left out.                                     *)
(*                                                                         *)
(* The encoders, tokenizers and PgVectorStore (a map in memory, no client  *)
(* of a server) keep their state outside the objects, in entries of maps   *)
(* whose keys are addresses.  Nothing erases an entry, so that an object   *)
(* may find the entry of an earlier one at its address.  A vector is a     *)
(* number, its distance to another the difference; a token is a model      *)
(* value.                                                                  *)
(*                                                                         *)
(* HnswIndex, FlatIndex and BM25Engine hold theirs by unique_ptr; load     *)
(* makes another object.                                                   *)
(***************************************************************************)
EXTENDS Integers, SequencesExt, FiniteSetsExt

CONSTANTS Wrappers, \* Database objects of JavaScript
          Users,    \* objects made from a database's name
          Exclusive,\* is a path opened anew only when no database has it open?
          MaxOpen,  \* bound: databases opened
          MaxId     \* bound: ids

VARIABLES
    state,   \* of each database: it is created, initialized and destroyed
    entries, \* its metadata in memory
    next_id,
    file,    \* metadata.jsonl
    registry,\* DatabaseManager::databases_: name -> database, or 0
    db_,     \* what each wrapper and user holds: a database, or 0
    used,    \* history: ids of documents there have been
    kept     \* history: ids answered by an add and not deleted since

vars == <<state, entries, next_id, file, registry, db_, used, kept>>

Databases == 1 .. MaxOpen
Active == 0                          \* the name "active"; "db_<n>" is n
Names == {Active} \cup Databases
Holders == Wrappers \cup Users

Init == /\ state = [d \in Databases |-> "none"]
        /\ entries = [d \in Databases |-> {}]
        /\ next_id = [d \in Databases |-> 1]
        /\ file = {}
        /\ registry = [n \in Names |-> 0]
        /\ db_ = [h \in Holders |-> 0]
        /\ used = {} /\ kept = {}

------------------------------------------------------------------------------
Alive == {d \in Databases : state[d] \in {"created", "ready"}}

New == CHOOSE d \in Databases : state[d] = "none" /\ \A e \in Databases : e < d => state[e] # "none"
CanOpen == (\E d \in Databases : state[d] = "none") /\ (Exclusive => Alive = {})

\* After a step that leaves these references, the databases no one refers to
\* are destroyed; one that is ready saves itself.
Destroyed(names, holders) ==
    {d \in Alive : (\A n \in Names : names[n] # d) /\ (\A h \in Holders : holders[h] # d)}

Refer(names, holders) ==
    LET gone == Destroyed(names, holders) IN
    /\ registry' = names
    /\ db_' = holders
    /\ state' = [d \in Databases |-> IF d \in gone THEN "destroyed" ELSE state[d]]
    /\ LET saving == {d \in gone : state[d] = "ready"} IN
       IF saving = {} THEN UNCHANGED file ELSE \E d \in saving : file' = entries[d]

\* new Database(config): created, entered under a name of its own.
Construct(w) ==
    /\ CanOpen /\ db_[w] = 0
    /\ state' = [state EXCEPT ![New] = "created"]
    /\ registry' = [registry EXCEPT ![New] = New]
    /\ db_' = [db_ EXCEPT ![w] = New]
    /\ UNCHANGED <<entries, next_id, file, used, kept>>

InitializeEmpty(w) ==   \* mutant of Initialize: the file is not looked at
    LET d == db_[w] IN
    /\ d # 0 /\ state[d] = "created"
    /\ state' = [state EXCEPT ![d] = "ready"]
    /\ UNCHANGED <<entries, next_id, file, registry, db_, used, kept>>

\* initialize: what the file has is loaded.
Initialize(w) ==
    LET d == db_[w] IN
    /\ d # 0 /\ state[d] = "created"
    /\ state' = [state EXCEPT ![d] = "ready"]
    /\ entries' = [entries EXCEPT ![d] = file]
    /\ next_id' = [next_id EXCEPT ![d] = Cardinality(file) + 1]
    /\ UNCHANGED <<file, registry, db_, used, kept>>

\* createGoldStandardDb and openDatabase: created, initialized, entered as the
\* active database in the place of the one before.
OpenActive ==
    /\ CanOpen
    /\ LET names == [registry EXCEPT ![Active] = New]
           gone == Destroyed(names, db_)
       IN  /\ registry' = names
           /\ state' = [d \in Databases |-> IF d = New THEN "ready" ELSE IF d \in gone THEN "destroyed" ELSE state[d]]
           /\ entries' = [entries EXCEPT ![New] = file]
           /\ next_id' = [next_id EXCEPT ![New] = Cardinality(file) + 1]
           /\ LET saving == {d \in gone : state[d] = "ready"} IN
              IF saving = {} THEN UNCHANGED file ELSE \E d \in saving : file' = entries[d]
    /\ UNCHANGED <<db_, used, kept>>

\* close: the wrapper lets go, and so does the map.
Close(w) ==
    /\ db_[w] # 0
    /\ Refer([registry EXCEPT ![db_[w]] = 0], [db_ EXCEPT ![w] = 0])
    /\ UNCHANGED <<entries, next_id, used, kept>>

\* new Search(name), Ingestion(name), ...; a worker thread of queryVectorsAsync.
Use(u, n) ==
    /\ db_[u] = 0 /\ registry[n] # 0
    /\ db_' = [db_ EXCEPT ![u] = registry[n]]
    /\ UNCHANGED <<state, entries, next_id, file, registry, used, kept>>

\* The garbage collector takes an object, wrapper or not: a wrapper that was
\* not closed leaves its name in the map.
Collect(h) ==
    /\ db_[h] # 0
    /\ Refer(registry, [db_ EXCEPT ![h] = 0])
    /\ UNCHANGED <<entries, next_id, used, kept>>

------------------------------------------------------------------------------
\* addDocument, addVector and the ingestions test for a ready database.  An id
\* given out before may be refused: the index keeps nodes of removed documents.
Add(h) ==
    LET d == db_[h]
        id == next_id[d]
    IN  /\ d # 0 /\ state[d] = "ready" /\ id <= MaxId
        /\ next_id' = [next_id EXCEPT ![d] = id + 1]
        /\ \/ /\ id \in used
              /\ UNCHANGED <<entries, file, used, kept>>
           \/ /\ id \notin entries[d]
              /\ entries' = [entries EXCEPT ![d] = @ \cup {id}]
              /\ file' = file \cup {id}
              /\ used' = used \cup {id}
              /\ kept' = kept \cup {id}
        /\ UNCHANGED <<state, registry, db_>>

\* deleteDocument and updateDocument test for a database only.  One that is
\* not initialized has no stores: a null pointer ends the process.
CallTooEarly(w) ==
    /\ db_[w] # 0 /\ state[db_[w]] = "created"
    /\ state' = [d \in Databases |-> IF d \in Alive THEN "destroyed" ELSE state[d]]
    /\ registry' = [n \in Names |-> 0]
    /\ db_' = [h \in Holders |-> 0]
    /\ UNCHANGED <<entries, next_id, file, used, kept>>

DeleteDocument(w, id) ==
    LET d == db_[w] IN
    /\ d # 0 /\ state[d] = "ready" /\ id \in entries[d] \ {0}
    /\ entries' = [entries EXCEPT ![d] = @ \ {id}]
    /\ kept' = kept \ {id}
    /\ UNCHANGED <<state, next_id, file, registry, db_, used>>

\* updateDocument: VectorDatabase::update_metadata goes by the id inside the
\* metadata, which JSToMetadata leaves 0.
UpdateDocument(w) ==
    LET d == db_[w] IN
    /\ d # 0 /\ state[d] = "ready"
    /\ entries' = [entries EXCEPT ![d] = @ \cup {0}]
    /\ UNCHANGED <<state, next_id, file, registry, db_, used, kept>>

Next == \/ OpenActive
        \/ \E w \in Wrappers : \/ Construct(w) \/ Initialize(w) \/ Close(w) \/ CallTooEarly(w)
                               \/ UpdateDocument(w) \/ \E id \in 1 .. MaxId : DeleteDocument(w, id)
        \/ \E u \in Users, n \in Names : Use(u, n)
        \/ \E h \in Holders : Collect(h) \/ Add(h)

Spec == Init /\ [][Next]_vars

------------------------------------------------------------------------------
\* While a path is open once at a time, whoever holds the database and in
\* whatever order they let go, a document that was added and not deleted is
\* in the file, and in every database that has it open.
AddedIsKept == /\ kept \subseteq file
               /\ \A d \in Databases : state[d] = "ready" => kept \subseteq entries[d]

------------------------------------------------------------------------------
(* Objects whose state is kept by address.                                 *)

CONSTANTS Addresses, Words, Vectors,
          NotAVector,    \* an item of a batch that ReadVector refuses
          Dimensions,    \* what a caller may ask for
          MaxCreated, MaxRecords   \* bounds of the instance

PAD == "[PAD]"
Default == 384
Untold == 0

VARIABLES alive,       \* the kind of the object at an address, or "free"
          encoders,    \* g_text_states: address -> [dimension, ready]
          tokenizers,  \* g_tokenizer_states: address -> [vocab, reverse_vocab]
          stores,      \* g_pg_states: address -> [connected, dimension, next_id, records]
          told,        \* address -> what the caller of a store added and did not remove, by id,
                       \* and whether a batch of his failed
          created,     \* objects so far
          call         \* the last call and its answer

objectVars == <<alive, encoders, tokenizers, stores, told, created, call>>

NoCall == [op |-> "none"]

ObjectsInit == /\ alive = [x \in Addresses |-> "free"]
        /\ encoders = <<>> /\ tokenizers = <<>> /\ stores = <<>> /\ told = <<>>
        /\ created = 0 /\ call = NoCall

At(map, x, default) == IF x \in DOMAIN map THEN map[x] ELSE default
With(map, x, entry) == [y \in DOMAIN map \cup {x} |-> IF y = x THEN entry ELSE map[y]]
Without(map, keys) == [y \in DOMAIN map \ keys |-> map[y]]

Create(x, kind) == /\ alive[x] = "free" /\ created < MaxCreated
                   /\ alive' = [alive EXCEPT ![x] = kind] /\ created' = created + 1 /\ call' = NoCall

\* The garbage collector frees an object; its entry stays.
CollectObject(x) == /\ alive[x] # "free"
              /\ alive' = [alive EXCEPT ![x] = "free"] /\ call' = NoCall
              /\ UNCHANGED <<encoders, tokenizers, stores, told, created>>

------------------------------------------------------------------------------
(* Encoders.                                                               *)

NewEncoder == [dimension |-> Default, ready |-> FALSE]
Asked(entry, dimension) == IF dimension = Untold THEN entry ELSE [entry EXCEPT !.dimension = dimension]

CreateEncoder(x, dimension) ==
    /\ Create(x, "encoder")
    /\ encoders' = With(encoders, x, Asked(At(encoders, x, NewEncoder), dimension))
    /\ UNCHANGED <<tokenizers, stores, told>>

InitEncoder(x, dimension) ==
    /\ alive[x] = "encoder"
    /\ encoders' = [encoders EXCEPT ![x] = [Asked(@, dimension) EXCEPT !.ready = TRUE]]
    /\ call' = NoCall /\ UNCHANGED <<alive, tokenizers, stores, told, created>>

\* encode gets the encoder ready, encodeBatch does not care.
Encode(x, batch) ==
    /\ alive[x] = "encoder"
    /\ encoders' = [encoders EXCEPT ![x].ready = @ \/ ~batch]
    /\ call' = NoCall /\ UNCHANGED <<alive, tokenizers, stores, told, created>>

------------------------------------------------------------------------------
(* Tokenizers.  Ids count from 0; reverse_vocab has the token of id n at   *)
(* n + 1.                                                                  *)

NewTokenizer == [vocab |-> <<>>, reverse_vocab |-> <<>>]

\* mutant of TokenizerBegun: the list begins anew, the map does not
TokenizerEmptied(entry) ==
    [vocab |-> IF PAD \in DOMAIN entry.vocab THEN entry.vocab ELSE With(entry.vocab, PAD, 0),
     reverse_vocab |-> <<PAD>>]

TokenizerBegun(entry) ==
    [vocab |-> IF PAD \in DOMAIN entry.vocab THEN entry.vocab ELSE With(entry.vocab, PAD, 0),
     reverse_vocab |-> Append(entry.reverse_vocab, PAD)]

CreateTokenizer(x) ==
    /\ Create(x, "tokenizer")
    /\ tokenizers' = With(tokenizers, x, TokenizerBegun(At(tokenizers, x, NewTokenizer)))
    /\ UNCHANGED <<encoders, stores, told>>

\* A word that has no id is given the next one.
Learnt(entry, word) ==
    IF word \in DOMAIN entry.vocab THEN entry
    ELSE [vocab |-> With(entry.vocab, word, Len(entry.reverse_vocab)),
          reverse_vocab |-> Append(entry.reverse_vocab, word)]

\* A text's words are learnt one after the other.
AfterReading(entry, text) ==
    LET read[n \in 0 .. Len(text)] == IF n = 0 THEN entry ELSE Learnt(read[n - 1], text[n])
    IN  read[Len(text)]

Tokenize(x, text) ==
    /\ alive[x] = "tokenizer"
    /\ LET entry == AfterReading(tokenizers[x], text)
           ids == [n \in DOMAIN text |-> entry.vocab[text[n]]]
       IN  /\ tokenizers' = [tokenizers EXCEPT ![x] = entry]
           /\ call' = [op |-> "tokenize", text |-> text, at |-> x, ids |-> ids]
    /\ UNCHANGED <<alive, encoders, stores, told, created>>

\* What decode makes of ids: those out of range are passed over.
Decoded(reverse, ids) ==
    LET words[n \in 0 .. Len(ids)] == IF n = 0 THEN <<>>
                                      ELSE IF ids[n] < Len(reverse) THEN Append(words[n - 1], reverse[ids[n] + 1])
                                      ELSE words[n - 1]
    IN  words[Len(ids)]

Decode(x, ids) == Decoded(tokenizers[x].reverse_vocab, ids)

------------------------------------------------------------------------------
(* PgVectorStore.  The constructor alone begins with an entry of its own.  *)

NewStore == [connected |-> FALSE, dimension |-> 0, next_id |-> 1, records |-> <<>>]

StoreKept(x) == At(stores, x, NewStore)   \* mutant of StoreBegun: as the others do it

StoreBegun(x) == NewStore

CreateStore(x) == /\ Create(x, "store")
                  /\ stores' = With(stores, x, StoreBegun(x)) /\ told' = With(told, x, [vectors |-> <<>>, failed |-> FALSE])
                  /\ UNCHANGED <<encoders, tokenizers>>

Connect(x, connected) ==   \* init, reconnect and close; nothing else asks for it
    /\ alive[x] = "store"
    /\ stores' = [stores EXCEPT ![x].connected = connected]
    /\ call' = NoCall /\ UNCHANGED <<alive, encoders, tokenizers, told, created>>

\* add: the id is the record's and the metadata's.
Added(entry, v) == [entry EXCEPT !.dimension = IF @ = 0 THEN 1 ELSE @, !.next_id = @ + 1,
                                 !.records = With(@, entry.next_id, [vector |-> v, id |-> entry.next_id])]

AfterAdding(entry, vectors) ==
    LET added[n \in 0 .. Len(vectors)] == IF n = 0 THEN entry ELSE Added(added[n - 1], vectors[n])
    IN  added[Len(vectors)]

\* addBatch, of which add is the case of one: an item that is none ends it; those
\* before it stay, and the caller gets no ids.
AddBatch(x, items) ==
    /\ alive[x] = "store" /\ stores[x].next_id + Len(items) <= MaxRecords + 1
    /\ LET bad == SelectInSeq(items, LAMBDA v : v = NotAVector)
           good == IF bad = 0 THEN items ELSE SubSeq(items, 1, bad - 1)
           first == stores[x].next_id
       IN  /\ stores' = [stores EXCEPT ![x] = AfterAdding(@, good)]
           /\ told' = IF bad # 0 THEN [told EXCEPT ![x].failed = TRUE]
                      ELSE [told EXCEPT ![x].vectors =
                               [id \in DOMAIN @ \cup first .. first + Len(items) - 1 |->
                                   IF id < first THEN @[id] ELSE items[id - first + 1]]]
    /\ call' = NoCall /\ UNCHANGED <<alive, encoders, tokenizers, created>>

\* removeBatch, of which remove is the case of one.
RemoveBatch(x, ids) ==
    /\ alive[x] = "store"
    /\ stores' = [stores EXCEPT ![x].records = Without(@, ids)]
    /\ told' = [told EXCEPT ![x].vectors = Without(@, ids)]
    /\ call' = NoCall
    /\ UNCHANGED <<alive, encoders, tokenizers, created>>

\* updateMetadata takes the caller's metadata but for the id.
UpdateMetadata(x, id) ==
    /\ alive[x] = "store" /\ id \in DOMAIN stores[x].records
    /\ stores' = [stores EXCEPT ![x].records[id].id = id]
    /\ call' = NoCall /\ UNCHANGED <<alive, encoders, tokenizers, told, created>>

\* search sorts all records by distance, those as near in any order, and keeps k.
Distance(v, w) == IF v > w THEN v - w ELSE w - v

Search(x, query, k) ==
    /\ alive[x] = "store"
    /\ \E answer \in SetToSeqs(DOMAIN stores[x].records) :
          /\ \A i, j \in DOMAIN answer :
                i < j => Distance(stores[x].records[answer[i]].vector, query)
                            <= Distance(stores[x].records[answer[j]].vector, query)
          /\ call' = [op |-> "search", at |-> x, query |-> query, k |-> k,
                      answer |-> SubSeq(answer, 1, IF k < Len(answer) THEN k ELSE Len(answer))]
    /\ UNCHANGED <<alive, encoders, tokenizers, stores, told, created>>

------------------------------------------------------------------------------
ObjectsNext == \E x \in Addresses :
           \/ CollectObject(x)
           \/ \E d \in Dimensions \cup {Untold} : CreateEncoder(x, d) \/ InitEncoder(x, d)
           \/ \E batch \in BOOLEAN : Encode(x, batch)
           \/ CreateTokenizer(x)
           \/ \E text \in SeqOf(Words \cup {PAD}, 2) : Tokenize(x, text)
           \/ CreateStore(x)
           \/ \E connected \in BOOLEAN : Connect(x, connected)
           \/ \E items \in SeqOf(Vectors \cup {NotAVector}, 2) : AddBatch(x, items)
           \/ \E ids \in SUBSET (1 .. 2) : RemoveBatch(x, ids)
           \/ \E id \in 1 .. MaxRecords : UpdateMetadata(x, id)
           \/ \E query \in Vectors, k \in 0 .. 2 : Search(x, query, k)

ObjectsSpec == ObjectsInit /\ [][ObjectsNext]_objectVars

------------------------------------------------------------------------------
ObjectsTypeOK == /\ \A x \in Addresses : alive[x] = "encoder" => x \in DOMAIN encoders
                 /\ \A x \in Addresses : alive[x] = "tokenizer" => x \in DOMAIN tokenizers
                 /\ \A x \in Addresses : alive[x] = "store" => x \in DOMAIN stores \cap DOMAIN told

\* Ids are read back as the words they were given for, also where a tokenizer
\* goes on with the vocabulary of an earlier one.
TokensReadBack ==
    /\ \A x \in DOMAIN tokenizers : \A word \in DOMAIN tokenizers[x].vocab :
          LET id == tokenizers[x].vocab[word]
          IN  id < Len(tokenizers[x].reverse_vocab) /\ tokenizers[x].reverse_vocab[id + 1] = word
    /\ call.op = "tokenize" => Decode(call.at, call.ids) = call.text

\* A store has all its caller added and did not remove, under the ids the caller
\* knows, nothing of an earlier store, and beyond that only what batches left that
\* failed.
StoreHoldsTold ==
    \A x \in Addresses : alive[x] = "store" =>
       LET records == stores[x].records
       IN  /\ \A id \in DOMAIN told[x].vectors : id \in DOMAIN records /\ records[id].vector = told[x].vectors[id]
           /\ \A id \in DOMAIN records : records[id].id = id /\ id < stores[x].next_id
           /\ ~told[x].failed => DOMAIN records = DOMAIN told[x].vectors

\* A search leaves out no record that is nearer than one it answers.
SearchIsNearest ==
    call.op = "search" =>
       LET records == stores[call.at].records
           distance(id) == Distance(records[id].vector, call.query)
       IN  /\ Len(call.answer) = Min({call.k, Cardinality(DOMAIN records)})
           /\ \A id \in ToSet(call.answer), other \in DOMAIN records \ ToSet(call.answer) :
                 distance(id) <= distance(other)

------------------------------------------------------------------------------
(* Objects that hold an index or a text engine of their own (index.cpp,    *)
(* hybrid.cpp), and one file they are saved in.  HnswIndex, FlatIndex and  *)
(* BM25Engine are taken at their interface, where a save is whole.         *)

CONSTANTS Handles,
          Items,          \* ids
          Contents,       \* what is added: vectors, texts
          Empty,          \* a text without terms, as a vector like any other
          Rooms,          \* max_elements
          MaxBelow        \* bound: how far below zero a count falls

VARIABLES object,   \* what each handle holds
          onDisk,   \* the file: what was saved there, and what had been promised
          promised  \* history: handle -> the items its caller was told are there

heldVars == <<object, onDisk, promised>>

Nothing == [kind |-> "none"]

\* count is element_count_; buried are removed nodes, which stay in the graph.
NewIndex(kind, room) == [kind |-> kind, content |-> <<>>, buried |-> <<>>, count |-> 0, room |-> room]

HeldInit == /\ object = [h \in Handles |-> Nothing]
            /\ onDisk = [object |-> Nothing, promised |-> <<>>]
            /\ promised = [h \in Handles |-> <<>>]

\* What an object holds after a call, and what its caller then knows to be there.
Become(h, x, known) == /\ object' = [object EXCEPT ![h] = x]
                       /\ promised' = [promised EXCEPT ![h] = known]

CreateHeld(h, x) == object[h] = Nothing /\ Become(h, x, <<>>) /\ UNCHANGED onDisk
CollectHeld(h) == object[h] # Nothing /\ Become(h, Nothing, <<>>) /\ UNCHANGED onDisk

SaveHeld(h) == /\ onDisk' = [object |-> object[h], promised |-> promised[h]]
               /\ UNCHANGED <<object, promised>>

------------------------------------------------------------------------------
\* A count below zero is one above any room.
Full(x) == x.kind = "hnsw" /\ (x.count < 0 \/ x.count >= x.room)
Refused(x, i, v) == i \in DOMAIN x.content \/ Full(x) \/ (x.kind = "bm25" /\ v = Empty)

Entered(x, i, v) == [x EXCEPT !.content = With(@, i, v), !.buried = Without(@, {i}), !.count = @ + 1]

\* The items of a batch, until one is refused.
Taking(r, item) == IF r.ok /\ ~Refused(r.x, item[1], item[2])
                   THEN [r EXCEPT !.x = Entered(@, item[1], item[2]), !.known = With(@, item[1], item[2])]
                   ELSE [r EXCEPT !.ok = FALSE]
AfterTaking(r, batch) ==
    LET taken[n \in 0 .. Len(batch)] == IF n = 0 THEN r ELSE Taking(taken[n - 1], batch[n])
    IN  taken[Len(batch)]

\* add_batch, of which add is the case of one: what was taken before the refused one
\* stays, and the caller learns of none.
AddHeld(h, batch) ==
    LET result == AfterTaking([x |-> object[h], known |-> promised[h], ok |-> TRUE], batch)
    IN  /\ Become(h, result.x, IF result.ok THEN result.known ELSE promised[h])
        /\ UNCHANGED onDisk

Left(x, i) == [x EXCEPT !.content = Without(@, {i}), !.count = @ - 1,
                        !.buried = IF x.kind = "hnsw" THEN With(@, i, x.content[i]) ELSE @]

RemoveHeld(h, i) == /\ i \in DOMAIN object[h].content /\ object[h].count > -MaxBelow
                    /\ Become(h, Left(object[h], i), Without(promised[h], {i}))
                    /\ UNCHANGED onDisk

\* resize
ResizeHeld(h, room) == /\ object[h].count \in 0 .. room
                       /\ object' = [object EXCEPT ![h].room = room]
                       /\ UNCHANGED <<onDisk, promised>>

\* updateDocument: with a text that has no terms the document is gone, which the
\* caller is told as an error.
UpdateHeld(h, i, v) ==
    LET x == IF i \in DOMAIN object[h].content THEN Left(object[h], i) ELSE object[h]
    IN  /\ IF Refused(x, i, v) THEN Become(h, x, Without(promised[h], {i}))
                               ELSE Become(h, Entered(x, i, v), With(promised[h], i, v))
        /\ UNCHANGED onDisk

HnswCall(h) == /\ object[h].kind = "hnsw"
               /\ \/ \E batch \in SeqOf(Items \X Contents, 2) : AddHeld(h, batch)
                  \/ \E i \in Items : RemoveHeld(h, i)
                  \/ \E room \in Rooms : ResizeHeld(h, room)
                  \/ SaveHeld(h)
FlatCall(h) == /\ object[h].kind = "flat"
               /\ \/ \E i \in Items, v \in Contents : AddHeld(h, <<<<i, v>>>>)
                  \/ SaveHeld(h)
EngineCall(h) == /\ object[h].kind = "bm25"
                 /\ \/ \E i \in Items, v \in Contents : AddHeld(h, <<<<i, v>>>>) \/ UpdateHeld(h, i, v)
                    \/ \E i \in Items : RemoveHeld(h, i)
                    \/ SaveHeld(h)

\* HnswIndex.load and deserialize: what was removed is back, the count is the
\* saved one; a file of another kind is an error.
HnswLoad(h) ==
    LET x == onDisk.object IN
    /\ object[h] = Nothing /\ x.kind = "hnsw"
    /\ Become(h, [x EXCEPT !.content = [i \in DOMAIN @ \cup DOMAIN x.buried |->
                                           IF i \in DOMAIN @ THEN @[i] ELSE x.buried[i]],
                           !.buried = <<>>], onDisk.promised)
    /\ UNCHANGED onDisk

\* FlatIndex.load: as there is no FlatIndex to answer beside the error of a file
\* that is not one, UnwrapResult ends the process.
FlatLoad(h) ==
    /\ object[h] = Nothing
    /\ IF onDisk.object.kind = "flat"
       THEN Become(h, onDisk.object, onDisk.promised)
       ELSE object' = [g \in Handles |-> Nothing] /\ promised' = [g \in Handles |-> <<>>]
    /\ UNCHANGED onDisk

\* BM25Engine.load drops the engine it has loaded and answers a new one.
EngineLoad(h) == onDisk.object.kind = "bm25" /\ CreateHeld(h, NewIndex("bm25", 0))

------------------------------------------------------------------------------
HeldNext == \E h \in Handles :
    \/ CollectHeld(h)
    \/ \E room \in Rooms : CreateHeld(h, NewIndex("hnsw", room))
    \/ \E kind \in {"flat", "bm25"} : CreateHeld(h, NewIndex(kind, 0))
    \/ HnswCall(h) \/ FlatCall(h) \/ EngineCall(h)
    \/ HnswLoad(h) \/ FlatLoad(h) \/ EngineLoad(h)

HeldSpec == HeldInit /\ [][HeldNext]_heldVars

------------------------------------------------------------------------------
\* What an index or an engine was told, and answered that it has taken, is there, also
\* after it went through the file, and nothing else is in a FlatIndex or a
\* BM25Engine; the removed nodes of a loaded HnswIndex, and what a failed batch
\* began with, may be there too.
HeldAsPromised ==
    \A h \in Handles : object[h].kind \in {"hnsw", "flat", "bm25"} =>
        LET content == object[h].content
        IN  /\ \A i \in DOMAIN promised[h] : i \in DOMAIN content /\ content[i] = promised[h][i]
            /\ object[h].kind # "hnsw" => DOMAIN content = DOMAIN promised[h]
==============================================================================
