# Verification of Hektor: TLA+ models, TLC runs and TLAPS proofs

Hektor is a C++ vector database with adapters for the formats documents come in,
encoders and a language model, a REST API and a desktop program (Studio).  This
directory holds models of the parts of it that keep state or decide something,
the configurations that check them with TLC, and machine-checked proofs, in eight
modules, about fifteen of them.  Paths below are relative to the repository root; line numbers are those
of the modelled commit.

* [The system](#the-system) - components, state, operations, what is hard
* [Modules](#modules) - which module models what, and how
* [Runs](#runs) - what each run checks, its bounds, its fairness
* [What the code does not promise](#what-the-code-does-not-promise) - findings
* [Proofs](#proofs) - what holds for every value of the constants, and why
* [Abstractions](#abstractions-and-what-is-not-modelled)
* [Plan](#plan)

## The system

```
 Studio's App.tsx          Studio's native addon      CLI, Python bindings
        | HTTP                      |                        |
 REST API (api/main.py)             |          ingest, format adapters
        |                           |                        |
        +---------------------------+------------------------+
                                    |
                             VectorDatabase      one shared_mutex, next_id_
                  /          |            |            \
        TextEncoder,     HnswIndex   VectorStore   MetadataStore
        ImageEncoder    index.hnsw   vectors.bin   metadata.jsonl

 FlatIndex, SqliteStore, MetadataIndex, BM25Engine, HybridSearchEngine, RAGEngine,
 LlamaEngine, quantizers, HttpClient, ThreadPool, Logger: libraries of their own.
```

**MemoryMappedFile and VectorStore** (`src/storage/mmap_store.cpp`).  State: the
mapping, the file with its header, the slot of each id (`id_to_offset_`), the stack of
vacated slots, the number of slots.  Hard: a fresh slot is numbered
`id_to_offset_.size()`, which is right only while used and vacated slots leave no
gap; growth unmaps before it knows whether it can map again; `get` hands out views
that outlive the lock; `compact` runs with the free list still naming slots it has
filled; ids are not in the file.

**HnswIndex, FlatIndex** (`src/index/hnsw.cpp`).  State: nodes with links per layer,
the map from ids, the entry point, counters, a file.  Hard: removal is lazy, so links,
entry point and file keep naming removed ids; an id may be added again while old
links lead to it; links are pruned at one end only; files cut short load.

**MetadataStore** (`src/storage/mmap_store.cpp`).  State: the map, `dirty_`, the appending
stream, the lines of the file.  Hard: torn lines, writes whose failure nobody looks
at, a rewrite in place that may be cut short; the line an add appends has three fields
fewer than the line a rewrite writes.

**VectorDatabase** (`src/database.cpp`).  State: the three stores, `next_id_`, the lock.
Hard: a write changes index, store and metadata in turn and undoes the earlier ones by
hand; `init` goes on with ids from the number of metadata entries; operations made of
several critical sections (`remove_by_date`, `add_texts`); a lock taken twice
(`add_text` with `auto_sync`).

**ThreadPool** (`src/core/thread_pool.cpp`).  State: the queue, `active_tasks_`, `stop_`, the
workers.  Hard: notification outside the mutex, the destructor against tasks that
submit tasks, blocking calls from workers, exceptions.

**SqliteStore** (`src/storage/sqlite_store.cpp`).  State: tables of documents, a query cache
with a time to live, configuration.  Hard: a mutex that some operations lock twice,
an eviction that reads and deletes apart, times kept as local text.

**MetadataIndex, BM25Engine, HybridSearchEngine** (`src/index/metadata_index.cpp`,
`src/hybrid`).  State: postings and counters derived from documents the caller reports.
Hard: keeping the derived in step with what it is derived from through updates,
re-created indices, saves and loads; negative scores in a fusion.

**Quantizers, vector operations** (`src/quantization`, `src/core/vector_ops.cpp`,
`distance.cpp`).  Hard: empty clusters, repeated centroids, remainders of vector loops, ranges
retrained, a display changed after training.

**Encoders, LlamaEngine** (`src/embeddings`, `src/llm`).  State: a session with its tokenizer
and configuration; a context that fills.  Hard: an init that fails halfway on an object
that was ready; padding and truncation; stops that span pieces of text.

**HttpClient and its RateLimiter** (`src/adapters/http_client.cpp`).  State: the requests of
the last second, minute and hour; counters behind a mutex.  Hard: a retry of what was
already served, sleeping with the mutex held, counting in two visits.

**Ingest, chunking, RAGEngine, format adapters** (`src/ingest`, `src/framework`, `src/adapters`).
State: what has been ingested; the position in a text; rows of a file.  Hard: loops whose
next start must be beyond the last, writes that fail midway and are repeated.

**Logger, telemetry** (`include/vdb/logging.hpp`, `telemetry.hpp`).  Hard: an unguarded look at
`initialized_`, rotation, the failbit of a stream opened twice; objects made before the
provider they look for, spans that end with their owner.

**Command line and shell** (`src/cli`).  State: what is taken from `argv`, the history and its
file.  Hard: flags, values and paths told apart by position; two shells that save one
history.

**REST API** (`api/main.py`), **Studio's addon and renderer** (`studio/hektor-app`).  State: a
registry of documents beside the database, saved at every change, while the database is
synced at shutdown only; objects whose state is kept by
their address or by whoever still refers to it; what is on display while answers to
earlier requests are under way.

Declared and not implemented in the repository: replication, the batch and the unified
store.  Every component is in `PROJECT.json` under `components`, with its reason where
it is not or only partly modelled; the hazards, each at its line, are under `hazards`.

## Modules

| module | models | proofs |
|---|---|---|
| `VectorMap` | what VectorStore promises: a dictionary | |
| `VectorStore` | VectorStore | `VectorStoreProofs` |
| `MemoryMappedFile` | MemoryMappedFile | `StoresProofs` |
| `HnswIndex` | HnswIndex | `HnswIndexProofs` |
| `FlatIndex` | FlatIndex | `StoresProofs` |
| `MetadataStore` | MetadataStore: state and operations | `VectorDatabaseProofs` |
| `VectorDatabase` | VectorDatabase over the three stores, from process to process | `VectorDatabaseProofs` |
| `DocumentMap` | what VectorDatabase promises threads: a dictionary | |
| `DatabaseThreads` | threads that share a VectorDatabase | `DatabaseThreadsProofs` |
| `ThreadPool` | ThreadPool | `ThreadPoolProofs` |
| `SqliteStore` | SqliteStore | `StoresProofs` |
| `MetadataIndex` | MetadataIndex | `StoresProofs` |
| `HybridSearch` | BM25Engine; KeywordExtractor and QueryRewriter; the fusions of HybridSearchEngine | `StoresProofs` |
| `Quantizers`, `AdaptiveQuantizer` | ProductQuantizer and ScalarQuantizer; displays, curves and bit budgets | |
| `VectorOps` | kernels, distances, projection and search of vector_ops and distance | |
| `Encoders` | TextEncoder, ImageEncoder, the WordPiece tokenizer | |
| `LlamaEngine` | LlamaEngine | |
| `HttpClient` | requests, retries and statistics of threads; the limiter of a host | `HttpClientProofs` |
| `Chunking`, `RagEngine` | the chunking loops; the other strategies and the token budget | |
| `Adapters` | CSV, SQLite, Parquet, JSON, XML | |
| `PgvectorAdapter`, `AdapterManager` | connection, table and queries of pgvector; which adapter gets what, and fetching | |
| `Ingest` | GoldStandardIngest | |
| `Logger`, `Telemetry` | Logger; spans, metrics and their manager | `StoresProofs` |
| `CommandLine` | arguments, commands, the shell and its history | |
| `RestApi` | registry, file and database of the API | `StoresProofs` |
| `ApiRequests` | its filters, logins and tokens | |
| `NativeAddon` | databases in the addon, its objects kept by address, and those that hold an index or engine | `StoresProofs` |
| `Renderer` | what App keeps of the REST API | |
| `Stores` | FlatIndex, MemoryMappedFile, SqliteStore, MetadataIndex, HybridSearch, Logger, Telemetry, RestApi and NativeAddon side by side, and what they promise | `StoresProofs` |
| `Recursions` | what is defined by recursion over numbers, or over a finite set | its own |
| `MC*` | instances for TLC | |

A definition has the name of the code it stands for where TLA+ allows it, and
`PROJECT.json` `map` gives its lines.  A definition commented "mutant of X" is a
plausible bug in X: put in X's place it makes the named property fail, which
shows that the property depends on that code.

**VectorStore.**  One variable per field: `mapping`, `mapSlots` (`data_`, `size_`), `fileSlots`,
`disk`, `headerCapacity` (the file), `capacity`, `slotOf`, `freeSlots`; lengths are counted
in slots.  `AddRecycled` takes the last vacated slot, `AddFresh` the next fresh one;
`AddGrows` doubles the file, rounded up to pages; `AddGrowsInPlace` is the doubling that
already fits the mapping; `AddCannotGrow` is a failing `ftruncate` (the old pointer
dangles) or a failing `mmap` (null); `Fault` is a process that dereferences the dangling
pointer.  `compact` is one action per iteration, because a process may die between
two.  What is stored is in the file at once (`MAP_SHARED`): processes die, not the machine.

**MemoryMappedFile.**  `objects` has the fields of each object, `regions` and `fds` what the system
has mapped and opened, `files` the lengths of files, `dirty` the writes not yet synced.  A
system call in `Faults` may fail; `OpenExisting`, `OpenWrite`, `Resize`, `Move`, `Sync` and `Close`
have a disjunct for each way out.  What is told apart is who holds a descriptor or a region,
and how far it reaches.

**HnswIndex.**  `Explore` is the loop of `search_layer`; `Descend`, `Insert`, `Connect` and
`Linked` are the phases of `add`.  Vectors are points on a line; only the order of
distances is used.  `config` is what the index was made or loaded with and what
`set_ef_search` makes of it.  The history variable `intact` says that no step has cut the
graph; `SearchExact` is stated for such graphs and a configuration that covers the ids, and
compares the search with its reference definition, the k nearest of all live vectors.

**MetadataStore and VectorDatabase.**  `MetadataStore` defines operations as relations on its
variables, without a `Next`: VectorDatabase calls them under its lock, so its actions
are their conjunctions.  A line of the file is an id with a document, or `Malformed`;
`torn` says that the last line has no newline.  `Abridged` is what an appended line reads
back as, `append_to_file` leaving out `dxy`, `vix` and `yield_10y`; `sync` writes them.  A document is one model value for its
vector and its metadata, so that a vector answered with another document's metadata is
visible.  `AddRefused`, `AddUnstored` and `AddStored` are the exits of `add_vector`;
`CrashInAdd` and `CrashDuringSync` are processes that die between the parts or inside one;
`Close` is the destructors, whose writes may fail too (`LastRewrite`).  `Update` writes any
document under any id, as `update_metadata` looks at nothing but the metadata's own id.
`acked`, `synced` and `updated` are history: what was added and not removed, what of it a sync
has covered, and the ids that were updated.

**DatabaseThreads.**  One action per stretch between two looks at shared state: `AddIndex`,
`AddStore`, `AddMetadata` hold the lock between them, `FindByDate` and each `RemoveIndex`
of a `remove_by_date` do not.  An add that the metadata file refuses leaves its entry in the
map, as the roll-back takes the document out of index and store only.  The history
`late` has the ids whose entry an update has made without a document, or after its removal,
`failed` those that a refused add has left.  `SyncAgain` is the lock asked for by its holder, which is
undefined: the thread waits for itself or the lock throws.  `DocumentMap` is the abstract
specification: documents change and are found in single steps.  The mapping hides a
document that is being added until the add is done.

**ThreadPool.**  A section that holds the mutex is one action; waiting and notifying are steps
of their own.  Calls are made by outside threads or by tasks (`Parent`); a worker whose
task waits in `parallel_for` stays in "running" until that call returns.
`WakeSpuriously` and the repeatable `WaitAll` are spurious wakeups.

**SqliteStore.**  The mutex is a variable; an operation that keeps it throughout is one action.
`cache_clear` takes none, so eviction (`EvictCount`, `EvictDelete`) may meet it halfway.
A time is written as local text of whole seconds (`Seconds`) and read back; `Summer` is how far
local time is ahead of standard time, for which `string_to_time` takes it.

**MetadataIndex.**  `indices` has the postings of each indexed field, `covered` (history) the
documents each index was told of: an index made late knows later documents only.  `Misspelt`
is a value whose number is another's.

**HybridSearch.**  `engine` has the documents of BM25Engine with its postings and counters, and
`engineFile` what `save` wrote; a content is a model value, `HowOften` its terms, `Reread` what
is read back of it, which is not always what was written, and `CutShort` what its line may
be when the file ends inside it.  A score is left to TLC's
values, its order being what the fusions use.  The tools keep `extractor`, what
KeywordExtractor counted in its corpus, and `synonyms`, the lists of QueryRewriter.

**HttpClient.**  A request's places are those between two accesses of shared
state: trying, counting, sorting, told to wait, backing off.  The limiter (`LimiterSpec`)
keeps ages instead of times and forgets those beyond the longest window.

**Chunking, RagEngine.**  A chunk is the range of the text it is taken from, so that "no
character is left out" can be said; a separator RAGEngine puts in has no place.  One
iteration of a loop is one action, and so "the loop ends" is a liveness property.

**Adapters.**  A row is where it comes from; a chunk the rows in it and its number.  Writing to
SQLite (`Create`, `Insert`, `Close`) is a step per row, may fail at each and be tried
again.  An XML document is a sequence of tags; the parser takes one at a time.

**RestApi, NativeAddon, Renderer.**  The database is taken at the interface the modules above
establish.  `RestApi` has of it what decides which documents there are: index and
metadata with their files.  The line of a document's metadata is written by the add,
everything else by `Stop`, the shutdown, and what a worker that dies (`Die`) has not synced is
gone, while `collections.json` names it; `SaveFails` is a `write_text` that raises after the
registry in memory has changed.  An endpoint is one step, as none awaits; in `Renderer` each
wait for an answer is a state of the call.  `NativeAddon` has three parts: databases, of which
a path of the shared `registry` and each wrapper's `db_` are references, and the last one to
go destroys the database; objects whose state is in maps by their address, which outlives
them; and objects that hold an index or an engine (`object`), beside which `promised` is what
their caller knows to be in them.

**Encoders, LlamaEngine.**  A token is a sequence of characters.  `Pieces` is the WordPiece
loop and is compared with what `decode` makes of the ids; an embedding is the set of
places its mean is taken over.  A step of `generate` (`Sample`) samples one piece, looks for the
stops and tells the callback.

## Runs

`tlc -config X.cfg M` in this directory; each finishes within five minutes on two cores.

Several runs hold more than one instance of a module, or of several modules, side by
side.  A variable `instance` is chosen initially and never changes; the next-state
relation is the disjunction of the instances', each guarded by its value of
`instance`, the others' variables keeping one value; and each property is the
conjunction of the instances' properties under the same guards.  Components of `MCStores`
that `Stores` does not have share twelve variables, `v1` to `v12`.  A behaviour is
therefore one of a single component, and what it shows is what a run of its own would
show.  The bounds of an instance stand with its `INSTANCE ... WITH` in the MC module.

| run | checks | bounds |
|---|---|---|
| VectorStore | `TypeOK`, `SlotsDistinct`, `NoGaps`, `SlotsReachable`, `DanglingOnlyWhenFull`, `ViewsAreStable`, `ImplementsMap` | 5 ids, 2 vectors, 1 slot at first, pages of 4, at most 8: three doublings, one of each kind (new pages, in place, over the limit) |
| Hnsw | `SmallIndexExact`, `LinksBounded`, `SearchAnswers`, `SearchExact`, `LoadKeepsVectors` | small: 4 ids, 4 nodes, 2 layers, M 2, efConstruction 2, efSearch 1 (lists of links overflow), capacity 1; exact: 3 ids, 3 nodes, 2 layers, M and ef 4, capacity 4, `set_ef_search`, any number of saves and loads |
| Database | `AddsAreAtomic`, `SyncedVectorsSurvive`, `MetadataKept` | kept: 3 ids, 2 documents of which one has the fields an append leaves out, 3 lines, 2 restarts, 1 updated id, deaths between operations, between the parts of a sync and inside an append; faulty: 2 ids, one process, every part fails at will; torn: 2 ids, 2 restarts, failing writes and deaths inside add, sync and the rewrite |
| DatabaseThreads | `TypeOK`, `WholeWhenUnlocked`, `RemovalsAddUp`, `CallsReturn`, `ImplementsDocuments` | 2 threads of 2 calls, 2 ids, 2 dates: each may add a document before a removal meets another, or an update |
| ThreadPool | `TypeOK`, `NothingLost`, `FunctionOutlives`, `TasksRun`, `CallsReturn`, `BlockersReturn` | 2 workers, a `parallel_for` with a nested one, a task that submits a task, the last chunk may throw |
| Intake | `TriesAddUp`, `ServedBounded`, `SecondIsBounded`, `IntakeAddsUp`, `NothingSkipped`, `IntakeEnds` | 2 threads of 2 requests and 2 tries; 2, 4 and 5 requests in 3, 8 and 10 ticks; texts of up to 4 characters (7 in RagEngine); 3 files, 1 restart; 2 overlapping calls of the renderer; up to 4 rows, tables, elements or tags a file; 3 rows and 1 restart of pgvector; batches of 2 |
| Stores | `PlacesAreLast`, `NoIdTwice`, `StoresHold`, `IndexesMirror`, `FrontsAgree`, `LastLinesKept`, `AnswersAreRight`, `StepsKeepTheirWord` | 3 ids in FlatIndex; 2 objects, files and addresses; 2 callers and 3 ticks in SqliteStore; 2 documents and 3 values, two of one number, in the filters; 2 results a search; dimensions to 35 and blocks of 4, 8 and 16; 3 centroids and up to 3 training vectors; 3 tokens generated into a context of 5; 2 collections and 4 ids of the API, where nothing more is asked after a deletion and a death or failed save together, of which nothing is stated; 3 documents of the addon; 2 threads that log 7 lines in files of 2 with 2 backups; 5 words, 3 texts, 2 corpora and 2 dictionaries of the search tools; 1 address with objects, and 1 object that holds up to 2 items; 3 spans; any 4 arguments, 4 runs and 2 shells of the command line |

Why the bounds are enough.  VectorStore's code has no number in it but the doubling,
and the proofs lift the bound.  Three ids on a line make every shape of neighbourhood a
search distinguishes with two layers; pruning needs a fourth.  VectorDatabase's hazards
need one id given out twice (2 ids), an older and a newer file (1 restart) and a third
process that reads what the second left (2 restarts).  Two threads suffice for a
removal to come between the lookup and the removals of another; what more threads could
do is covered by the proofs.  Two workers suffice for a worker blocked by another.  A
limit of 2 in 3 ticks under one of 4 in 8 and 5 in 10 makes each limit the one that
binds. Texts of four characters hold a chunk of two or three, its overlap and what is
left; dimension 35 is two blocks of 16 with a remainder of 3. Two documents under one
term suffice for a posting that must not lose the other, and two mapped files for one to
be given the address or the descriptor the other has given back.

What the passing runs show:

* **VectorStore.**  No sequence of adds, removals, growth and compaction makes `size()` of the
  id map name a slot in use; header, store and mapping agree at each boundary; between
  compactions the views `get` returned stay valid as long as the mapping is the same;
  and all of it is invisible to a caller: the store refines `VectorMap`.
* **Hnsw.**  Index, deleted flags and counter agree; pruning keeps the degrees and never
  isolates an indexed entry point; a search whose ef covers the index is exact in a graph
  no step has cut; a load brings every vector back, the last node of an id winning.
* **Database.**  The roll-backs leave index, store and metadata in agreement about the documents
  whose add succeeded; ids given out again never displace a synced vector; where no rewrite of
  the metadata file fails or is cut short, what a sync has covered comes back with every field,
  and of what was added since all but one add after a death inside an append is in the file,
  without the three fields; the order of lines is the order of events, across reused ids.
* **DatabaseThreads.**  Whoever gets the lock finds every document whole, and metadata without a
  document only where an update or a refused add has put it; two removals never
  count one document twice and a `remove_by_date` leaves none of those it found; every
  call returns unless `auto_sync` sends it for its own lock; the operations implement a
  dictionary that changes in single steps.
* **ThreadPool.**  No lost wakeup, no dropped task, a `wait_all` that returns exactly when
  everything queued has run, no chunk that outlives the function it refers to.
* **Intake.**  Tries add up across resets, and a request is served at most as often as it is tried;
  any second lets through its limit and one request for each sleep that fits into it;
  chunking loops end and skip nothing; a file's
  rows come once, in order and numbered; a readable file is added, once per process; a
  context keeps to its budget; Studio comes to show what the API has once its user asks.
* **Stores.**  FlatIndex's map names the last place of each id, whatever was loaded; a descriptor
  or a region is given back once, by the object that has it; the query cache answers
  nothing past its time and evicts only what has expired; filters, alone and joined by "and"
  and "or", pass exactly the documents that meet their conditions; the text index mirrors its
  documents, and the search tools count words as their corpus has them; a document preferred
  by both searches is preferred by each fusion; each element of a vector is taken once; a code names the
  nearest centroid; a text's ids are framed, the same in a batch, and read back as its
  words; what a callback was told is a part of the answer; a collection of the API tracks what a
  search answers for it and stays until it is deleted, unless a worker dies or a save of the
  registry fails, and tracks no other's documents even then, until one is deleted; the addon keeps what it has answered, of its databases and of the objects
  it keeps by address or that hold an index; answers of the API are the best of those that
  meet its filters; spans form trees; each argument of a command is taken once, in its
  place; a log rotates its oldest lines away only.

Deadlock is checked in `VectorStore`, whose callers can always go on.  The other systems
may stop: ids, nodes, calls and restarts are bounded, and a pool ends.

Fairness is stated where a liveness property needs it, and only of steps that something
in the code or the scheduler drives:

* ThreadPool: weak fairness of every worker, every call that was begun, every call a task
  makes and a `wait_all` that was notified.  A thread that can go on is scheduled and a
  mutex held for a bounded time is handed on.  Calls from outside, spurious wakeups and
  the destructor are not fair.
* DatabaseThreads: weak fairness of each thread's steps within a call; a call need not begin.
* HttpClient: strong fairness of a thread inside a request, because `stats_mutex` may be
  taken by others again and again; `std::mutex` promises no order but is handed on.
* Chunking and RagEngine: weak fairness of the loop.
* Ingest: weak fairness of the passes of `watch`, and strong fairness of `Add` for a
  readable file: it succeeds if it is tried again and again.
* Renderer: weak fairness of the poll, which a timer drives, and of answers to what is under
  way.  The user's clicks are not fair.

## What the code does not promise

Each row is a run that TLC finds violated; `PROJECT.json` `findings` has the line and the
sentence of the documentation it contradicts.

| run | property | what happens |
|---|---|---|
| VectorStoreReopened | `ImplementsDurableMap` | after a restart the store has no ids, and overwrites the file from slot 0 |
| HnswEntryRemoved | `RemovalHidesOne` | removing the entry point makes every search empty |
| DatabasePairing | `KeptPaired` | a removed vector comes back with the index file, its id is given out again, and after a crash it carries the new document's metadata |
| DatabaseAutoSync | `AddsAreAnswered` | with `auto_sync`, `add_text` locks the mutex it holds |
| ThreadPoolNested | `CallsReturn` | a nested `parallel_for` on every worker: nobody returns |

The models show more, which has no run of its own; it can be seen by changing a constant or
reading the action named.

Storage and database:

* The metadata line written after a torn one is lost with it (`src/storage/mmap_store.cpp:1014`).
* `docs/.DOCS/05_ARCHITECTURE.md:354` says that metadata is "immediately flushed after each write":
  updates and removals reach the file with the next sync only (`:916-920`, `:970`), and an added
  document's `dxy`, `vix` and `yield_10y` likewise, which `append_to_file` leaves out (`:1021-1035`);
  a process that dies before it loses them.  (`Abridged`, `Unread`.)
* An add that the metadata file refuses leaves its entry in memory, and the next sync writes it:
  metadata without a document (`:911-913`, `src/database.cpp:490-493`).  `update_metadata` ignores its
  `id` and makes an entry for whatever id its metadata has (`src/database.cpp:607-610`).
* MemoryMappedFile: an empty file opens with success and nothing mapped; a failed `ftruncate` in
  `resize` leaves `data_` pointing at what is unmapped, so that `close` may unmap what has been
  mapped there for another object; a failed `mmap` leaves the old `capacity_`, so that a smaller
  `resize` answers success with nothing mapped (`Resize`).
* MetadataIndex: `get_field_value` knows six fields, and an index on any other stays empty.
* A save of the index cut short loses vectors synced before (`src/index/hnsw.cpp:464`), a
  crash inside `sync` metadata synced before (`src/storage/mmap_store.cpp:980`), and on a
  full disk `sync` clears `dirty_` and answers success (`:1008`).
* VectorStore's `remove` changes ids and free slots before it finds the mapping gone and
  answers IoError (`:777`).
* An `ef_search` passed to one query stays for the later ones (`src/index/hnsw.cpp:438`).
* `Load` takes `element_count_` from the file but indexes removed nodes too (`:549`): they are found
  again, and removing them takes the count below zero.
* FlatIndex `load` of a file that ends early takes what it lacks from unset variables, among them
  the length of a vector: the process may end there (`:693`, `:709`).
* `auto_sync`, on by default, is obeyed only by `add_text` and `add_image`
  (`src/database.cpp:463`).
* SqliteStore: `cache_get` of an expired entry and `init`'s error paths lock the mutex they
  hold (`src/storage/sqlite_store.cpp:406`); nothing keeps the cache below
  `max_cache_entries` (`:341`).
* BM25Engine: a document that reads back without terms ends `load`, so that a saved engine does
  not load (`src/hybrid/bm25_engine.cpp:320`).
* ThreadPool: when an early chunk of a `parallel_for` throws, the call returns while others
  still use its function (`src/core/thread_pool.cpp:94`).
* Logger: two threads that both find it uninitialised both open the files; the second open
  fails the streams and lines are lost until a rotation (`include/vdb/logging.hpp:134`).  So does
  a program that calls `initialize` again.

Quantizers:

* `set_display_profile` after `train` changes the curve but not the codebooks; a failing
  `train` of the display-aware quantizer replaces `quantizer_` while `trained_` stays true;
  the saliency quantizer drops dimensions with fewer than 8 bits on encoding, so that
  decoding misaligns, its `remaining_bits` may wrap, and with the default budget it shifts
  by 32 bits and more.
* ScalarQuantizer trained again only widens its range; codes made before are read by the new
  one.

Intake:

* `requests_per_minute` is exceeded, though `docs/.DOCS/17_HTTP_ADAPTER.md:260` promises it: the
  limiter chooses one limit, sleeps once and does not look again.  A limit of a second that
  does not divide it lets through twice as many (3 a second: 6); beyond 1000 a second it
  sleeps not at all; `requests_per_second` 0 divides by zero.
* Ingest: an incremental watch adds everything again after a restart; with `auto_sync` the
  add throws after it has added, the file counts as failed and is added on every pass
  (`src/ingest/gold_standard_ingest.cpp:765`).
* `chunk_fixed` of RAGEngine does not end when its overlap reaches its size
  (`src/framework/rag_engine.cpp:97`), nor do the data adapters' windows.
* RAGEngine: a query longer than the budget makes `available_tokens` wrap (`:294`);
  `split_sentences` drops leading stops.
* Adapters: SQLite's first chunk with a metadata key "id", "title", "date", "source" or
  "content" makes CREATE fail (`src/adapters/sqlite_adapter.cpp:366`); a later chunk with a
  new key fails midway, and a retry stores the earlier rows twice (`:385`).  Parquet pairs
  metadata names and values from two unordered maps whose orders may differ
  (`src/adapters/parquet_adapter.cpp:281`) and shows one value per array chunk (`:115`).
  JSON numbers the pieces of each element anew.  PDF and Excel `parse_content` share one
  temporary file.  CSV does not read back newlines and doubled quotes it wrote.  XML loses
  CDATA and texts outside the first element, takes a declaration for the root, and does not
  turn entities back.
* PgvectorAdapter: an insert names `$1` and passes no parameter, a threshold puts `WHERE` after
  `LIMIT`, a vector that is NULL makes `stof` throw, a broken connection is never replaced and
  the destructor leaks it.
* AdapterManager: JSON with a comma in its first line goes to CSV and HTML content to XML; an
  extension in mixed case is detected and not handled; a URL never passes `auto_parse`; the
  time limit, the certificate check and the redirects of an HTTPConfig are not passed on, and
  headers are sent twice.

Encoders and language model:

* A failed second `init` of a ready encoder leaves the new configuration and tokenizer with
  the old session while `ready_` stays true; the mask takes id 0 for padding, which is
  wrong when `[PAD]` is not the vocabulary's first line; `max_seq_length` 0 wraps; `decode`
  glues a continuation after a skipped `[UNK]` to the word before it.
* LlamaEngine: the context is never cleared between calls, so later calls continue the old
  conversation, and once `n_ctx` is full every call answers "" until the next `load`; pieces
  of a stop are told to the callback before the stop is cut from the answer, and the text
  before the stop in its last piece is not; the llama2 template keeps only the first system
  message, the mistral one opens `[INST]` twice with one.

Programs in front:

* With several workers of the REST API, each has a database and a registry of its own, and each
  save of the registry overwrites the others' (`Workers` with two members).  The default is four
  (`api/main.py:84`); all that is stated here is of one.
* After a worker of the API has died, the registry names documents the database has lost, whose
  ids it may have indexed nowhere, and documents deleted since the last shutdown are found again
  (`Die`).  A failed save leaves in memory a collection whose creation was answered with an error, so
  that a second attempt is told that it exists, and a document that is there although its add was
  answered with an error (`SaveFails`, `api/main.py:301`, `:330`).  With a deletion besides, ids are
  given out again, and deleting a collection left over removes another's documents.
* Addon: `updateDocument` writes id 0; `BM25Engine.load` loads an engine, drops it and returns an
  empty object of whatever class was registered last, since two files use the one slot of
  `SetInstanceData` (`studio/hektor-app/native-addon/src/hybrid.cpp:26`, `database.cpp:116`);
  `KeywordExtractor.load` returns a success flag only; encoders, tokenizers, sessions and
  PgVectorStore keep state in maps by address that are never erased, so a new object may
  inherit an old one's; `addBatch` with a bad item keeps the earlier records, whose ids nobody
  learns.
* Telemetry: a metrics object made before `initialize` counts nothing, ever.
* Command line: a flag before a path takes the path for its value; `init` empties a directory that
  exists; `add` answers success for one that does not; the shell's first command reads
  `history_.back()` of an empty history.
* Renderer: `Disconnect` with a refresh under way fills collections and statistics again; a list
  that arrives after a delete selects the deleted collection again; the poll overwrites the
  address being typed every five seconds; results of a search stay when another collection is
  selected.

## Proofs

Eight modules hold theorems, for every value of the constants their `ASSUME`s allow.  Each
follows one plan: an inductive invariant, one lemma per action, a temporal step that puts them
together, and the properties as consequences.  `Recursions` has the lemmas about what is defined
by recursion: over the numbers, or over the subsets of a finite set, a function defined by its
value at a smaller argument satisfies its definition, shown by a least counterexample
(`Greatest`, well-foundedness of the subsets), as no rule of induction can be cited.

**VectorStoreProofs** (`ConstantsAssumption`: finitely many ids; any capacities, page sizes and
limits).  `TypeCorrect`, `NeverShared` (`SlotsDistinct`), `Gapless` (`NoGaps`), `AlwaysReachable`
(`SlotsReachable`), `DanglesWhenFull`, `ViewsStay` (`ViewsAreStable`), and `Refinement`:
`Spec => ImplementsMap`.  None is
inductive alone.  That a fresh slot is free needs `NoGaps`; that `NoGaps` survives `compact`
needs what holds inside its loop, where vacated slots are already filled; that the slot a
dangling store takes is never written needs `DanglingOnlyWhenFull`.  The invariant is
`IInv == TypeOK /\ SlotInv`, and `SlotInv` replaces counting by order: `DownwardClosed(S)` says
that S is an initial segment of the slots.  `Filled` is that for used and vacated slots
outside the loop, `CompactLoop` for those still to visit and the used ones inside it: each
iteration takes away the highest, whether a vector moved or not.  `InitialSegment` and
`CountProperty` turn this back into cardinalities.  The refinement adds `Stored` (a used slot
never reads as blank).

**VectorDatabaseProofs** (any number of ids, lines, restarts and updates).  `TypeCorrect` and
`Atomicity` (`AddsAreAtomic`) with all faults; `Survival` (`SyncedVectorsSurvive`) under `~SaveFaults`,
that is, where the index file is written whole; `MetadataSurvival`, and `KeptSurvival` for the run's
`MetadataKept`, under `RewritesWhole`: no rewrite of the metadata file and no save of the index fails
or is cut short, while processes may die between any two parts and inside an append, and the
vector store fail at will.  The survival of vectors needs `Covered`: what a completed sync has
covered is in the index file and, while a process is up, in the index together with what it
added since; `SyncedVectorsSurvive` alone does not say what is in the file, and a process that
dies has nothing else.  That of metadata needs `Kept`: what a sync has covered is what the file's
lines, read from the last to the first, say of it; what was acknowledged is in the map; a line
without a newline is nobody's (`LastIsNobodys`), so that the line that will be lost with it is that
of a later add; at most one acknowledged add is unread, and only after such a line has been
joined; and where nothing is dirty the file says what the map says (`Flushed`).  An updated id is
exempt until it is added anew, as its entry is written with the next sync.  `Loads` shows that
`load` finds a document in every line it takes, for which the last of a non-empty set of lines
must exist (`Greatest`).

**DatabaseThreadsProofs** (finitely many threads and ids; with and without faults and
`auto_sync`).  `TypeCorrect`, `Wholeness` (`WholeWhenUnlocked`), `NoneCountedTwice`
(`RemovalsAddUp`), `Refinement` (`ImplementsDocuments`).  `LockInv` ties the lock to the places of
threads; `PartInv(t)` says what a call under way has done to the three parts; `WholeInv` that
every document is whole but the one under way, and that other metadata is `late` or `failed`
(`Wholeness` says the same while nobody has the lock; it does not say that there is none); `FoundInv` that what a `remove_by_date` found and
has not come to is still on its list; `DrawInv` that ids suffice for all adds begun.

**ThreadPoolProofs** (any workers, calls, nesting and exceptions).  `TypeCorrect`, `Quiet`
(`NothingLost`), and `Outlives` (`FunctionOutlives`): a `parallel_for` that has returned leaves no
chunk behind, unless the pool refused one of its chunks or one before the last threw.
`Placed(t)` says where a queued task can be, and `active` is the number of `Busy` workers: a task
in neither place is impossible because a worker takes it and counts itself in one critical
section.

**HttpClientProofs** (any threads, retries and requests; any limits and windows with at most
one request a tick).  `TypeCorrect`, `CountersAddUp` (`TriesAddUp`), `Bounded` (`ServedBounded`): `Unsorted`,
the threads between their two visits to the mutex, is finite because each action adds or takes
away one.  `SecondBounded` (`SecondIsBounded`) is about the limiter, which never looks again
after it has slept.  The invariant bounds the requests of the last `a` ticks for every `a`
(`Most(a)`), not for the second only, because a tick makes the bound for `a` that for `a + 1`; and
of a request that sleeps it says (`SleeperInv`) that the time it has slept saw no other
request, as it has the mutex, which makes room for its own.

**HnswIndexProofs** (any nodes, layers, links and positions).  `LinksStayFew` (`LinksBounded`),
`LoadsKeepVectors` (`LoadKeepsVectors`), `IndexStaysExact`, and for the run's own specification
`SmallExact` (`SmallIndexExact`); `SearchesAnswer` (`SearchAnswers`) and `SearchesStayExact`
(`SearchExact`).  `Sound` says of nodes and index, in memory and in the file, that lists are within
their layer's bound and that an id that is indexed is indexed by its last node.  The latter is
what makes `load` right, which sees no deleted flags and takes each id's last node; it is also why
loading removed ids back cannot displace a live one.  That a search answers needs no more of the
graph than that its start is indexed: `Explore` never gives up what it has for nothing.  That it is
exact needs `WholeInv`: while no step has cut the graph (`intact`) and the configuration covers the
ids, the live nodes of layer 0 are all linked with each other and the entry point is one of them;
then one expansion has seen everything, and the k closest of what was seen are the k closest of
all.  An index that was cut, for instance by the removal of its entry point, is outside the
theorem; `HnswEntryRemoved` shows what it does.

**StoresProofs** (`StoresAssumption`, `NoneAssumption`, `EngineAssumption`, `ToolsAssumption`,
`LogAssumption`, `FrontsAssumption`: any objects, files, addresses, callers, keys, documents, fields,
values, texts, terms, sizes, backups, collections and payloads).  `StoresStay`, `EngineMirrors`,
`RotationKeeps` and `FrontsStay` are the run's `StoresHold`, `IndexesMirror`, `LastLinesKept` and
`FrontsAgree` for `StoresSpec`, which leaves the component a behaviour is of to `instance`; they have
a part for each.

* FlatIndex.  `LastPlaces` (`PlacesAreLast`), `Unique` (`NoIdTwice`), and `Restores`: a load of a whole
  file brings back what was saved.  The invariant is the two properties and the shapes of index
  and file, for files cut short have none of their own.
* MemoryMappedFile.  What is wanted is that a descriptor or a region belongs to one object.
  Each file is open in one object (`OpenOnce`) whose descriptor is of its path (`OpenRight`), so
  that two objects never have one descriptor; every region has an object that points at it
  (`RegionsPointedAt`) and is no longer than its file.  This much (`FileInv`) holds whichever call
  fails.  After a failed `ftruncate` an object points at nothing or at another's region, so
  that `OwnRegions`, `OneObject` and `WritesAreHeld` are only for `Mapping`, where `ftruncate` and
  `msync` do not fail.  A step of `Mapping` is one of `Faulty` (`FewerFaults`), which carries
  `FileInv` over.
* SqliteStore.  `SqliteInv` adds to the properties that each entry of the cache is stamped with
  its own moment (`Stamped`), that what a caller read of a document before it writes is a
  second the document was made in (`ReadRight`), and that the moment an eviction compares with
  is not later than the time to live before now (`CutRight`): other callers act between its two
  statements.  `Evictions` follows from it.
* MetadataIndex.  `FilterInv` says of each index, and of each in the file, that it is right about
  every document it was told of: the postings of a value are the documents with it, those of
  a number only documents whose value reads as it, and all of them but for those that share
  their number with another spelling, which a load may drop.  `FiltersExact` says this of the
  answers to two conditions, which say nothing of the file.
* HybridSearch.  `Mirror(e)` compares an engine with its documents: under each term one posting for
  each document with it (`EachOnce`), and the totals the sizes of sets of words.  Adding and
  dropping a document keep it (`WithMirrors`, `WithoutMirrors`), and a load, which adds documents one
  by one, keeps it by `SubsetRecursion`.  `TextsComeBack` is its action property.  `ToolsInv` counts
  words over the texts of a corpus, which each training replaces or adds to.
* Logger.  `Lies` says of each file which stretch of the lines written it holds: there are cuts
  (`Cut`) such that each backup ends where the newer one begins, and as many files are full as
  there were rotations without a lost line.  `RotationKeeps` joins the stretches.
* Telemetry.  `SpanInv` and `MetricInv`: parents are older than children, a span is ended by the one
  object that owns it, and an insertion is counted if the meter was there from the start.
* RestApi.  `CleanInv`, while no worker died and no save failed: the file is the worker's registry,
  and it fits (`OwnOnly`, `OwnAll`) the documents in memory, or those in the files when no worker is
  up, which the shutdown has written.  `KeptInv`, while nothing was deleted: the metadata in the
  file is all there ever was, under ids without a gap, so that the number of its entries, from
  which `init` takes the next id, is the last of them; a registry, old or new, names only ids
  with that collection's metadata.  Neither holds after the other's exception.
* NativeAddon.  `AddonInv`: of one path one database is alive, and file and memory have what was
  added; `ObjectsInv`: what is kept at an address is what the object there was told; `HeldInv`: an
  object holds (`Holds`) exactly what was promised, within what its capacity lets in.

Only model-checked:

* liveness and fairness everywhere, and what speaks of `ENABLED`, which are out of the prover's
  reach;
* `IntakeAddsUp`, `NothingSkipped` and `AnswersAreRight`, conjunctions over components of which some
  (`ApiRequests`, `Encoders`, `RagEngine`) are written with recursive operators, about which nothing can
  be proved here;
* of `StepsKeepTheirWord` the parts of Logger (`LogHeals`) and of the quantizer (`DistortionFalls`).

## Abstractions and what is not modelled

* VectorStore: Windows branches, header validation, moves.  The callers' lock is assumed:
  `compact` and `sync` take none of their own.
* HnswIndex: distances are never equal in the instances (the ids lie on a Golomb ruler), so
  the unspecified order of equal distances does not show; links to removed ids are all
  infinitely far, and the model breaks that tie by id.  `add_batch` is a loop over `add`.
  `allow_replace` is off, as everywhere in the repository.
* VectorDatabase: `max_elements` is never reached; `config.json` is written and never read.
  `update_metadata` is called for ids the database gives out, with any document.  Which nodes a cut
  index file yields is left open, and what `load` makes of fields it could not read, which are
  uninitialised, is left out.  In DatabaseThreads a document is its date and a search
  finds every indexed id.
* ThreadPool: `parallel_for` makes one chunk per worker (a small `count` makes fewer).
* MemoryMappedFile: a file is open in one object of a process at a time, as each VectorStore has
  its own; nobody else changes it.
* SqliteStore: `StoresHold` is of a clock that stays in standard time; in summer time entries
  expire as much later as the clock is ahead (`Summer`).
* Quantizers: numbers are whole; a curve is any strictly rising function between black and its
  top, which is all that its properties use.
* HybridSearch: the letters of a word, and so `tokenize` and the stemmer, are left out; a cut file
  ends after a document or inside one.
* Logger: an initialization that changes the paths or the limits is left out.
* RestApi: `auto_sync` is off, which is on by default and with which `add_text` locks itself
  (`DatabaseAutoSync`); the sync of a shutdown succeeds; the store is left out, as what a search
  answers is in the index and the metadata.  All properties are for one worker.
* Scores are whole numbers; rounding, of sums as of means, is left out everywhere.
* SQLite, curl, Arrow, ONNX Runtime, llama.cpp, Node and V8 are external: an operation of theirs
  succeeds, fails, or yields what the code's use of it allows.

Not modelled, by component: the readers of PDF, Excel, text and Markdown, tokenisation and
stemming of BM25, image preprocessing and pooling (conversion and arithmetic without state);
exporters and attributes of telemetry; framework adapters and Python bindings (arguments
passed on to the library); the addon's wrappers that only convert; panels and themes of the
renderer, `src/src/App.tsx` (a marketing page); replication, batch and unified store
(declarations without code).  Much of the repository is parsing, user interface, bindings and
scripts.

## Plan

Done: the storage core, the indexes, the database across processes and threads, the pool, the
libraries beside the database, the ways documents come in, the programs in front; proofs about
all of them but the ways documents come in, of which the HTTP client is proved, and the
algorithms on vectors and texts.  Left, in order:

1. `Renderer`'s `ResultsAreAsked` and `Chunking`'s `NothingSkipped`, in a module like `Stores` that
   leaves out the components written with recursive operators.
2. RestApi with several workers: what of the registry survives when they overwrite each other.
3. Readers of text formats, and the addon's wrappers that keep state besides.
