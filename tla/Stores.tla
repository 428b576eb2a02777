-------------------------------- MODULE Stores --------------------------------
(***************************************************************************)
(* The stores and indexes beside the database's own: a FlatIndex, a        *)
(* MemoryMappedFile, once where files may not open or not be mapped and    *)
(* once where every call may fail, a SqliteStore whose clock stays in      *)
(* standard time, a MetadataIndex, the text search and its fusion; the     *)
(* Logger they all write to, and Telemetry; and what keeps state in front  *)
(* of a database: a worker of the REST API and Studio's native addon,      *)
(* which opens a path anew when no database has it open.                   *)
(* They share nothing; instance says which of them a behaviour is of.      *)
(***************************************************************************)
EXTENDS FlatIndex, FiniteSets

CONSTANTS Objects, Paths, Addresses, Lengths,              \* MemoryMappedFile
          Callers, Keys, Settings, Ttl, Second, MaxTime,   \* SqliteStore
          FilterIds, Fields, NumericFields, Values, Number,      \* MetadataIndex
          TextIds, Texts, Terms, HowOften, Reread, CutShort,  \* HybridSearch: the engine
          Vocabulary, Lower, Stem, Skipped, Sentences, Corpora, Dictionaries, max_expansions,  \* its tools
          Documents, VectorScores, LexicalScores, MaxResults, RrfK,   \* and the fusion
          VectorWeight, LexicalWeight,
          MaxFileSize, MaxBackups, MaxLines,               \* Logger
          MaxSpans, MaxTold,                               \* Telemetry
          Collections, MaxDocument,                        \* RestApi
          Wrappers, Readers, MaxOpen, MaxId,               \* NativeAddon: databases
          Spots, Lexicon, Untaken, Sizes, MaxCreated, MaxRecords,  \* objects by their address
          Handles, Items, Payloads, Termless, Rooms, MaxBelow     \* and those that hold an index

\* None is none of the things it stands beside.
ASSUME NoneAssumption ==
    /\ None \notin Int /\ None \notin Paths \cup Callers \cup Settings \cup Values
    /\ None \notin [path : Paths, length : Nat, writable : BOOLEAN]
    /\ None \notin [value : Int, timestamp : Int]
    /\ None \notin [key : Keys, created_at : Int]
    /\ None \notin [Fields -> Values \cup {None}]
    /\ None \notin [postings : [Values -> SUBSET FilterIds],
                     numeric : [{Number[v] : v \in Values} \ {None} -> SUBSET FilterIds]]

ASSUME StoresAssumption ==
    /\ Addresses \subseteq Nat /\ Lengths \subseteq Nat
    /\ Ttl \in Nat /\ Second \in Nat \ {0} /\ MaxTime \in Nat
    /\ NumericFields \subseteq Fields /\ Number \in [Values -> Int \cup {None}]

\* A content is split into finitely many words, whether it is new, read from a file or
\* from one that ends inside it.
ASSUME EngineAssumption ==
    /\ IsFiniteSet(TextIds) /\ IsFiniteSet(Terms) /\ None \notin Texts
    /\ HowOften \in [Texts -> [Terms -> Nat]] /\ Reread \in [Texts -> Texts]
    /\ CutShort \in [Texts -> SUBSET Texts]

\* Texts are sequences of words, which lower case and stem are too.
ASSUME ToolsAssumption ==
    /\ Lower \in [Vocabulary -> Vocabulary] /\ Stem \in [Vocabulary -> Vocabulary]
    /\ Sentences \subseteq Seq(Vocabulary) /\ Corpora \subseteq Seq(Sentences)
    /\ Dictionaries \subseteq Seq(Seq(Vocabulary)) /\ max_expansions \in Nat

ASSUME LogAssumption == MaxFileSize \in Nat /\ MaxBackups \in Nat

\* The ids a database gives out, and None beside them.
ASSUME FrontsAssumption ==
    /\ MaxDocument \in Nat /\ MaxOpen \in Nat /\ MaxId \in Nat
    /\ None \notin Collections
    /\ \A tracked \in SUBSET (1 .. MaxDocument) : tracked # None
    /\ \A registered \in [Collections -> (SUBSET (1 .. MaxDocument)) \cup {None}] : registered # None

VARIABLES
    instance,
    mapped, regions, fds, lengths, dirty,                                     \* MemoryMappedFile
    now, opened, mutex, pc, cache, sqlDocuments, settings, cutoff, held, answer, born,   \* SqliteStore
    indices, indexFile, metadata, covered, loaded,                            \* MetadataIndex
    engine, engineFile,                                                       \* HybridSearch: the engine
    extractor, keyword_file, synonyms,                                        \* its tools
    vector_results, lexical_results, fusion, combined,                        \* and the fusion
    initialized, where, stream, files, logged, lost,                          \* Logger
    otel, manager, provider, meter, objects, spans, inserted, counted,        \* Telemetry
    up, registry, registryFile, apiIndexed, nodes, documents, next_id,        \* RestApi
    savedNodes, savedDocuments, answered, apiClean, apiDeleted,
    state, entries, addonNext, metadataFile, databases, db_, used, kept,      \* NativeAddon
    alive, encoders, tokenizers, stores, told, created, call,                 \* and objects of its own
    object, onDisk, promised                                                  \* that hold an index or engine

Mapping == INSTANCE MemoryMappedFile WITH
    Faults <- {"open", "map"}, objects <- mapped, files <- lengths
Faulty == INSTANCE MemoryMappedFile WITH
    Faults <- {"open", "map", "sync", "truncate"}, objects <- mapped, files <- lengths

Sqlite == INSTANCE SqliteStore WITH
    Summer <- 0, Faults <- TRUE, initialized <- opened, documents <- sqlDocuments

Filters == INSTANCE MetadataIndex WITH Ids <- FilterIds, file <- indexFile

Hybrid == INSTANCE HybridSearch WITH Ids <- TextIds, Contents <- Texts, Words <- HowOften, Cut <- CutShort,
    file <- engineFile

Log == INSTANCE Logger WITH Threads <- Callers, MaxSize <- MaxFileSize, pc <- where

Traces == INSTANCE Telemetry WITH told <- inserted

Api == INSTANCE RestApi WITH Workers <- {1}, MaxId <- MaxDocument, file <- registryFile,
    indexed <- apiIndexed, clean <- apiClean, deleted <- apiDeleted

Addon == INSTANCE NativeAddon WITH
    Exclusive <- TRUE, file <- metadataFile, next_id <- addonNext, registry <- databases,
    Addresses <- Spots, Words <- Lexicon, NotAVector <- Untaken, Dimensions <- Sizes, Users <- Readers,
    Contents <- Payloads, Empty <- Termless

mapVars == <<mapped, regions, fds, lengths, dirty>>
sqlVars == <<now, opened, mutex, pc, cache, sqlDocuments, settings, cutoff, held, answer, born>>
filterVars == <<indices, indexFile, metadata, covered, loaded>>
bm25Vars == <<engine, engineFile>>
toolVars == <<extractor, keyword_file, synonyms>>
logVars == <<initialized, where, stream, files, logged, lost>>

\* A behaviour of the store that instance names.
StoresSpec == /\ [][FALSE]_instance
              /\ instance = "mapping" => Mapping!Spec
              /\ instance = "faulty" => Faulty!Spec
              /\ instance = "sqlite" => Sqlite!Spec
              /\ instance = "filters" => Filters!Spec
              /\ instance = "bm25" => Hybrid!EngineSpec
              /\ instance = "tools" => Hybrid!ToolsSpec
              /\ instance = "log" => Log!Spec
              /\ instance = "spans" => Traces!Init /\ [][Traces!SpanNext]_(Traces!vars)
              /\ instance = "metrics" => Traces!Init /\ [][Traces!MetricNext]_(Traces!vars)
              /\ instance = "api" => Api!Spec
              /\ instance = "addon" => Addon!Spec
              /\ instance = "objects" => Addon!ObjectsSpec
              /\ instance = "held" => Addon!HeldSpec

------------------------------------------------------------------------------
\* MemoryMappedFile: descriptors and regions are given back once, and writes are
\* never out of reach.  SqliteStore: what the cache answers is within its time, and
\* a document keeps the time it was made.  MetadataIndex: filters pass exactly the
\* documents that meet their conditions.
StoresHold ==
    /\ instance = "mapping" => /\ Mapping!DescriptorsAreHeld /\ Mapping!RegionsAreHeld
                               /\ Mapping!RegionsAreInFiles /\ Mapping!WritesAreHeld
    /\ instance = "faulty" => Faulty!DescriptorsAreHeld /\ Faulty!RegionsAreInFiles
    /\ instance = "sqlite" => Sqlite!TypeOK /\ Sqlite!AnswersAreFresh /\ Sqlite!CreationIsKept
    /\ instance = "filters" => Filters!TypeOK /\ Filters!FiltersExact

\* HybridSearch: postings and counters are those of the documents, document
\* frequencies those of a corpus, and a rewritten query keeps its words.
IndexesMirror == /\ instance = "bm25" => Hybrid!IndexMirrors
                 /\ instance = "tools" => Hybrid!WordsAreWeighed /\ Hybrid!RewritingFindsMore

\* Logger: rotation gives up the oldest lines only.
LastLinesKept == instance = "log" => Log!LastLinesKept

\* RestApi: registry and documents agree and what was answered stays, until a
\* worker dies or a save fails; no collection tracks another's documents, until one
\* is deleted.
\* NativeAddon: what was answered as added is kept, ids are read back as their
\* words, a store has what its caller put there, and what it finds is nearest; an
\* index or engine has what it was told.
\* Telemetry: spans form trees, each open one has one owner, and an insertion is
\* counted if any is.
FrontsAgree == /\ instance = "api" => /\ Api!TracksItsOwn /\ Api!TracksNoOthers
                                       /\ Api!AnsweredIsKept
               /\ instance = "addon" => Addon!AddedIsKept
               /\ instance = "objects" => /\ Addon!ObjectsTypeOK /\ Addon!TokensReadBack
                                          /\ Addon!StoreHoldsTold /\ Addon!SearchIsNearest
               /\ instance = "held" => Addon!HeldAsPromised
               /\ instance = "spans" => Traces!TracesAreTrees /\ Traces!OneOwner
               /\ instance = "metrics" => Traces!CountedAllOrNothing
===============================================================================
