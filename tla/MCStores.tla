------------------------------- MODULE MCStores -------------------------------
(***************************************************************************)
(* Instances for TLC of the stores and indexes beside the database's, of   *)
(* the search made of them, and of the programs in front of a database, in *)
(* one run: FlatIndex, MemoryMappedFile, SqliteStore, MetadataIndex,       *)
(* HybridSearch, VectorOps, the quantizers, Encoders, LlamaEngine,         *)
(* RestApi, ApiRequests, NativeAddon, Telemetry, CommandLine and Logger.   *)
(* A behaviour is one of the component it starts in, or of its part where  *)
(* the module has several; the variables of the others keep one value.     *)
(***************************************************************************)
EXTENDS Stores, TLC

CONSTANTS c1, c2,    \* threads
          k, a, b    \* a key; collections

\* Each of the modules that Stores does not instantiate has its state in as many of
\* these as it needs: a behaviour is of one of them, and the rest are None.
VARIABLES v1, v2, v3, v4, v5, v6, v7, v8, v9, v10, v11, v12

\* A term once and twice, two terms, one whose backslash does not survive a
\* save, and a content without terms.
Counts(fox, cat, nb) == ("fox" :> fox) @@ ("cat" :> cat) @@ ("nb" :> nb)
MCWords == ("fox" :> Counts(1, 0, 0)) @@ ("foxfoxcat" :> Counts(2, 1, 0)) @@ ("cat" :> Counts(0, 1, 0))
           @@ ("slash" :> Counts(0, 0, 1)) @@ ("newline" :> Counts(0, 0, 0))
MCReread == [c \in DOMAIN MCWords |-> IF c = "slash" THEN "newline" ELSE c]
MCCutShort == [c \in DOMAIN MCWords |-> IF c = "foxfoxcat" THEN {"fox", "newline"} ELSE {"newline"}]

\* A word in capitals, one with a stem, and one that is passed over; a dictionary with
\* a line of one word, and with two lines of one word.
MCWordForms == {"Cats", "cats", "cat", "the", "gold"}
MCLower == [w \in MCWordForms |-> IF w = "Cats" THEN "cats" ELSE w]
MCStem == [w \in MCWordForms |-> IF w = "cats" THEN "cat" ELSE w]
MCSpoken == {<<>>, <<"Cats", "the">>, <<"cat", "gold", "Cats">>}
MCCorpora == {<<<<"Cats", "the">>>>, <<<<"cat", "gold", "Cats">>, <<"Cats", "the">>>>}
MCDictionaries == {<<<<"gold", "Cats", "the">>, <<"cat">>>>, <<<<"Cats", "gold">>, <<"cats", "cat", "gold", "Cats">>>>}

\* A distance above 1 makes a negative score.
MCVectorScores == -1 .. 2

\* A number with two spellings and a value that is no number.
MCNumber == ("7" :> 7) @@ ("7.0" :> 7) @@ ("gold" :> None)

Ops == INSTANCE VectorOps WITH Elements <- {-1, 0, 2}, Dims <- {1, 2}, MaxVectors <- 2, Furthest <- 1000,
                               Widths <- {4, 8, 16}, MaxDim <- 35,
                               query <- v1, vectors <- v2, k <- v3, metric <- v4, found <- v5,
                               n <- v1, width <- v2, kind <- v3, i <- v4, lanes <- v5, result <- v6, phase <- v7

\* Numbers below black, between, and above the top of either curve; two displays
\* of one curve.
Adaptive == INSTANCE AdaptiveQuantizer WITH
    Numbers <- {-1, 1, 3, 20000}, Peak <- 20000, Profiles <- {"SDR_BT709", "HDR1000", "DolbyVision"},
    Rooms <- {"DarkRoom", "Office"}, MaxTrainings <- 2, Budget <- 24, Importances <- 0 .. 2, MaxDimension <- 3,
    env <- v1, display <- v2, lux <- v3, precision <- v4, curve <- v5, trained <- v6, quantizer <- v7,
    trainings <- v8, learnt <- v9, code <- v10, answer <- v11, salient <- v12

\* Four numbers in the first part of a vector and two in the second; of three
\* centroids some are never nearest.
Quantizing == INSTANCE Quantizers WITH
    Subs <- 2, K <- 3, Values <- <<{12, 24, 36, 60}, {12, 36}>>, MaxData <- 3, Iterations <- 2,
    Numbers <- {1, 2, 4, 7, 8}, Levels <- 5,
    data <- v1, sub <- v2, centroids <- v3, iter <- v4, codebooks <- v5, trained <- v6,
    least <- v1, greatest <- v2, ranged <- v3, rangeTrained <- v4, seen <- v5

\* Documents dated by a number, by a string that reads as it, by one that does
\* not, and by a list of none; the last is another collection's and says it is
\* this one's.
Numeral(x) == [kind |-> "num", reads |-> x]
String(x) == [kind |-> "str", reads |-> x]
Absent == [kind |-> "none", reads |-> 0]
Doc(date, type, said, own) ==
    [given |-> ("date" :> date) @@ ("type" :> type) @@ ("collection" :> said), collection |-> Numeral(own)]
MCKept == {Doc(Numeral(7), Absent, Absent, 1), Doc(String(7), Absent, Absent, 1), Doc(String(99), Absent, Absent, 1),
           Doc(Absent, Numeral(9), Absent, 1), Doc(Numeral(7), Absent, Numeral(1), 2)}
Requests == INSTANCE ApiRequests WITH
    Fields <- {"date", "type", "collection"}, Scalars <- {Numeral(7), Numeral(9), String(7), String(99)},
    Kept <- MCKept, MaxFound <- 3, Ks <- {2}, Plain <- 1, Filtered <- 2,
    found <- v1, k <- v2, filters <- v3, answer <- v4,
    Clients <- {c1, c2}, Expire <- 2, MaxTime <- 3, MaxCount <- 3,
    settings <- v1, up <- v2, active_connections <- v3, request_count <- v4, now <- v5, requests <- v6, token <- v7

\* Any four arguments, and what is done to a database in four runs.
MCLines == UNION {[1 .. length -> {"-v", "-f", "-k", "-", "add", "db", "--text", ""}] : length \in 0 .. 4}
MCRuns == {<<"init", "db">>, <<"init", "db", "--dimension", "db">>, <<"add", "db", "--text", "x">>,
           <<"add", "no", "--text", "x">>, <<"add", "--force", "db", "--text", "x">>, <<"info", "db">>,
           <<"get", "db">>, <<"s", "db", "x", "-k", "7">>, <<"hs", "no", "x">>, <<"ls", "db">>, <<"help">>, <<"info">>,
           <<"bogus">>}
OneRun == INSTANCE CommandLine WITH
    Lines <- MCLines, Paths <- {"db", "", "-", "add"}, MaxRuns <- 1,
    Terminals <- {}, Entries <- {}, Databases <- {}, MaxHistory <- 0, MaxLines <- 0,
    argv <- v1, i <- v2, phase <- v3, status <- v4, global <- v5, command <- v6, args <- v7, options <- v8,
    disk <- v9, shown <- v10, runs <- v11,
    file <- v1, running <- v2, history <- v3, history_index <- v4, db_path <- v5, given <- v6
ManyRuns == INSTANCE CommandLine WITH
    Lines <- MCRuns, Paths <- {"db", "no"}, MaxRuns <- 4,
    Terminals <- {1, 2}, Entries <- {<<"info">>}, Databases <- {a}, MaxHistory <- 2, MaxLines <- 4,
    argv <- v1, i <- v2, phase <- v3, status <- v4, global <- v5, command <- v6, args <- v7, options <- v8,
    disk <- v9, shown <- v10, runs <- v11,
    file <- v1, running <- v2, history <- v3, history_index <- v4, db_path <- v5, given <- v6

\* A vocabulary, one whose marks are further down and with a blank line, one
\* without [SEP], and none.
MCVocabulary == <<<<"[PAD]">>, <<"[UNK]">>, <<"[CLS]">>, <<"[SEP]">>, <<"a">>, <<".">>, <<"a", "b">>,
                  <<"##", "b">>, <<"##", "a", "b">>>>
MCVocabularies == {MCVocabulary, <<<<>>, <<"b">>>> \o MCVocabulary \o <<<<"a">>>>,
                   SubSeq(MCVocabulary, 1, 3), <<"none">>}
MCSentences == UNION {[1 .. length -> {"a", "b", " ", "."}] : length \in 0 .. 2}
               \cup UNION {[1 .. length -> {"a", "b"}] : length \in 3 .. 4}
               \cup {<<"a", " ", "b">>, <<"b", ".", "a">>, <<" ", ".", "a">>}
               \cup {<<"a", " ", "a", "b", " ", "b", ".">>, <<"a", "b", "a", "b", "b", "b">>}
Models == INSTANCE Encoders WITH
    Configs <- [model : {"missing", "corrupt", "mini"}, vocab : MCVocabularies], NoFile <- <<"none">>,
    Texts <- MCSentences, Batches <- {<<>>} \cup [1 .. 2 -> {<<>>, <<"a">>, <<"b", " ", "a">>}],
    Images <- {"chart", "broken"}, Unreadable <- {"broken"}, max_seq_length <- 5,
    config_ <- v1, tokenizer_ <- v2, session_ <- v3, ready_ <- v4, clean <- v5, image_config <- v6,
    preprocessor_ <- v7, image_session <- v8, image_ready <- v9, call <- v10

\* Stops within a piece, across pieces, and the one the other's end.
MCParams == [max_tokens : {3}, on_token : {TRUE},
             stop_sequences : {<<>>, <<<<"b", "b">>, <<"a">>>>, <<<<"b", "a">>>>}]
            \cup [max_tokens : {2}, on_token : {FALSE}, stop_sequences : {<<>>}]
Llama == INSTANCE LlamaEngine WITH
    Tokens <- {<<"a">>, <<"b">>, <<"a", "b">>, <<>>}, EOG <- <<"end">>, BOS <- <<"begin">>, n_ctx <- 5,
    Prompts <- {<<>>}, Params <- MCParams, Templates <- {"llama2", "chatml"},
    Messages <- {<<"user", "system", "assistant">>},
    loaded <- v1, context <- v2, pc <- v3, asked <- v4, params <- v5, begun <- v6, result <- v7,
    n_generated <- v8, told <- v9, sampled <- v10, ended <- v11

hybridVars == <<vector_results, lexical_results, fusion, combined>>
addonVars == <<state, entries, addonNext, metadataFile, databases, db_, used, kept>>
apiVars == <<up, registry, registryFile, apiIndexed, nodes, documents, next_id, savedNodes, savedDocuments, answered,
             apiClean, apiDeleted>>
objectVars == <<alive, encoders, tokenizers, stores, told, created, call>>
heldVars == <<object, onDisk, promised>>
traceVars == <<otel, manager, provider, meter, objects, spans, inserted, counted>>

storeVars == <<vars, mapVars, sqlVars, bm25Vars, filterVars, hybridVars, toolVars>>
frontVars == <<apiVars, addonVars, logVars, objectVars, heldVars, traceVars>>
otherVars == <<v1, v2, v3, v4, v5, v6, v7, v8, v9, v10, v11, v12>>

------------------------------------------------------------------------------
\* The variables but the first n are spare, and stay it.
Spare(n) == /\ IF n < 1 THEN v1 = None ELSE TRUE
            /\ IF n < 2 THEN v2 = None ELSE TRUE
            /\ IF n < 3 THEN v3 = None ELSE TRUE
            /\ IF n < 4 THEN v4 = None ELSE TRUE
            /\ IF n < 5 THEN v5 = None ELSE TRUE
            /\ IF n < 6 THEN v6 = None ELSE TRUE
            /\ IF n < 7 THEN v7 = None ELSE TRUE
            /\ IF n < 8 THEN v8 = None ELSE TRUE
            /\ IF n < 9 THEN v9 = None ELSE TRUE
            /\ IF n < 10 THEN v10 = None ELSE TRUE
            /\ IF n < 11 THEN v11 = None ELSE TRUE
            /\ IF n < 12 THEN v12 = None ELSE TRUE
StaySpare(n) == /\ IF n < 1 THEN UNCHANGED v1 ELSE TRUE
                /\ IF n < 2 THEN UNCHANGED v2 ELSE TRUE
                /\ IF n < 3 THEN UNCHANGED v3 ELSE TRUE
                /\ IF n < 4 THEN UNCHANGED v4 ELSE TRUE
                /\ IF n < 5 THEN UNCHANGED v5 ELSE TRUE
                /\ IF n < 6 THEN UNCHANGED v6 ELSE TRUE
                /\ IF n < 7 THEN UNCHANGED v7 ELSE TRUE
                /\ IF n < 8 THEN UNCHANGED v8 ELSE TRUE
                /\ IF n < 9 THEN UNCHANGED v9 ELSE TRUE
                /\ IF n < 10 THEN UNCHANGED v10 ELSE TRUE
                /\ IF n < 11 THEN UNCHANGED v11 ELSE TRUE
                /\ IF n < 12 THEN UNCHANGED v12 ELSE TRUE

NoLists == vector_results = <<>> /\ lexical_results = <<>> /\ fusion = "none" /\ combined = Hybrid!Nothing

\* After a deletion, and a death or a failing save, nothing is asked of the API.
ApiNext == (apiClean \/ ~apiDeleted) /\ Api!Next

MCInit ==
    /\ instance \in {"flat", "mapping", "faulty", "sqlite", "bm25", "filters", "hybrid", "tools", "api",
                     "addon", "objects", "held", "log", "spans", "metrics", "kernels", "ops", "pq", "scalar",
                     "displays", "text", "images", "llama", "hits", "sessions", "line", "lines", "shell"}
    /\ Init
    /\ IF instance = "faulty" THEN Faulty!Init ELSE Mapping!Init
    /\ instance \notin {"mapping", "faulty"} => lengths = [p \in Paths |-> 0]
    /\ Sqlite!Init /\ Filters!Init /\ Hybrid!EngineInit /\ Hybrid!ToolsInit
    /\ IF instance = "hybrid" THEN Hybrid!FusionInit ELSE NoLists
    /\ Api!Init /\ Addon!Init /\ Addon!ObjectsInit /\ Addon!HeldInit /\ Log!Init
    /\ Traces!Init /\ (instance # "metrics" => ~otel)
    /\ CASE instance = "kernels" -> Ops!KernelInit /\ Spare(7)
         [] instance = "ops" -> Ops!SearchInit /\ Spare(5)
         [] instance = "pq" -> Quantizing!ProductInit /\ Spare(6)
         [] instance = "scalar" -> Quantizing!ScalarInit /\ Spare(5)
         [] instance = "displays" -> Adaptive!Init /\ Spare(12)
         [] instance = "text" -> Models!Init /\ Spare(10)
         [] instance = "images" -> Models!Init /\ Spare(10)
         [] instance = "llama" -> Llama!Init /\ Spare(11)
         [] instance = "hits" -> Requests!SearchInit /\ Spare(4)
         [] instance = "sessions" -> Requests!SessionInit /\ Spare(7)
         [] instance = "line" -> OneRun!LineInit /\ Spare(11)
         [] instance = "lines" -> ManyRuns!LineInit /\ Spare(11)
         [] instance = "shell" -> ManyRuns!ShellInit /\ Spare(6)
         [] OTHER -> Spare(0)

MCNext ==
    /\ UNCHANGED instance
    /\ \/ /\ UNCHANGED <<frontVars, otherVars>>
          /\ \/ instance = "flat" /\ UNCHANGED <<mapVars, sqlVars, bm25Vars, filterVars, hybridVars, toolVars>> /\ Next
             \/ instance = "mapping" /\ UNCHANGED <<vars, sqlVars, bm25Vars, filterVars, hybridVars, toolVars>> /\ Mapping!Next
             \/ instance = "faulty" /\ UNCHANGED <<vars, sqlVars, bm25Vars, filterVars, hybridVars, toolVars>> /\ Faulty!Next
             \/ instance = "sqlite" /\ UNCHANGED <<vars, mapVars, bm25Vars, filterVars, hybridVars, toolVars>> /\ Sqlite!Next
             \/ instance = "bm25" /\ UNCHANGED <<vars, mapVars, sqlVars, filterVars, hybridVars, toolVars>> /\ Hybrid!EngineNext
             \/ instance = "filters" /\ UNCHANGED <<vars, mapVars, sqlVars, bm25Vars, hybridVars, toolVars>> /\ Filters!Next
             \/ instance = "hybrid" /\ UNCHANGED <<vars, mapVars, sqlVars, bm25Vars, filterVars, toolVars>> /\ Hybrid!FusionNext
             \/ instance = "tools" /\ UNCHANGED <<vars, mapVars, sqlVars, bm25Vars, filterVars, hybridVars>> /\ Hybrid!ToolsNext
       \/ /\ UNCHANGED <<storeVars, otherVars>>
          /\ \/ instance = "api" /\ UNCHANGED <<addonVars, logVars, objectVars, heldVars, traceVars>> /\ ApiNext
             \/ instance = "addon" /\ UNCHANGED <<apiVars, logVars, objectVars, heldVars, traceVars>> /\ Addon!Next
             \/ instance = "log" /\ UNCHANGED <<apiVars, addonVars, objectVars, heldVars, traceVars>> /\ Log!Next
             \/ instance = "objects" /\ UNCHANGED <<apiVars, addonVars, logVars, heldVars, traceVars>> /\ Addon!ObjectsNext
             \/ instance = "held" /\ UNCHANGED <<apiVars, addonVars, logVars, objectVars, traceVars>> /\ Addon!HeldNext
             \/ instance = "spans" /\ UNCHANGED <<apiVars, addonVars, logVars, objectVars, heldVars>> /\ Traces!SpanNext
             \/ instance = "metrics" /\ UNCHANGED <<apiVars, addonVars, logVars, objectVars, heldVars>> /\ Traces!MetricNext
       \/ /\ UNCHANGED <<storeVars, frontVars>>
          /\ \/ instance = "kernels" /\ StaySpare(7) /\ Ops!KernelNext
             \/ instance = "ops" /\ StaySpare(5) /\ Ops!SearchNext
             \/ instance = "pq" /\ StaySpare(6) /\ Quantizing!ProductNext
             \/ instance = "scalar" /\ StaySpare(5) /\ Quantizing!ScalarNext
             \/ instance = "displays" /\ StaySpare(12) /\ Adaptive!Next
             \/ instance = "text" /\ StaySpare(10) /\ Models!TextNext
             \/ instance = "images" /\ StaySpare(10) /\ Models!ImageNext
             \/ instance = "llama" /\ StaySpare(11) /\ Llama!Next
             \/ instance = "hits" /\ StaySpare(4) /\ Requests!SearchNext
             \/ instance = "sessions" /\ StaySpare(7) /\ Requests!SessionNext
             \/ instance = "line" /\ StaySpare(11) /\ OneRun!LineNext
             \/ instance = "lines" /\ StaySpare(11) /\ ManyRuns!LineNext
             \/ instance = "shell" /\ StaySpare(6) /\ ManyRuns!ShellNext

MCSpec == MCInit /\ [][MCNext]_<<storeVars, frontVars, otherVars, instance>>

------------------------------------------------------------------------------
\* HybridSearch: what both searches prefer stays preferred.  VectorOps: a
\* kernel takes each element once; metrics agree on vectors of one length,
\* and rank those of another dimension last.  The quantizers: a code stands for
\* what is nearest, and is read as it was written, on whichever display of the
\* curve, within the budget of bits.  Encoders: a text's ids are the same in
\* a batch, framed, and read back; one that is ready is whole.  LlamaEngine: what
\* the callback was told is what is answered.  ApiRequests: answers are the best of
\* those that meet the filters; the gauge counts, and a strict server logs in.
\* CommandLine: each argument has one place, and info tells an empty database from
\* another; a history is the last lines.
AnswersAreRight == /\ instance = "hybrid" => Hybrid!Unanimity
                   /\ instance = "kernels" => Ops!EachOnce
                   /\ instance = "ops" => Ops!StrangersLast /\ Ops!MetricsAgree /\ Ops!OperationsFit
                   /\ instance = "displays" => /\ Adaptive!TypeOK /\ Adaptive!LearntComesBack
                                               /\ Adaptive!CodesOutliveDisplays /\ Adaptive!BitsAreBudgeted
                   /\ instance = "pq" => Quantizing!CodesAreNearest /\ Quantizing!CentroidsInRange
                   /\ instance = "scalar" => Quantizing!CodesAreClose
                   /\ instance \in {"text", "images"} => /\ Models!TypeOK /\ Models!ReadyIsWhole
                                                        /\ Models!IdsAreFramed /\ Models!BatchIsEach
                                                        /\ Models!WordsComeBack
                   /\ instance = "llama" => /\ Llama!TypeOK /\ Llama!ToldIsAnswered
                                            /\ Llama!AnswerIsSampled /\ Llama!ContextIsConversation
                   /\ instance = "hits" => /\ Requests!AnswersAreBest /\ Requests!GivenIsFound
                                           /\ Requests!FiltersAreLogic
                   /\ instance = "sessions" => Requests!GaugeCounts /\ Requests!StrictServerLogsIn
                   /\ instance \in {"line", "lines"} => OneRun!ArgumentsAreSorted /\ OneRun!InfoTellsEmpty
                   /\ instance = "lines" => OneRun!CommandsAreFound
                   /\ instance = "shell" => ManyRuns!HistoryIsLatest /\ ManyRuns!FileIsAHistory

\* Loads of FlatIndex and of the text search bring back what was saved, an eviction
\* takes only what has expired, an iteration never worsens a codebook, and a
\* logged line finds its stream sound or makes it so.
StepsKeepTheirWord ==
    [][/\ instance = "flat" => LoadRestores
       /\ instance = "bm25" => Hybrid!LoadFindsWhatWasSaved
       /\ instance = "sqlite" => Sqlite!EvictsOnlyExpired
       /\ instance = "pq" => Quantizing!DistortionFalls
       /\ instance = "log" => Log!LogHeals]_<<storeVars, otherVars, frontVars>>
===============================================================================
