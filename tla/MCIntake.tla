------------------------------- MODULE MCIntake -------------------------------
(***************************************************************************)
(* Instances for TLC of the components documents come in through, in one   *)
(* run: HttpClient, Chunking, Ingest, Renderer, Adapters,                  *)
(* PgvectorAdapter, AdapterManager and RagEngine.  A behaviour is one of   *)
(* the component it starts in, or of its part where the module has         *)
(* several; the variables of the others keep one value.                    *)
(***************************************************************************)
EXTENDS HttpClient, SequencesExt

CONSTANTS journal, chart, broken   \* files to ingest; the last cannot be read

VARIABLES instance,
          method, text, size, overlap, pos, start, chunk, finished,     \* Chunking
          present, ingested, documents, phase, files, ingestStats, restarts,   \* Ingest
          server, authToken, apiStats, collections, selectedCollection,
          searchResults, calls, asked, acts,                                     \* Renderer
          source, next, batch, pieces, stage, table, written, before, writes, columns,   \* Adapters
          xml, place, nodes, node_stack, rootText, parsing, extracted,           \* and its XML
          libpq, postgres, extension, rows, sessions, connection_, leaked, told, stops,  \* PgvectorAdapter
          adapters, config_, client, got,                                        \* AdapterManager
          strategy, document, paragraphs, sentences, current, chunks,
          results, current_tokens, retrieved, query, done                        \* RagEngine

MCTexts == UNION {[1 .. n -> {"x", " ", ".", "\n"}] : n \in 0 .. 4}
Chunks == INSTANCE Chunking WITH Texts <- MCTexts, Sizes <- {2, 3}, Overlaps <- {0, 1}, Modulus <- 64,
                                 Methods <- {"ingest", "window", "paragraph", "rag"}

Ingestion == INSTANCE Ingest WITH Files <- {journal, chart, broken}, Unreadable <- {broken},
                                  Incremental <- TRUE, AutoSync <- FALSE, MaxCopies <- 2,
                                  MaxRestarts <- 1, stats <- ingestStats
Syncing == INSTANCE Ingest WITH Files <- {journal, chart, broken}, Unreadable <- {broken},
                                Incremental <- TRUE, AutoSync <- TRUE, MaxCopies <- 2,
                                MaxRestarts <- 1, stats <- ingestStats

Studio == INSTANCE Renderer WITH Collections <- {journal, chart}, Calls <- 1 .. 2, MaxActs <- 3

Csv == [format : {"csv"}, header : {FALSE}, sizes : UNION {[1 .. n -> {1, 2}] : n \in 0 .. 4}]
       \cup [format : {"csv"}, header : {TRUE}, sizes : UNION {[1 .. n -> {1, 2}] : n \in 1 .. 4}]
Sqlite == [format : {"sqlite"}, query : {0, 2},
           tables : UNION {[1 .. n -> [rows : {0, 2}, readable : BOOLEAN, wanted : BOOLEAN]] : n \in 0 .. 2}]
Parquet == [format : {"parquet"}, arrays : UNION {[1 .. n -> 1 .. 5] : n \in 0 .. 2}]
Json == [format : {"json"}, document : BOOLEAN,
         elements : UNION {[1 .. n -> [pieces : {1, 2}, keys : SUBSET {"title", "tags"}]] : n \in 0 .. 2}]
\* Tags in any order, behind a declaration, cut short, and as write makes them.
Tag(name) == [kind |-> name, name |-> "e"]
Tags(most) == {d \in UNION {[1 .. n -> {Tag("open"), Tag("close"), Tag("self"), Tag("text")}] : n \in 0 .. most} :
                  \A n \in 2 .. Len(d) : d[n - 1] # Tag("text") \/ d[n] # Tag("text")}
NoXml == INSTANCE Adapters WITH
    Sources <- {}, max_chunk_size <- 1, batch_size <- 1, MaxWrites <- 0, chunks <- pieces, phase <- stage,
    Documents <- {}, pos <- place, xmlPhase <- parsing, text <- extracted
MCXml == Tags(4) \cup {<<NoXml!Declaration>> \o d : d \in Tags(3)}
         \cup {d \o <<Tag("empty"), Tag("text"), Tag("cut")>> : d \in Tags(2)}
         \cup {NoXml!Written(c) : c \in UNION {[1 .. n -> [keys : 0 .. 2, content : BOOLEAN]] : n \in 0 .. 2}}
Formats == INSTANCE Adapters WITH
    Sources <- Csv \cup Sqlite \cup Parquet \cup Json, max_chunk_size <- 3, batch_size <- 2, MaxWrites <- 2,
    chunks <- pieces, phase <- stage,
    Documents <- MCXml, pos <- place, xmlPhase <- parsing, text <- extracted

Pgvector == INSTANCE PgvectorAdapter WITH
    Distances <- {1, 2, None}, batch_size <- 2, Ks <- {1, 2}, MaxRows <- 3, MaxRestarts <- 1,
    server <- postgres, table <- rows, answer <- told, restarts <- stops

\* Files of most kinds, and URLs with an extension and without.
File(ext) == [ext |-> ext, case |-> "lower", url |-> FALSE, exists |-> TRUE, parses |-> TRUE]
Url(ext) == [File(ext) EXCEPT !.url = TRUE, !.exists = FALSE]
MCPaths == {File(ext) : ext \in {"csv", "xml", "md", "pdf", "html"}} \cup {Url(ext) : ext \in {"csv", "html", "none"}}
           \cup {[File("json") EXCEPT !.case = "mixed"], [File("csv") EXCEPT !.exists = FALSE],
                 [File("sql") EXCEPT !.parses = FALSE]}
Content(begins, comma, commas) == [begins |-> begins, comma |-> comma, commas |-> commas]
MCContents == {Content(begins, FALSE, FALSE) : begins \in {"<", "<html", "x", "blank", "%PDF"}}
              \cup {Content("{", FALSE, TRUE), Content("{", TRUE, TRUE), Content("x", FALSE, TRUE)}
Managed == INSTANCE AdapterManager WITH
    Paths <- MCPaths, Contents <- MCContents, Keys <- {"k"}, Values <- {1, 2}, Statuses <- {200, 404},
    Batches <- UNION {[1 .. n -> {File("csv"), File("pdf"), [File("sql") EXCEPT !.parses = FALSE]}] : n \in 0 .. 2},
    Types <- {"", "application/json", "image/svg+xml"}, MaxAdapters <- 8, answer <- got

MCDocuments == UNION {[1 .. n -> {"x", " ", ".", "\n"}] : n \in 1 .. 4}
               \cup [1 .. 5 -> {"x", " ", "."}] \cup UNION {[1 .. n -> {"x", "."}] : n \in {6, 7}}
MCLists == {l \in UNION {[1 .. n -> [score : 0 .. 1, tokens : 1 .. 6]] : n \in 0 .. 2} :
               \A i, j \in DOMAIN l : i < j => l[i].score >= l[j].score}
Rag == INSTANCE RagEngine WITH Documents <- MCDocuments, chunk_size <- 3, chunk_overlap <- 0,
                               Queries <- {0, 3, 6, 9}, ResultLists <- MCLists, relevance_threshold <- 1,
                               max_context_length <- 8, MinTokens <- 2, Modulus <- 64

chunkVars == <<method, text, size, overlap, pos, start, chunk, finished>>
ingestVars == <<present, ingested, documents, phase, files, ingestStats, restarts>>
studioVars == <<server, authToken, apiStats, collections, selectedCollection, searchResults, calls, asked, acts>>
formatVars == <<source, next, batch, pieces, stage, table, written, before, writes, columns>>
xmlVars == <<xml, place, nodes, node_stack, rootText, parsing, extracted>>
pgVars == <<libpq, postgres, extension, rows, sessions, connection_, leaked, told, stops>>
managerVars == <<adapters, config_, client, got>>
ragVars == <<strategy, document, paragraphs, sentences, current, chunks, results, current_tokens, retrieved,
             query, done>>
httpVars == <<vars, limiterVars>>
fileVars == <<chunkVars, ingestVars, formatVars, xmlVars, ragVars>>
serviceVars == <<studioVars, pgVars, managerVars>>
all == <<httpVars, fileVars, serviceVars, instance>>

NoChunks == method = "none" /\ text = <<>> /\ size = 0 /\ overlap = 0 /\ pos = 0 /\ start = 0
            /\ chunk = [from |-> -1, to |-> 0] /\ finished = FALSE

NoFormats == /\ source = [format |-> "none"] /\ next = 0 /\ batch = <<>> /\ pieces = <<>> /\ stage = "none"
             /\ table = Formats!NoTable /\ written = 0 /\ before = <<>> /\ writes = 0 /\ columns = <<>>

NoXmlFile == xml = <<>> /\ place = 0 /\ nodes = <<>> /\ node_stack = <<>> /\ rootText = <<>> /\ parsing = "none"
             /\ extracted = <<>>

NoRag == /\ strategy = "none" /\ document = <<>> /\ paragraphs = <<>> /\ sentences = <<>> /\ current = <<>>
         /\ chunks = <<>> /\ results = <<>> /\ current_tokens = 0 /\ retrieved = <<>> /\ query = 0 /\ done = FALSE

MCInit == /\ Init /\ LimiterInit /\ Ingestion!Init /\ Studio!Init
          /\ instance \in {"http", "limiter", "chunks", "ingest", "syncing", "studio", "formats", "xml", "pgvector",
                         "manager", "fetch", "rag"}
          /\ IF instance = "chunks" THEN Chunks!Init ELSE NoChunks
          /\ IF instance = "studio" THEN server \subseteq {journal} ELSE server = {}
          /\ IF instance = "formats" THEN Formats!Init ELSE NoFormats
          /\ IF instance = "xml" THEN Formats!XmlInit ELSE NoXmlFile
          /\ Pgvector!Init /\ (instance # "pgvector" => ~libpq /\ ~extension)
          /\ Managed!Init /\ (instance # "fetch" => config_.base /\ client # <<>>)
          /\ IF instance = "rag" THEN Rag!Init ELSE NoRag

MCNext ==
    /\ UNCHANGED instance
    /\ \/ /\ UNCHANGED <<fileVars, serviceVars>>
          /\ \/ instance = "http" /\ UNCHANGED limiterVars /\ Next
             \/ instance = "limiter" /\ UNCHANGED vars /\ LimiterNext
       \/ /\ UNCHANGED <<httpVars, serviceVars>>
          /\ \/ instance = "chunks" /\ UNCHANGED <<ingestVars, formatVars, xmlVars, ragVars>> /\ Chunks!Next
             \/ instance = "ingest" /\ UNCHANGED <<chunkVars, formatVars, xmlVars, ragVars>> /\ Ingestion!Next
             \/ instance = "syncing" /\ UNCHANGED <<chunkVars, formatVars, xmlVars, ragVars>> /\ Syncing!Next
             \/ instance = "formats" /\ UNCHANGED <<chunkVars, ingestVars, xmlVars, ragVars>> /\ Formats!Next
             \/ instance = "xml" /\ UNCHANGED <<chunkVars, ingestVars, formatVars, ragVars>> /\ Formats!XmlNext
             \/ instance = "rag" /\ UNCHANGED <<chunkVars, ingestVars, formatVars, xmlVars>> /\ Rag!Next
       \/ /\ UNCHANGED <<httpVars, fileVars>>
          /\ \/ instance = "studio" /\ UNCHANGED <<pgVars, managerVars>> /\ Studio!Next
             \/ instance = "pgvector" /\ UNCHANGED <<studioVars, managerVars>> /\ Pgvector!Next
             \/ instance = "manager" /\ UNCHANGED <<studioVars, pgVars>> /\ Managed!ManagerNext
             \/ instance = "fetch" /\ UNCHANGED <<studioVars, pgVars>> /\ Managed!HttpNext

\* The fairness of each component, in its instance.
MCFairness == /\ \A t \in Threads : SF_vars(instance = "http" /\ Progress(t))
              /\ WF_chunkVars(instance = "chunks" /\ Chunks!Next)
              /\ WF_ingestVars(instance = "ingest" /\ Ingestion!Pass)
              /\ \A f \in {journal, chart} : SF_ingestVars(instance = "ingest" /\ Ingestion!Add(f))
              /\ WF_studioVars(instance = "studio" /\ \E c \in 1 .. 2 : Studio!Poll(c))
              /\ \A c \in 1 .. 2 : WF_studioVars(instance = "studio" /\ Studio!Answer(c))

MCSpec == MCInit /\ [][MCNext]_all /\ MCFairness

------------------------------------------------------------------------------
\* HttpClient: the mutex is its waiters', and notes are ordered by age.
\* Chunking: no empty or overlong chunk.  Ingest: what a pass reports adds up, and no process adds a file twice.
\* Renderer: the results on display are those of the last search.  Adapters: rows
\* come once, in order and numbered, writes add up, and an XML element has its
\* texts.  PgvectorAdapter: sessions are held, answers are of the table.
\* AdapterManager: a file is handled as what it is detected to be, and a request has
\* the headers it was given.  RagEngine: no letter is lost, chunks fit, and a
\* context keeps to its budget.
IntakeAddsUp == /\ TypeOK /\ LimiterTypeOK
                /\ Chunks!SizesKept
                /\ instance = "ingest" => Ingestion!TypeOK /\ Ingestion!StatsAddUp /\ Ingestion!AddedOnce
                /\ instance = "studio" => Studio!TypeOK /\ Studio!ResultsAreAsked
                /\ instance = "formats" => /\ Formats!TypeOK /\ Formats!OnceInOrder
                                           /\ Formats!Numbered /\ Formats!WritesAddUp
                /\ instance = "xml" => Formats!ElementsHaveTheirTexts /\ Formats!TextsAreKept
                /\ instance = "pgvector" => Pgvector!SessionsAreHeld /\ Pgvector!AnswersAreOfTheTable
                /\ instance \in {"manager", "fetch"} => /\ Managed!HandledAsDetected /\ Managed!HeadersAreSet
                                                        /\ Managed!BatchesAreWhole
                /\ instance = "rag" => Rag!TypeOK /\ Rag!NoLetterLost /\ Rag!ChunksFit /\ Rag!BudgetKept

\* Chunking: no character is left out.  AdapterManager: a registered adapter takes
\* nothing from the others.
NothingSkipped == /\ Chunks!NothingSkipped
                  /\ [][instance = "manager" => Managed!AdaptersKeepTheirs]_<<managerVars, instance>>

\* Every request is answered, every text is cut up, and every readable file is
\* in the database some time, unless watch is told to stop (Terminates and
\* EventuallyIngested, of their instances); Studio comes to show what the API
\* has (DisplayConverges).
IntakeEnds ==
    /\ RequestsAnswered
    /\ instance = "chunks" ~> finished
    /\ \A f \in {journal, chart} :
          instance = "ingest" /\ f \in present ~> (documents[f] > 0 \/ phase = "stopped")
    /\ Studio!DisplayConverges
===============================================================================
