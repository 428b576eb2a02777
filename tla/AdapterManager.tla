--------------------------- MODULE AdapterManager ---------------------------
(***************************************************************************)
(* DataAdapterManager (src/adapters/data_adapter.cpp), which gives files   *)
(* and contents to the first of its adapters that says it can handle them, *)
(* and HTTPAdapter (src/adapters/http_adapter.cpp), which fetches a URL    *)
(* and gives what comes to the adapter it takes for the right one.         *)
(*                                                                         *)
(* A path has an extension in some case, and may be a URL.  A content is   *)
(* known by how it begins, by whether its first line has a comma or a tab, *)
(* and by whether it has more than three commas to two lines.  What an     *)
(* adapter makes of it is in Adapters.                                     *)
(***************************************************************************)
EXTENDS Integers, SequencesExt, TLC

CONSTANTS Paths,     \* [ext, case, url, exists, parses]
          Contents,  \* [begins, comma, commas]
          Batches,   \* sequences of paths
          Keys, Values,   \* of headers
          Statuses, Types,   \* of responses: Types are contents of Content-Type, "" for none
          MaxAdapters,   \* bound
          None

VARIABLES adapters,
          config_,   \* HTTPAdapter: its headers and its base_url
          client,    \* the default headers of its HttpClient
          answer

vars == <<adapters, config_, client, answer>>

Nothing == [kind |-> "none"]
BuiltIn == <<"csv", "json", "xml", "parquet", "sqlite", "http">>
Others == {"text", "pdf", "pgvector"}

Init == /\ adapters = BuiltIn
        /\ config_ \in [headers : {<<>>, [k \in Keys |-> CHOOSE v \in Values : TRUE]}, base : BOOLEAN]
        /\ client = config_.headers
        /\ answer = Nothing

------------------------------------------------------------------------------
\* can_handle of a path.  CSVAdapter and JSONAdapter compare as it is written.
Handles(adapter, p) ==
    CASE adapter = "csv" -> p.ext \in {"csv", "tsv"} /\ p.case # "mixed"
      [] adapter = "json" -> p.ext \in {"json", "jsonl"} /\ p.case # "mixed"
      [] adapter = "xml" -> p.ext = "xml"
      [] adapter = "parquet" -> p.ext = "parquet"
      [] adapter = "sqlite" -> p.ext \in {"db", "sqlite", "sql"}
      [] adapter = "http" -> p.url
      [] adapter = "text" -> p.ext \in {"txt", "md", "log"}
      [] adapter = "pdf" -> p.ext = "pdf"
      [] OTHER -> FALSE

\* can_handle of a content: whatever begins with < is XML, and whatever has a
\* comma in its first line is CSV first.
HandlesContent(adapter, c) ==
    CASE adapter = "csv" -> c.comma
      [] adapter = "json" -> c.begins \in {"{", "["}
      [] adapter = "xml" -> c.begins \in {"<", "<html"}
      [] adapter = "parquet" -> c.begins = "PAR1"
      [] adapter = "sqlite" -> c.begins = "SQLite"
      [] adapter = "http" -> c.begins = "http"
      [] adapter = "text" -> c.begins \notin {"PAR1", "SQLite", "empty"}
      [] adapter = "pdf" -> c.begins = "%PDF"
      [] OTHER -> FALSE

FormatsOf(adapter) ==
    CASE adapter = "csv" -> <<"CSV">>          [] adapter = "json" -> <<"JSON", "API_JSON">>
      [] adapter = "xml" -> <<"XML">>          [] adapter = "parquet" -> <<"Parquet">>
      [] adapter \in {"sqlite", "pgvector"} -> <<"SQL">>
      [] adapter = "http" -> <<"API_JSON", "JSON", "XML", "CSV", "PlainText", "HTML">>
      [] adapter = "text" -> <<"PlainText", "TXT", "Markdown">>
      [] adapter = "pdf" -> <<"PDF">>

\* find_adapter and find_adapter_for_content.
FirstOf(able) == IF able = <<>> THEN None ELSE Head(able)
FindAdapter(p) == FirstOf(SelectSeq(adapters, LAMBDA a : Handles(a, p)))
FindAdapterForContent(c) == FirstOf(SelectSeq(adapters, LAMBDA a : HandlesContent(a, c)))

\* detect_from_extension, in whatever case.
Extensions == ("csv" :> "CSV") @@ ("json" :> "JSON") @@ ("jsonl" :> "JSON") @@ ("md" :> "Markdown")
              @@ ("txt" :> "TXT") @@ ("pdf" :> "PDF") @@ ("xml" :> "XML") @@ ("html" :> "HTML")
              @@ ("parquet" :> "Parquet") @@ ("db" :> "SQL") @@ ("sqlite" :> "SQL") @@ ("sql" :> "SQL")
FromExtension(p) == IF p.ext \in DOMAIN Extensions THEN Extensions[p.ext] ELSE "Unknown"

\* detect_format and detect_format_content.
FirstFormat(adapter) == IF adapter = None THEN "Unknown" ELSE FormatsOf(adapter)[1]
DetectFormat(p) == IF FromExtension(p) # "Unknown" THEN FromExtension(p) ELSE FirstFormat(FindAdapter(p))
DetectFormatContent(c) == FirstFormat(FindAdapterForContent(c))

------------------------------------------------------------------------------
RegisterFirst(a) ==   \* mutant of Register: before the others
    /\ Len(adapters) < MaxAdapters
    /\ adapters' = <<a>> \o adapters
    /\ UNCHANGED <<config_, client, answer>>

Register(a) ==
    /\ Len(adapters) < MaxAdapters
    /\ adapters' = Append(adapters, a)
    /\ UNCHANGED <<config_, client, answer>>

\* A URL is no file that exists.
Parses(p) == p.exists /\ ~p.url /\ FindAdapter(p) # None /\ p.parses
AutoParse(p) ==
    /\ answer' = IF Parses(p) THEN [kind |-> "parsed", by |-> FindAdapter(p), as |-> DetectFormat(p)]
                 ELSE [kind |-> "error"]
    /\ UNCHANGED <<adapters, config_, client>>

\* The first that fails is the answer for all.
ParseBatch(batch) ==
    /\ answer' = IF \A n \in DOMAIN batch : Parses(batch[n])
                 THEN [kind |-> "batch", of |-> batch, by |-> [n \in DOMAIN batch |-> FindAdapter(batch[n])]]
                 ELSE [kind |-> "error"]
    /\ UNCHANGED <<adapters, config_, client>>

------------------------------------------------------------------------------
(* HTTPAdapter.                                                            *)

SetHeader(k, v) == /\ config_' = [config_ EXCEPT !.headers = (k :> v) @@ @]
                   /\ client' = (k :> v) @@ client
                   /\ UNCHANGED <<adapters, answer>>

Without(headers, k) == [l \in DOMAIN headers \ {k} |-> headers[l]]
RemoveHeaderHere(k) ==   \* mutant of RemoveHeader: the client keeps it
    /\ config_' = [config_ EXCEPT !.headers = Without(@, k)]
    /\ UNCHANGED <<adapters, client, answer>>
RemoveHeader(k) == /\ config_' = [config_ EXCEPT !.headers = Without(@, k)]
                   /\ client' = Without(client, k)
                   /\ UNCHANGED <<adapters, answer>>

SetBaseUrl == config_' = [config_ EXCEPT !.base = TRUE] /\ UNCHANGED <<adapters, client, answer>>

\* sniff_content_format.
Sniffed(c) ==
    CASE c.begins \in {"empty", "blank"} -> "Unknown"
      [] c.begins \in {"{", "["} -> "JSON"
      [] c.begins = "<html" -> "HTML"
      [] c.begins = "<" -> "XML"
      [] OTHER -> IF c.commas THEN "CSV" ELSE "PlainText"

ContentType(t) == CASE t \in {"application/json", "ld+json"} -> "API_JSON"
                    [] t = "image/svg+xml" -> "XML"
                    [] t = "text/csv; charset=utf-8" -> "CSV"
                    [] t = "text/html" -> "HTML"
                    [] t = "text/plain" -> "PlainText"
                    [] OTHER -> "Unknown"

\* detect_format_from_response: the header, the URL's extension, the body.
OfResponse(type, p, body) ==
    IF type # "" /\ ContentType(type) # "Unknown" THEN ContentType(type)
    ELSE IF FromExtension(p) # "Unknown" THEN FromExtension(p)
    ELSE Sniffed(body)

\* Which adapter gets it; None is chunk_text.
ParserOf(format) == CASE format \in {"JSON", "API_JSON"} -> "json"
                      [] format = "XML" -> "xml"
                      [] format = "CSV" -> "csv"
                      [] OTHER -> None

\* parse_response: what is none of these but HTML ends as plain text.
Parsed(format) == <<IF ParserOf(format) = None /\ format # "HTML" THEN "PlainText" ELSE format, ParserOf(format)>>

\* build_url: a path that is none goes behind the base URL, or as it is.
IsUrl(p) == p.url \/ config_.base

\* parse.  The headers are sent as the client's and as the request's.
Fetch(p, status, type, body) ==
    /\ answer' = [kind |-> "fetched", sent |-> <<client, config_.headers>>,
                  result |-> IF ~IsUrl(p) \/ status \notin 200 .. 299 THEN <<"error", None>>
                             ELSE Parsed(OfResponse(type, p, body))]
    /\ UNCHANGED <<adapters, config_, client>>

ManagerNext == \/ \E a \in Others : Register(a)
               \/ \E p \in Paths : AutoParse(p)
               \/ \E batch \in Batches : ParseBatch(batch)

HttpNext == \/ \E k \in Keys : RemoveHeader(k) \/ \E v \in Values : SetHeader(k, v)
            \/ SetBaseUrl
            \/ \E p \in Paths, status \in Statuses, type \in Types, body \in Contents :
                  Fetch(p, status, type, body)

Next == ManagerNext \/ HttpNext

Spec == Init /\ [][Next]_vars

------------------------------------------------------------------------------
\* An adapter that says it can handle a file can make the format the manager
\* detects; of a content, that is one of what it begins with, unless a comma in
\* its first line made it CSV.
HandledAsDetected ==
    /\ \A p \in Paths : ~p.url /\ FindAdapter(p) # None => Contains(FormatsOf(FindAdapter(p)), DetectFormat(p))
    /\ \A c \in Contents : ~c.comma /\ ParserOf(Sniffed(c)) # None /\ c.begins \in {"{", "[", "<"} =>
           FindAdapterForContent(c) = ParserOf(Sniffed(c))

\* Through all that is set and removed, a request has each header with one value,
\* that it was last given.
HeadersAreSet == /\ client = config_.headers
                 /\ answer.kind = "fetched" => answer.sent[1] = answer.sent[2]

\* A batch is answered with a result for each path or not at all.
BatchesAreWhole ==
    answer.kind = "batch" => /\ \A n \in DOMAIN answer.of : answer.of[n].exists /\ answer.by[n] # None
                             /\ DOMAIN answer.by = DOMAIN answer.of

\* Registering an adapter never takes a file or a content from the adapter that
\* had it.
AdaptersKeepTheirs ==
    /\ \A p \in Paths : FindAdapter(p) # None => FindAdapter(p)' = FindAdapter(p)
    /\ \A c \in Contents : FindAdapterForContent(c) # None =>
           FindAdapterForContent(c)' = FindAdapterForContent(c)
==============================================================================
