------------------------------- MODULE Adapters ------------------------------
(***************************************************************************)
(* Format adapters (src/adapters): how CSVAdapter, SQLiteAdapter,          *)
(* ParquetAdapter and JSONAdapter make numbered chunks of the rows, tables *)
(* or elements of a file, and how SQLiteAdapter and ParquetAdapter write   *)
(* chunks to a table, which may fail midway and be tried again.  A row is  *)
(* the pair of where it is from (table, array or element) and its place    *)
(* there; cells, texts and numerical features are left out.  SQLite and    *)
(* Arrow are external.                                                     *)
(*                                                                         *)
(* XMLAdapter and its SimpleXMLParser (xml_adapter.cpp): a document is     *)
(* taken tag by tag into a tree, whose texts are then joined to one chunk; *)
(* write makes a document of chunks.  A document is the sequence of its    *)
(* tags and texts; a text stands for itself by its place there.            *)
(* Attributes, the cutting of the joined text (Chunking) and entities,     *)
(* which write makes and parse leaves, are left out.                       *)
(***************************************************************************)
EXTENDS Integers, SequencesExt, FiniteSetsExt

CONSTANTS
    Sources,       \* the files, see the operators below for their fields
    max_chunk_size,
    batch_size,
    MaxWrites      \* bound: writes

VARIABLES source, next, batch, chunks, phase,      \* parse
          table, written, before, writes, columns  \* write

parsing == <<source, next, batch, chunks>>
writing == <<table, written, before, writes, columns>>
vars == <<parsing, phase, writing>>

\* The columns every table gets.
Base == {"id", "content", "chunk_index", "total_chunks", "title", "date", "source"}
NoTable == [columns |-> {}, rows |-> <<>>]

Init == /\ source \in Sources
        /\ next = IF source.format = "csv" /\ source.header THEN 1 ELSE 0
        /\ batch = <<>> /\ chunks = <<>> /\ phase = "parsing"
        /\ table = NoTable /\ written = 0 /\ before = <<>> /\ writes = 0 /\ columns = <<>>

Chunk(rows, index, total, first, keys) ==
    [rows |-> rows, index |-> index, total |-> total, first |-> first, keys |-> keys]

------------------------------------------------------------------------------
(* CSV: rows until a chunk is large enough.  sizes are those of the lines. *)

SizeOf(rows) == SumFunction([n \in DOMAIN rows |-> source.sizes[rows[n][2] + 1]])

FullOnly(rows, i) == SizeOf(rows) >= max_chunk_size   \* mutant of Full: forgets the last row
Full(rows, i) == SizeOf(rows) >= max_chunk_size \/ i = Len(source.sizes) - 1

CsvRow ==
    /\ source.format = "csv" /\ phase = "parsing" /\ next < Len(source.sizes)
    /\ next' = next + 1
    /\ LET rows == Append(batch, <<0, next>>) IN
       IF Full(rows, next)
       THEN /\ chunks' = Append(chunks, Chunk(rows, Len(chunks), 0, next - Len(rows) + 1, {"row_start"}))
            /\ batch' = <<>>
       ELSE batch' = rows /\ UNCHANGED chunks
    /\ UNCHANGED <<source, phase, writing>>

------------------------------------------------------------------------------
(* SQLite: a table at a time, of those wanted; one that cannot be read is  *)
(* skipped.  With a query of the configuration, each answers its rows.     *)

Wanted == SelectSeq(source.tables, LAMBDA t : t.wanted)
RowsOf(t) == IF source.query > 0 THEN source.query ELSE Wanted[t].rows

SqliteTableOf(offset) ==
    /\ source.format = "sqlite" /\ phase = "parsing" /\ next < Len(Wanted)
    /\ next' = next + 1
    /\ IF Wanted[next + 1].readable
       THEN chunks' = chunks \o [r \in 1 .. RowsOf(next + 1) |->
                                   Chunk(<<<<next + 1, r - 1>>>>, offset + r - 1, 0, 0, {"table"})]
       ELSE UNCHANGED chunks
    /\ UNCHANGED <<source, batch, phase, writing>>

SqliteTableAnew == SqliteTableOf(0)   \* mutant of SqliteTable: chunk_offset stays

\* chunk_offset is the number of chunks so far.
SqliteTable == SqliteTableOf(Len(chunks))

------------------------------------------------------------------------------
(* Parquet: rows in batches.  A column comes in arrays; for each of them   *)
(* the row's number is looked up in it, as if it were the only one.        *)

NumRows == SumFunction(source.arrays)

\* The values a row's text shows, NULL where there is none.
Shown(r) == [a \in 1 .. Len(source.arrays) |->
                IF r < source.arrays[a] THEN <<a, r>> ELSE <<a, -1>>]

ParquetBatchTo(end) ==
    /\ source.format = "parquet" /\ phase = "parsing" /\ next < NumRows
    /\ next' = next + batch_size
    /\ chunks' = chunks \o [n \in 1 .. end - next |->
                     Chunk(Shown(next + n - 1), next + n - 1, NumRows, 0, {"row_number"})]
    /\ UNCHANGED <<source, batch, phase, writing>>

\* mutant of ParquetBatch: the last batch is taken for a full one
ParquetBatchFull == ParquetBatchTo(next + batch_size)

ParquetBatch == ParquetBatchTo(Min({next + batch_size, NumRows}))

------------------------------------------------------------------------------
(* JSON: an element at a time; unless chunks are documents, chunk_text     *)
(* cuts it into pieces numbered anew.                                      *)

JsonElement ==
    /\ source.format = "json" /\ phase = "parsing" /\ next < Len(source.elements)
    /\ next' = next + 1
    /\ LET e == source.elements[next + 1] IN
       chunks' = chunks \o
          IF source.document
          THEN <<Chunk(<<<<next + 1, 0>>>>, next, Len(source.elements), 0, e.keys)>>
          ELSE [n \in 1 .. e.pieces |-> Chunk(<<<<next + 1, n - 1>>>>, n - 1, e.pieces, 0, e.keys)]
    /\ UNCHANGED <<source, batch, phase, writing>>

------------------------------------------------------------------------------
Parsed == next >= CASE source.format = "csv" -> Len(source.sizes)
                    [] source.format = "sqlite" -> Len(Wanted)
                    [] source.format = "parquet" -> NumRows
                    [] source.format = "json" -> Len(source.elements)

Finish ==
    /\ phase = "parsing" /\ Parsed
    /\ IF source.format = "csv" /\ source.sizes = <<>>
       THEN phase' = "error" /\ UNCHANGED chunks
       ELSE /\ phase' = "parsed"
            /\ chunks' = IF source.format \in {"csv", "sqlite"}
                         THEN [c \in DOMAIN chunks |-> [chunks[c] EXCEPT !.total = Len(chunks)]]
                         ELSE chunks
    /\ UNCHANGED <<source, next, batch, writing>>

------------------------------------------------------------------------------
(* Writing.  A table's columns are those of its first chunk.               *)

FirstKeys == IF chunks = <<>> THEN {} ELSE chunks[1].keys
Idle == phase \in {"parsed", "written", "write error", "exported"}

Create ==
    /\ Idle /\ writes < MaxWrites
    /\ writes' = writes + 1 /\ written' = 0 /\ before' = table.rows
    /\ IF table # NoTable THEN phase' = "writing" /\ UNCHANGED table
       ELSE IF FirstKeys \cap Base # {} THEN phase' = "write error" /\ UNCHANGED table   \* a column twice
       ELSE phase' = "writing" /\ table' = [columns |-> Base \cup FirstKeys, rows |-> <<>>]
    /\ UNCHANGED <<parsing, columns>>

InsertSkipping ==   \* mutant of Insert: goes on after a chunk that does not fit
    /\ phase = "writing" /\ written < Len(chunks)
    /\ table' = IF chunks[written + 1].keys \subseteq table.columns
                THEN [table EXCEPT !.rows = Append(@, chunks[written + 1])] ELSE table
    /\ written' = written + 1
    /\ UNCHANGED <<parsing, phase, before, writes, columns>>

\* Every row is a transaction of its own.
Insert ==
    /\ phase = "writing" /\ written < Len(chunks)
    /\ IF chunks[written + 1].keys \subseteq table.columns
       THEN /\ table' = [table EXCEPT !.rows = Append(@, chunks[written + 1])]
            /\ written' = written + 1 /\ UNCHANGED phase
       ELSE phase' = "write error" /\ UNCHANGED <<table, written>>
    /\ UNCHANGED <<parsing, before, writes, columns>>

Close == /\ phase = "writing" /\ written = Len(chunks)
         /\ phase' = "written"
         /\ UNCHANGED <<parsing, writing>>

\* Parquet: the names of a chunk's metadata and the arrays of their values come
\* from two maps, each in its own order.  "" is the value of a key not there.
ArraysIn(order) == [c \in DOMAIN chunks |->
                       [k \in FirstKeys |-> IF order[k] \in chunks[c].keys THEN order[k] ELSE ""]]
WriteParquet ==
    /\ Idle /\ writes < MaxWrites
    /\ writes' = writes + 1 /\ phase' = "exported"
    /\ \E order \in Bijection(FirstKeys, FirstKeys) : columns' = ArraysIn(order)
    /\ UNCHANGED <<parsing, table, written, before>>

Next == CsvRow \/ SqliteTable \/ ParquetBatch \/ JsonElement \/ Finish \/ Create \/ Insert \/ Close \/ WriteParquet

Spec == Init /\ [][Next]_vars

------------------------------------------------------------------------------
\* What the file holds, in its order.
Content ==
    CASE source.format = "csv" -> LET h == IF source.header THEN 1 ELSE 0 IN
                                  [n \in 1 .. Len(source.sizes) - h |-> <<0, n - 1 + h>>]
      [] source.format = "sqlite" ->
             FlattenSeq([t \in 1 .. Len(Wanted) |->
                        IF Wanted[t].readable THEN [r \in 1 .. RowsOf(t) |-> <<t, r - 1>>] ELSE <<>>])
      [] source.format = "parquet" ->
             FlattenSeq([a \in 1 .. Len(source.arrays) |-> [r \in 1 .. source.arrays[a] |-> <<a, r - 1>>]])
      [] source.format = "json" ->
             FlattenSeq([e \in 1 .. Len(source.elements) |->
                        [n \in 1 .. (IF source.document THEN 1 ELSE source.elements[e].pieces) |-> <<e, n - 1>>]])

TypeOK == /\ source \in Sources /\ next \in Nat /\ written \in 0 .. Len(chunks)
          /\ phase \in {"parsing", "error", "parsed", "writing", "written", "write error", "exported"}
          /\ writes \in 0 .. MaxWrites

Ready == phase \notin {"parsing", "error"}

\* Every row comes once and in order, unless a column comes in several arrays.
OnceInOrder ==
    Ready /\ (source.format = "parquet" => Len(source.arrays) = 1)
       => FlattenSeq([c \in DOMAIN chunks |-> chunks[c].rows]) = Content

\* Chunks are numbered from 0 and know how many they are, except for pieces of
\* several elements; a chunk of CSV tells the lines it is of.
Numbered ==
    /\ Ready /\ (source.format = "json" => source.document \/ Len(source.elements) = 1)
          => \A c \in DOMAIN chunks : chunks[c].index = c - 1 /\ chunks[c].total = Len(chunks)
    /\ source.format = "csv" =>
          \A c \in DOMAIN chunks : \A n \in DOMAIN chunks[c].rows :
             chunks[c].rows[n] = <<0, chunks[c].first + n - 1>>

\* A write that succeeds adds all chunks to what was there; one that fails
\* leaves those before the one it failed at.  A Parquet file names the values of
\* a chunk rightly where there is one.
WritesAddUp ==
    /\ phase = "written" => table.rows = before \o chunks
    /\ phase = "write error" => /\ written < Len(chunks)
                                /\ table.rows = before \o SubSeq(chunks, 1, written)
    /\ phase = "exported" /\ Cardinality(FirstKeys) = 1 =>
          \A c \in DOMAIN chunks : \A k \in FirstKeys :
             columns[c][k] = IF k \in chunks[c].keys THEN k ELSE ""

------------------------------------------------------------------------------
(* XML.                                                                    *)

CONSTANT Documents

VARIABLES xml, pos,
          nodes,        \* XMLNodes in the order they were begun: name, parent, places of their texts
          node_stack,   \* nodes that are open; 0 is the root, which has no tag
          rootText,
          xmlPhase,        \* "parsing", "error" or "parsed"
          text          \* of the chunk

xmlVars == <<xml, pos, nodes, node_stack, rootText, xmlPhase, text>>

\* Kinds: "open" with its name, "close", "self" (closing), "empty" (<>), "text",
\* and "cut", a tag that does not end.
Tag(kind) == [kind |-> kind, name |-> "e"]
Open(name) == [kind |-> "open", name |-> name]
Declaration == Open("?xml")

XmlInit == /\ xml \in Documents /\ pos = 1
           /\ nodes = <<>> /\ node_stack = <<0>> /\ rootText = <<>> /\ xmlPhase = "parsing" /\ text = <<>>

AtTag(kind) == xmlPhase = "parsing" /\ pos <= Len(xml) /\ xml[pos].kind = kind
Top == Last(node_stack)
Node(name) == [name |-> name, parent |-> Top, text |-> <<>>]

------------------------------------------------------------------------------
\* A declaration or a comment is a tag like another, which nothing closes.
OpenTag == /\ AtTag("open")
           /\ nodes' = Append(nodes, Node(xml[pos].name))
           /\ node_stack' = Append(node_stack, Len(nodes) + 1)
           /\ pos' = pos + 1
           /\ UNCHANGED <<xml, rootText, xmlPhase, text>>

SelfClosingOpen ==   \* mutant of SelfClosing: it is left open
    /\ AtTag("self")
    /\ nodes' = Append(nodes, Node(xml[pos].name))
    /\ node_stack' = Append(node_stack, Len(nodes) + 1)
    /\ pos' = pos + 1
    /\ UNCHANGED <<xml, rootText, xmlPhase, text>>

SelfClosing == /\ AtTag("self")
               /\ nodes' = Append(nodes, Node(xml[pos].name))
               /\ pos' = pos + 1
               /\ UNCHANGED <<xml, node_stack, rootText, xmlPhase, text>>

\* Whatever its name, and unless only the root is open.
CloseTag == /\ AtTag("close")
            /\ node_stack' = IF Len(node_stack) > 1 THEN Front(node_stack) ELSE node_stack
            /\ pos' = pos + 1
            /\ UNCHANGED <<xml, nodes, rootText, xmlPhase, text>>

EmptyTag == AtTag("empty") /\ pos' = pos + 1 /\ UNCHANGED <<xml, nodes, node_stack, rootText, xmlPhase, text>>

Unclosed == AtTag("cut") /\ xmlPhase' = "error" /\ UNCHANGED <<xml, pos, nodes, node_stack, rootText, text>>

Text == /\ AtTag("text")
        /\ IF Top = 0 THEN rootText' = Append(rootText, pos) /\ UNCHANGED nodes
           ELSE nodes' = [nodes EXCEPT ![Top].text = Append(@, pos)] /\ UNCHANGED rootText
        /\ pos' = pos + 1
        /\ UNCHANGED <<xml, node_stack, xmlPhase, text>>

\* What is left of the tree is the first child of the root, or the root that has none.
WithinFirst[n \in 1 .. Len(nodes)] == n = 1 \/ (nodes[n].parent > 0 /\ WithinFirst[nodes[n].parent])

\* extract_text_recursive: a node's own text, then its children's: nodes come in
\* this order already.
Extracted == IF nodes = <<>> THEN rootText
             ELSE FlattenSeq([n \in 1 .. Len(nodes) |-> IF WithinFirst[n] THEN nodes[n].text ELSE <<>>])

Extract == /\ xmlPhase = "parsing" /\ pos > Len(xml)
           /\ text' = Extracted
           /\ xmlPhase' = "parsed"
           /\ UNCHANGED <<xml, pos, nodes, node_stack, rootText>>

XmlNext == OpenTag \/ SelfClosing \/ CloseTag \/ EmptyTag \/ Unclosed \/ Text \/ Extract

XmlSpec == XmlInit /\ [][XmlNext]_xmlVars

\* XMLAdapter::write: of each chunk the number of its metadata and whether it has content.
Element(inside) == <<Open("e")>> \o inside \o <<Tag("close")>>
Value == Element(<<Tag("text")>>)
Written(given) ==
    <<Declaration>> \o
    Element(FlattenSeq([c \in DOMAIN given |->
        Element((IF given[c].keys = 0 THEN <<>> ELSE Element(FlattenSeq([n \in 1 .. given[c].keys |-> Value])))
                \o (IF given[c].content THEN Value ELSE Element(<<>>)))]))

------------------------------------------------------------------------------
Places(kind) == {p \in DOMAIN xml : xml[p].kind = kind}
\* How many tags are open before a place.
Depth(p) == Cardinality({q \in Places("open") : q < p}) - Cardinality({q \in Places("close") : q < p})
\* The tags are balanced, but for a declaration at the beginning.
WellFormed == LET declared == IF xml # <<>> /\ xml[1] = Declaration THEN 1 ELSE 0
              IN  /\ \A p \in 2 .. Len(xml) + 1 : Depth(p) >= declared
                  /\ Depth(Len(xml) + 1) = declared

\* The tag a place is within, 0 for none: the last one that is open there.
Around(p) == Max({0} \cup {o \in Places("open") : o < p /\ \A q \in o + 1 .. p : Depth(q) > Depth(o)})

\* The place of a node's tag.
PlaceOf(n) == LET tags == Places("open") \cup Places("self")
              IN  CHOOSE p \in tags : Cardinality({q \in tags : q <= p}) = n

\* In a document whose tags are balanced each element has the texts that stand
\* right within it, in their order, whatever stands between them.
ElementsHaveTheirTexts ==
    xmlPhase = "parsed" /\ WellFormed =>
        /\ \A n \in DOMAIN nodes : nodes[n].text = SetToSortSeq({p \in Places("text") : Around(p) = PlaceOf(n)}, <)
        /\ rootText = SetToSortSeq({p \in Places("text") : Around(p) = 0}, <)

\* The chunk has each text within the first element once, and all of a document
\* that begins with its declaration; what is in no tag that has others is in the
\* order of the document.
TextsAreKept ==
    xmlPhase = "parsed" /\ WellFormed =>
        /\ IsInjective(text)
        /\ xml # <<>> /\ xml[1] = Declaration => ToSet(text) = Places("text")
        /\ (\A n \in DOMAIN nodes : nodes[n].parent > 0 => nodes[nodes[n].parent].text = <<>>) =>
              \A i, j \in DOMAIN text : i < j => text[i] < text[j]
==============================================================================
