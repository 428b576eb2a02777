---------------------------- MODULE MetadataStore ----------------------------
(***************************************************************************)
(* MetadataStore (src/storage/mmap_store.cpp, include/vdb/storage.hpp): a  *)
(* map from vector ids to documents' metadata, kept in a file of JSON      *)
(* lines.  add appends a line at once, which leaves three of a document's  *)
(* fields out (dxy, vix, yield_10y); update and remove change the map      *)
(* only; sync rewrites the whole file in place, with every field.          *)
(*                                                                         *)
(* The caller holds VectorDatabase's lock across each operation, so an     *)
(* operation is one action; a process that dies inside one is an action of *)
(* its own.  A line is its id and document; a line cut short is Malformed. *)
(***************************************************************************)
EXTENDS Integers, Sequences, FiniteSets, SequencesExt

CONSTANTS Ids,         \* vector ids
          Docs,        \* metadata of documents
          Abridged,    \* of a document: what is left without the three fields
          None,        \* no metadata
          Malformed,   \* a line load() skips
          MaxLines,    \* bound: lines appended between rewrites
          WriteFaults, \* may a write to the file fail (a full disk)?
          TornAppends, \* may a process die inside the write of an append?
          TornRewrites \* may a process die inside a rewrite of the file?

ASSUME MetadataAssumption ==
    /\ None \notin Docs /\ Malformed \notin [id : Ids, doc : Docs]
    /\ Abridged \in [Docs -> Docs] /\ \A doc \in Docs : Abridged[Abridged[doc]] = Abridged[doc]
    /\ WriteFaults \in BOOLEAN /\ TornAppends \in BOOLEAN /\ TornRewrites \in BOOLEAN
    /\ MaxLines \in Nat

VARIABLES
    metadata,  \* metadata_: id -> document or None
    dirty,     \* dirty_
    stream,    \* append_stream_: "closed", "open", "bad"
    lines,     \* the lines of the file
    torn       \* the last line has no newline

metaVars == <<metadata, dirty, stream, lines, torn>>

\* A line, as it reads back.  append_to_file leaves the three fields out, sync
\* does not.
Line(id, doc) == [id |-> id, doc |-> doc]
AppendedLine(id, doc) == Line(id, Abridged[doc])
LineSet == {Line(id, doc) : id \in Ids, doc \in Docs}

LinesBeforeLast(id) ==   \* mutant of LinesOf: the last line is not read
    {i \in 1 .. Len(lines) - 1 : lines[i] # Malformed /\ lines[i].id = id}

\* load: a later line of an id wins, malformed lines are skipped.
LinesOf(id) == {i \in DOMAIN lines : lines[i] # Malformed /\ lines[i].id = id}
LoadedFirst == [id \in Ids |->   \* mutant of Loaded: the first line of an id wins
                  IF LinesOf(id) = {} THEN None
                  ELSE lines[CHOOSE i \in LinesOf(id) : \A j \in LinesOf(id) : j >= i].doc]

Loaded == [id \in Ids |->
             IF LinesOf(id) = {} THEN None
             ELSE lines[CHOOSE i \in LinesOf(id) : \A j \in LinesOf(id) : j <= i].doc]

Size == Cardinality({id \in Ids : metadata[id] # None})

MetaInit == /\ metadata = [id \in Ids |-> None]
            /\ dirty = FALSE
            /\ stream = "closed"
            /\ lines = <<>>
            /\ torn = FALSE

------------------------------------------------------------------------------
\* A line written after a line without a newline becomes part of that line.
Appends(line) == lines' = IF torn THEN Append(Front(lines), Malformed)
                                  ELSE Append(lines, line)

\* The write of a line stops short: nothing, some of it, or all but the
\* newline has reached the file.
CutShort(line) == \/ UNCHANGED <<lines, torn>>
                  \/ \E cut \in {line, Malformed} : Appends(cut) /\ torn' = TRUE

\* append_to_file: the stream is opened once and kept.  Its state is looked
\* at before the write, not after.
AppendToFile(line, answer) ==
    \/ /\ stream # "bad"
       /\ Appends(line) /\ torn' = FALSE
       /\ stream' = "open"
       /\ answer = "ok"
    \/ /\ stream # "bad" /\ WriteFaults
       /\ CutShort(line)
       /\ stream' = "bad"
       /\ answer = "ok"
    \/ /\ stream = "bad" \/ (stream = "closed" /\ WriteFaults)
       /\ UNCHANGED <<lines, torn, stream>>
       /\ answer = "IoError"

AddMetadata(id, doc, answer) ==
    /\ Len(lines) < MaxLines
    /\ metadata' = [metadata EXCEPT ![id] = doc]
    /\ dirty' = TRUE
    /\ AppendToFile(AppendedLine(id, doc), answer)

UpdateMetadata(id, doc) ==
    /\ metadata' = [metadata EXCEPT ![id] = doc]
    /\ dirty' = TRUE
    /\ UNCHANGED <<stream, lines, torn>>

RemoveMetadata(id) ==
    /\ metadata' = [metadata EXCEPT ![id] = None]
    /\ dirty' = TRUE
    /\ UNCHANGED <<stream, lines, torn>>

EntriesAbridged(S) ==   \* mutant of Entries: the rewrite leaves the fields out too
    {AppendedLine(id, metadata[id]) : id \in {i \in S : metadata[i] # None}}

\* The lines a rewrite makes of the entries of some ids.
Entries(S) == {Line(id, metadata[id]) : id \in {i \in S : metadata[i] # None}}

\* sync truncates the file and writes it again; the appending stream stays.
SyncMetadata ==
    /\ UNCHANGED <<metadata, stream>>
    /\ \/ ~dirty /\ UNCHANGED <<dirty, lines, torn>>
       \/ dirty /\ dirty' = FALSE /\ lines' = SetToSeq(Entries(Ids)) /\ torn' = FALSE

\* Some of the entries, and perhaps a part of one more.
RewrittenInPart ==
    \E written \in SUBSET Ids :
       \/ lines' = SetToSeq(Entries(written)) /\ torn' = FALSE
       \/ \E cut \in Entries(Ids \ written) \cup {Malformed} :
             lines' = Append(SetToSeq(Entries(written)), cut) /\ torn' = TRUE

\* The writes of sync fail, and sync does not look: it answers success.
SyncMetadataInPart == /\ WriteFaults /\ dirty
                      /\ RewrittenInPart
                      /\ dirty' = FALSE
                      /\ UNCHANGED <<metadata, stream>>

\* The file cannot be opened for writing.
SyncMetadataRefused == WriteFaults /\ dirty /\ UNCHANGED metaVars

\* What is left of the store when its process dies: the file.
Forgotten == /\ metadata' = [id \in Ids |-> None]
             /\ dirty' = FALSE
             /\ stream' = "closed"

DiesAppending(id, doc) ==
    /\ TornAppends /\ stream # "bad"
    /\ Len(lines) < MaxLines
    /\ CutShort(AppendedLine(id, doc))
    /\ Forgotten

DiesRewriting == TornRewrites /\ dirty /\ RewrittenInPart /\ Forgotten

LoadMetadata == /\ metadata' = Loaded
                /\ dirty' = FALSE
                /\ stream' = "closed"
                /\ UNCHANGED <<lines, torn>>
==============================================================================
