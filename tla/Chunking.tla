------------------------------- MODULE Chunking -------------------------------
(***************************************************************************)
(* The loops that cut a text into chunks: chunk_text of the ingest         *)
(* (src/ingest/gold_standard_ingest.cpp), chunk_text of the data adapters  *)
(* (src/adapters/data_adapter.cpp) and chunk_fixed of RAGEngine            *)
(* (src/framework/rag_engine.cpp).  A chunk is the range of the text it is *)
(* taken from, positions counted from 0, its end excluded; a text is a     *)
(* sequence of letters, spaces, full stops and newlines.                   *)
(***************************************************************************)
EXTENDS Integers, Sequences, FiniteSetsExt

CONSTANTS Texts,      \* the texts
          Sizes,      \* max_chunk_size, chunk_size
          Overlaps,   \* overlap, chunk_overlap
          Modulus,    \* of size_t
          Methods     \* which of "ingest", "window", "paragraph", "rag"

VARIABLES method, text, size, overlap,
          pos,        \* where the loop is
          start,      \* "paragraph": where the current chunk starts
          chunk,      \* the last chunk, [from, to]; the ones before it are not kept
          finished

vars == <<method, text, size, overlap, pos, start, chunk, finished>>
inputs == <<method, text, size, overlap>>

Init == /\ method \in Methods /\ text \in Texts /\ size \in Sizes /\ overlap \in Overlaps
        /\ pos = 0 /\ start = 0 /\ chunk = [from |-> -1, to |-> 0] /\ finished = FALSE

------------------------------------------------------------------------------
Min2(a, b) == IF a < b THEN a ELSE b
Char(p) == text[p + 1]

\* rfind: the last place up to p where the text has the character, or -1.
LastOf(c, p) == Max({-1} \cup {q \in 0 .. Min2(p, Len(text) - 1) : Char(q) = c})

Emit(from, to) == chunk' = [from |-> from, to |-> to]

\* chunk_text, FixedSize: up to the last full stop if that is in the second
\* half; then back by the overlap, but not to where this chunk began.
IngestEnd == LET full == Min2(pos + size, Len(text))
                 stop == LastOf(".", full)
             IN  IF full < Len(text) /\ stop > pos + size \div 2 THEN stop + 1 ELSE full

IngestNextUnchecked(end) == IF end > overlap THEN end - overlap ELSE end   \* mutant of IngestNext

IngestNext(end) == LET next == IF end > overlap THEN end - overlap ELSE end
                   IN  IF next <= pos THEN end ELSE next

IngestChunk == /\ method = "ingest" /\ pos < Len(text)
               /\ Emit(pos, IngestEnd)
               /\ pos' = IngestNext(IngestEnd)
               /\ UNCHANGED <<start, finished>>

\* chunk_text of the adapters, Fixed and Sliding: a window moved by size_t
\* arithmetic until it reaches the end.
WindowEnd == pos + Min2(size, Len(text) - pos)
WindowChunk == /\ method = "window" /\ pos < Len(text)
               /\ Emit(pos, WindowEnd)
               /\ finished' = (WindowEnd >= Len(text))
               /\ pos' = (pos + size - overlap) % Modulus
               /\ UNCHANGED start

LongEnoughOnly(last) == last + 1 - start > size   \* mutant of Full: an off-by-one
Full(last) == last + 1 - start >= size

\* Paragraph: character by character, a chunk ends where it is long enough, at
\* a paragraph boundary or not, and at a boundary just before the end.
ParagraphChar ==
    LET boundary == pos + 1 < Len(text) /\ Char(pos) = "\n" /\ Char(pos + 1) = "\n"
        ends == Full(pos) \/ (boundary /\ pos + 2 >= Len(text))
    IN  /\ method = "paragraph" /\ pos < Len(text)
        /\ IF ends THEN Emit(start, pos + 1) /\ start' = pos + 1 ELSE UNCHANGED <<chunk, start>>
        /\ pos' = pos + 1
        /\ UNCHANGED finished

ParagraphRestLost ==   \* mutant of ParagraphRest: what is left at the end is dropped
    /\ method = "paragraph" /\ pos = Len(text) /\ start < Len(text)
    /\ start' = Len(text)
    /\ UNCHANGED <<pos, chunk, finished>>

ParagraphRest == /\ method = "paragraph" /\ pos = Len(text) /\ start < Len(text)
                 /\ Emit(start, Len(text))
                 /\ start' = Len(text)
                 /\ UNCHANGED <<pos, finished>>

\* chunk_fixed of RAGEngine: up to the last space; then back by the overlap,
\* at most to where this chunk began.
RagEnd == LET full == Min2(pos + size, Len(text))
              space == LastOf(" ", full)
          IN  IF full < Len(text) /\ space > pos THEN space + 1 ELSE full

RagChunk == /\ method = "rag" /\ pos < Len(text)
            /\ Emit(pos, RagEnd)
            /\ pos' = IF overlap > 0 /\ RagEnd < Len(text)
                      THEN RagEnd - Min2(overlap, RagEnd - pos) ELSE RagEnd
            /\ UNCHANGED <<start, finished>>

Done == /\ pos >= Len(text) /\ (method = "paragraph" => start = Len(text))
        /\ finished' = TRUE
        /\ UNCHANGED <<pos, start, chunk>>

Next == /\ ~finished
        /\ IngestChunk \/ WindowChunk \/ ParagraphChar \/ ParagraphRest \/ RagChunk \/ Done
        /\ UNCHANGED inputs

Spec == Init /\ [][Next]_vars /\ WF_vars(Next)

------------------------------------------------------------------------------
\* Each chunk begins after the one before it did, at its end at the latest, and
\* the last one ends with the text: no character is left out of the chunks.
NothingSkipped ==
    [][/\ chunk' # chunk => chunk.from < chunk'.from /\ chunk'.from <= chunk.to
       /\ finished' => chunk'.to = Len(text)]_vars

\* No chunk is empty or longer than configured; only a chunk that ends behind a
\* full stop or a space may be longer by that one character.
SizesKept == LET n == chunk.to - chunk.from
             IN  chunk.from >= 0 =>
                     /\ n > 0
                     /\ n <= size \/ (n = size + 1 /\ Char(chunk.to - 1) \in {".", " "})

\* Every text is cut up some time.
Terminates == <>finished
===============================================================================
