------------------------------ MODULE RagEngine ------------------------------
(***************************************************************************)
(* RAGEngine (src/framework/rag_engine.cpp): chunk_document by sentences,  *)
(* by paragraphs and recursively (chunk_fixed alone is in Chunking), and   *)
(* the token budget of build_context.                                      *)
(*                                                                         *)
(* A character is a pair: a letter, space, full stop or newline, and its   *)
(* place in the document, 0 for the separators that are put in.  Of a      *)
(* search result only the score and the number of tokens count.            *)
(***************************************************************************)
EXTENDS Integers, SequencesExt, FiniteSetsExt

CONSTANTS Documents,           \* sequences of "x", " ", "." and "\n"
          chunk_size, chunk_overlap,
          Queries,             \* numbers of tokens
          ResultLists,         \* sequences of [score, tokens], best score first
          relevance_threshold, max_context_length,
          MinTokens,           \* what is worth cutting a document for, 50 in the code
          Modulus              \* of size_t

VARIABLES strategy,    \* chunking_strategy, or "context" in build_context
          document, paragraphs, sentences, current, chunks,
          results, current_tokens, retrieved, query,
          done

texts == <<document, paragraphs, sentences, current, chunks>>
context == <<results, current_tokens, retrieved, query>>
vars == <<strategy, texts, context, done>>

------------------------------------------------------------------------------
Is(ch, kinds) == ch[1] \in kinds
Blank == {" ", "\n"}
Slice(t, from, to) == SubSeq(t, from, to - 1)   \* without t[to]

\* The first place from p on with (or without) one of the kinds.
Find(t, p, kinds) == Min({Len(t) + 1} \cup {q \in p .. Len(t) : Is(t[q], kinds)})
FindOther(t, p, kinds) == Min({Len(t) + 1} \cup {q \in p .. Len(t) : ~Is(t[q], kinds)})

Trim(t) == LET ink == {q \in DOMAIN t : ~Is(t[q], Blank)}
           IN  IF ink = {} THEN <<>> ELSE SubSeq(t, Min(ink), Max(ink))

\* Where the matches of [^.!?]+[.!?]+ from p on begin and end.
RECURSIVE Matches(_, _)
Matches(t, p) == LET from == FindOther(t, p, {"."})
                     stop == Find(t, from, {"."})
                     to == FindOther(t, stop, {"."})
                 IN  IF stop > Len(t) THEN <<>> ELSE <<<<from, to>>>> \o Matches(t, to)

\* split_sentences: the matches and what is left behind the last of them.
split_sentences(t) ==
    LET found == Matches(t, 1)
        rest == IF found = <<>> THEN 1 ELSE Last(found)[2]
    IN  SelectSeq([n \in DOMAIN found |-> Trim(Slice(t, found[n][1], found[n][2]))]
                      \o <<Trim(SubSeq(t, rest, Len(t)))>>,
                  LAMBDA s : s # <<>>)

\* The lines of a text that are not blank.
RECURSIVE LinesFrom(_, _)
LinesFrom(t, p) == IF p > Len(t) THEN <<>>
                   ELSE LET end == Find(t, p, {"\n"})
                        IN  <<Slice(t, p, end)>> \o LinesFrom(t, end + 1)
Lines(t) == SelectSeq(LinesFrom(t, 1), LAMBDA l : Trim(l) # <<>>)

\* chunk_fixed, from p on.
RECURSIVE chunk_fixed(_, _)
chunk_fixed(t, p) ==
    IF p > Len(t) THEN <<>>
    ELSE LET full == Min({p + chunk_size, Len(t) + 1})
             space == Max({0} \cup {q \in 1 .. Min({full, Len(t)}) : Is(t[q], {" "})})
             end == IF full <= Len(t) /\ space > p THEN space + 1 ELSE full
             back == IF end <= Len(t) THEN Min({chunk_overlap, end - p}) ELSE 0
         IN  <<Slice(t, p, end)>> \o chunk_fixed(t, end - back)

------------------------------------------------------------------------------
Text(d) == [p \in DOMAIN d |-> <<d[p], p>>]

Init == /\ done = FALSE /\ current = <<>> /\ chunks = <<>> /\ retrieved = <<>>
        /\ \/ /\ strategy \in {"sentence", "paragraph", "recursive"}
              /\ document \in {Text(d) : d \in Documents \ {<<>>}}
              /\ paragraphs = IF strategy = "sentence" THEN <<>> ELSE Lines(document)
              /\ sentences = IF strategy = "sentence" THEN split_sentences(document) ELSE <<>>
              /\ query = 0 /\ results = <<>> /\ current_tokens = 0
           \/ /\ strategy = "context"
              /\ document = <<>> /\ paragraphs = <<>> /\ sentences = <<>>
              /\ query \in Queries /\ current_tokens = query
              /\ \E list \in ResultLists :
                    results = SelectSeq(list, LAMBDA r : r.score >= relevance_threshold)

------------------------------------------------------------------------------
(* Sentences or paragraphs are gathered while they fit.                    *)

Gather(piece, separator) ==
    IF current = <<>> THEN current' = piece /\ UNCHANGED chunks
    ELSE IF Len(current) + Len(piece) + Len(separator) <= chunk_size
    THEN current' = current \o separator \o piece /\ UNCHANGED chunks
    ELSE chunks' = Append(chunks, current) /\ current' = piece

AddSentence ==
    /\ sentences # <<>>
    /\ sentences' = Tail(sentences)
    /\ strategy = "recursive" => Len(Head(sentences)) <= chunk_size
    /\ Gather(Head(sentences), <<<<" ", 0>>>>)
    /\ UNCHANGED <<strategy, document, paragraphs, context, done>>

AddParagraph ==
    /\ strategy = "paragraph" /\ paragraphs # <<>>
    /\ paragraphs' = Tail(paragraphs)
    /\ Gather(Head(paragraphs), <<<<"\n", 0>>, <<"\n", 0>>>>)
    /\ UNCHANGED <<strategy, document, sentences, context, done>>

CutSentenceAfter(gathered) ==
    /\ strategy = "recursive" /\ sentences # <<>> /\ Len(Head(sentences)) > chunk_size
    /\ sentences' = Tail(sentences)
    /\ chunks' = chunks \o gathered \o chunk_fixed(Head(sentences), 1)
    /\ current' = IF gathered = <<>> THEN current ELSE <<>>
    /\ UNCHANGED <<strategy, document, paragraphs, context, done>>

CutSentenceFirst == CutSentenceAfter(<<>>)   \* mutant of CutSentence: what was gathered comes later

\* A sentence too long to gather, after what was gathered.
CutSentence == CutSentenceAfter(IF current = <<>> THEN <<>> ELSE <<current>>)

SplitParagraph ==
    /\ strategy = "recursive" /\ sentences = <<>> /\ current = <<>> /\ paragraphs # <<>>
    /\ paragraphs' = Tail(paragraphs)
    /\ IF Len(Head(paragraphs)) <= chunk_size
       THEN chunks' = Append(chunks, Head(paragraphs)) /\ UNCHANGED sentences
       ELSE sentences' = split_sentences(Head(paragraphs)) /\ UNCHANGED chunks
    /\ UNCHANGED <<strategy, document, current, context, done>>

\* What is gathered at the end, of a paragraph or of the document.
Flush ==
    /\ strategy # "context" /\ sentences = <<>> /\ current # <<>>
    /\ strategy = "recursive" \/ paragraphs = <<>>
    /\ chunks' = Append(chunks, current) /\ current' = <<>>
    /\ UNCHANGED <<strategy, document, paragraphs, sentences, context, done>>

Chunked == /\ strategy # "context" /\ sentences = <<>> /\ paragraphs = <<>> /\ current = <<>>
           /\ ~done /\ done' = TRUE
           /\ UNCHANGED <<strategy, texts, context>>

------------------------------------------------------------------------------
(* build_context: documents while they fit, then part of one.              *)

RetrieveWithin(bound) ==
    /\ strategy = "context" /\ ~done /\ results # <<>>
    /\ LET tokens == Head(results).tokens
           available == (max_context_length - current_tokens + Modulus) % Modulus
       IN  IF current_tokens + tokens <= bound
           THEN /\ retrieved' = Append(retrieved, tokens)
                /\ current_tokens' = current_tokens + tokens
                /\ results' = Tail(results) /\ UNCHANGED done
           ELSE /\ done' = TRUE /\ UNCHANGED results
                /\ IF available > MinTokens
                   THEN /\ retrieved' = Append(retrieved, available)
                        /\ current_tokens' = (current_tokens + available) % Modulus
                   ELSE UNCHANGED <<retrieved, current_tokens>>
    /\ UNCHANGED <<strategy, texts, query>>

\* mutant of Retrieve: the query does not count
RetrieveBesides == RetrieveWithin(max_context_length + query)

Retrieve == RetrieveWithin(max_context_length)

Retrieved == /\ strategy = "context" /\ ~done /\ results = <<>> /\ done' = TRUE
             /\ UNCHANGED <<strategy, texts, context>>

Next == \/ AddSentence \/ AddParagraph \/ CutSentence \/ SplitParagraph \/ Flush \/ Chunked
        \/ Retrieve \/ Retrieved

Spec == Init /\ [][Next]_vars

------------------------------------------------------------------------------
TypeOK == /\ strategy \in {"sentence", "paragraph", "recursive", "context"}
          /\ current_tokens \in 0 .. Modulus - 1 /\ done \in BOOLEAN

Letters(t) == SelectSeq(t, LAMBDA ch : ch[1] = "x")

\* Whatever a document looks like: its letters are in the chunks once and in
\* order (without an overlap).
NoLetterLost == chunk_overlap = 0 /\ strategy # "context" /\ done
                   => FlattenSeq([c \in DOMAIN chunks |-> Letters(chunks[c])]) = Letters(document)

\* Two sentences or paragraphs share a chunk only where they fit; cut
\* recursively, no chunk is longer than configured by more than the space it
\* ends with.
ChunksFit ==
    \A c \in DOMAIN chunks :
       LET chunk == chunks[c]
           joints == {q \in DOMAIN chunk : chunk[q][2] = 0}
       IN  /\ joints # {} => Len(chunk) <= chunk_size
           /\ strategy = "recursive" =>
                 Len(chunk) <= chunk_size \/ (Len(chunk) = chunk_size + 1 /\ Is(chunk[Len(chunk)], {" "}))

\* A context whose query leaves room stays within the limit; where it leaves
\* none, at most one document is taken.
BudgetKept ==
    strategy = "context" => IF query <= max_context_length
                            THEN current_tokens <= max_context_length
                            ELSE Len(retrieved) <= 1
==============================================================================
