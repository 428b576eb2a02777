----------------------------- MODULE HybridSearch ----------------------------
(***************************************************************************)
(* The text search and its fusion with the vector search (src/hybrid).     *)
(*                                                                         *)
(* BM25Engine (bm25_engine.cpp): an inverted index over the terms of       *)
(* documents with the counts that scores are computed from, and the text   *)
(* file save writes and load indexes again.  A content is a model value;   *)
(* what process_text makes of it, and what escaping and unescaping its     *)
(* newlines makes of it, are constants.                                    *)
(*                                                                         *)
(* HybridSearchEngine::combine (hybrid_search_engine.cpp): the ranked      *)
(* answers of a vector search and of a text search are fused by one of     *)
(* five methods.  Scores are whole numbers, and a fused score is the       *)
(* code's times a positive factor common to all documents.                 *)
(*                                                                         *)
(* KeywordExtractor and QueryRewriter (bm25_engine.cpp): the tools beside  *)
(* the engine.  For them a text is a sequence of words.                    *)
(***************************************************************************)
EXTENDS Integers, SequencesExt, FiniteSetsExt

CONSTANTS Ids, Contents, Terms, None,
          Words,    \* process_text: content -> term -> how often it occurs
          Reread,   \* content -> what save and load make of it
          Cut       \* content -> what its line may be cut short to

VARIABLES engine,   \* the engine's maps and counters
          file      \* id -> content, or NoFile

engineVars == <<engine, file>>
NoFile == [i \in {} |-> None]

\* A freshly constructed engine.
Fresh == [documents |-> [i \in Ids |-> None],
          postings |-> [t \in Terms |-> <<>>],
          frequency |-> [t \in Terms |-> 0],
          total_documents |-> 0, total_terms |-> 0]

EngineInit == engine = Fresh /\ file = NoFile

------------------------------------------------------------------------------
TermsOf(c) == {t \in Terms : Words[c][t] > 0}
Tokens(c) == UNION {{t} \X (1 .. Words[c][t]) : t \in Terms}   \* the first, second, ... of each term
Length(c) == Cardinality(Tokens(c))

\* add_document refuses an id in use and a content without terms.
Addable(e, i, c) == e.documents[i] = None /\ TermsOf(c) # {}

WithOnce(e, i, c) ==   \* mutant of With: the occurrences are counted once
    [documents |-> [e.documents EXCEPT ![i] = c],
     postings |-> [t \in Terms |-> IF t \in TermsOf(c) THEN Append(e.postings[t], <<i, Words[c][t]>>)
                                                       ELSE e.postings[t]],
     frequency |-> [t \in Terms |-> e.frequency[t] + IF t \in TermsOf(c) THEN 1 ELSE 0],
     total_documents |-> e.total_documents + 1,
     total_terms |-> e.total_terms + Cardinality(TermsOf(c))]

\* add_document
With(e, i, c) ==
    [documents |-> [e.documents EXCEPT ![i] = c],
     postings |-> [t \in Terms |-> IF t \in TermsOf(c) THEN Append(e.postings[t], <<i, Words[c][t]>>)
                                                       ELSE e.postings[t]],
     frequency |-> [t \in Terms |-> e.frequency[t] + IF t \in TermsOf(c) THEN 1 ELSE 0],
     total_documents |-> e.total_documents + 1,
     total_terms |-> e.total_terms + Length(c)]

\* A term's postings but those of a document.
Dropped(list, i) ==
    LET Kept[n \in 0 .. Len(list)] ==
            IF n = 0 THEN <<>>
            ELSE IF list[n][1] = i THEN Kept[n - 1] ELSE Append(Kept[n - 1], list[n])
    IN  Kept[Len(list)]

\* remove_document: a term leaves the index with its last document.
Without(e, i) ==
    LET c == e.documents[i]
        Left(t) == e.frequency[t] - 1
    IN  [documents |-> [e.documents EXCEPT ![i] = None],
         postings |-> [t \in Terms |-> IF t \notin TermsOf(c) THEN e.postings[t]
                                       ELSE IF Left(t) = 0 THEN <<>> ELSE Dropped(e.postings[t], i)],
         frequency |-> [t \in Terms |-> IF t \in TermsOf(c) THEN Left(t) ELSE e.frequency[t]],
         total_documents |-> e.total_documents - 1,
         total_terms |-> e.total_terms - Length(c)]

FoundEvery(e, query) ==   \* mutant of Found: only documents with every term
    {i \in Ids : \A t \in query : \E p \in Range(e.postings[t]) : p[1] = i}

\* search: the documents of the postings of a query's terms (their scores are
\* positive, so min_score 0 keeps them all).
Found(e, query) == {p[1] : p \in UNION {Range(e.postings[t]) : t \in query}}

AddDocument(i, c) == Addable(engine, i, c) /\ engine' = With(engine, i, c) /\ UNCHANGED file

RemoveDocument(i) ==
    engine.documents[i] # None /\ engine' = Without(engine, i) /\ UNCHANGED file

\* update_document removes the document first: when the new content has no
\* terms an error is answered and the document is gone.
UpdateDocument(i, c) ==
    LET cleared == IF engine.documents[i] = None THEN engine ELSE Without(engine, i)
    IN  /\ engine' = IF TermsOf(c) # {} THEN With(cleared, i, c) ELSE cleared
        /\ UNCHANGED file

\* save rewrites the file in place and does not test the stream: a full disk
\* or a crash leaves some of the documents, the last of them perhaps in part.
Save == file' = engine.documents /\ UNCHANGED engine
SaveInPart ==
    \E lost \in (SUBSET Ids) \ {{}} : \E last \in lost :
        /\ \E rest \in {None} \cup IF engine.documents[last] = None THEN {} ELSE Cut[engine.documents[last]] :
              file' = [i \in Ids |-> IF i = last THEN rest
                                     ELSE IF i \in lost THEN None ELSE engine.documents[i]]
        /\ UNCHANGED engine

InFile == {i \in DOMAIN file : file[i] # None}

\* load gives up at a document that add_document refuses.
Loadable == \A i \in InFile : TermsOf(Reread[file[i]]) # {}

\* load: a new engine, into which the file's documents are added.
Rebuilt == LET Read[S \in SUBSET InFile] ==
                   IF S = {} THEN Fresh
                   ELSE LET i == CHOOSE i \in S : TRUE IN With(Read[S \ {i}], i, Reread[file[i]])
           IN  Read[InFile]
Load == /\ file # NoFile /\ Loadable
        /\ engine' = Rebuilt
        /\ UNCHANGED file

Restart == engine' = Fresh /\ UNCHANGED file

EngineNext == \/ \E i \in Ids, c \in Contents : AddDocument(i, c) \/ UpdateDocument(i, c)
              \/ \E i \in Ids : RemoveDocument(i)
              \/ Save \/ SaveInPart \/ Load \/ Restart

EngineSpec == EngineInit /\ [][EngineNext]_engineVars

------------------------------------------------------------------------------
\* The documents that are there, and those among them that hold a term.
Present == {i \in Ids : engine.documents[i] # None}
Holding(t) == {i \in Present : t \in TermsOf(engine.documents[i])}

\* The postings, document frequencies and totals that search and its scores
\* rest on are those of the documents, after any updates, refused ones too,
\* and loads: each document once under each of its terms.  (Otherwise search
\* throws at documents.at or document_frequency.at, or scores wrongly.)
IndexMirrors ==
    /\ engine.total_documents = Cardinality(Present)
    /\ engine.total_terms = Cardinality(UNION {{i} \X Tokens(engine.documents[i]) : i \in Present})
    /\ \A t \in Terms :
          /\ engine.frequency[t] = Cardinality(Holding(t))
          /\ Len(engine.postings[t]) = Cardinality(Holding(t))
          /\ Range(engine.postings[t]) = {<<i, Words[engine.documents[i]][t]>> : i \in Holding(t)}

\* A load answers each query with the saved documents that match it, except
\* for a document that held a backslash before an n.
LoadFindsWhatWasSaved ==
    Load => \A q \in SUBSET Terms : \A i \in InFile :
        Reread[file[i]] = file[i] => (i \in Found(engine', q) <=> q \cap TermsOf(file[i]) # {})

------------------------------------------------------------------------------
(* Fusion.                                                                 *)

CONSTANTS Documents,
          VectorScores, LexicalScores,   \* 1 - distance, perhaps negative; BM25's, positive
          MaxResults,    \* bound: the length of a list
          RrfK, VectorWeight, LexicalWeight   \* HybridSearchConfig

VARIABLES vector_results, lexical_results, \* <<[id, score], ...>>, best first
          fusion, combined                  \* the method, and id -> combined_score

fusionVars == <<vector_results, lexical_results, fusion, combined>>

Nothing == [i \in {} |-> 0]

\* What the two searches answer: each document once, the better the earlier.
Ranked(list) == \A i, j \in DOMAIN list : i < j => /\ list[i].score >= list[j].score
                                                   /\ list[i].id # list[j].id
Lists(scores) ==
    {list \in UNION {[1 .. n -> [id : Documents, score : scores]] : n \in 0 .. MaxResults} : Ranked(list)}

FusionInit == /\ vector_results \in Lists(VectorScores) /\ lexical_results \in Lists(LexicalScores)
              /\ fusion = "none" /\ combined = Nothing

------------------------------------------------------------------------------
IdsOf(list) == {list[n].id : n \in DOMAIN list}
Rank(list, i) == CHOOSE n \in DOMAIN list : list[n].id = i

\* A document that one search did not find has score 0 there.
Score(list, i) == IF i \in IdsOf(list) THEN list[Rank(list, i)].score ELSE 0
FoundByAny == IdsOf(vector_results) \cup IdsOf(lexical_results)

\* The largest score, from 0 up, and 1 where that is 0.
Top(list) == LET top == Max({Score(list, i) : i \in IdsOf(list)} \cup {0})
             IN  IF top = 0 THEN 1 ELSE top

\* apply_rrf_fusion, times the product of all denominators.
Rrf(i) == LET all == ProductSet({RrfK + n : n \in 1 .. MaxResults})
              Gain(list) == IF i \in IdsOf(list) THEN all \div (RrfK + Rank(list, i)) ELSE 0
          IN  Gain(vector_results) + Gain(lexical_results)

\* apply_weighted_sum_fusion and apply_combsum_fusion, times both top scores.
Weighted(i, v, l) == v * Score(vector_results, i) * Top(lexical_results)
                     + l * Score(lexical_results, i) * Top(vector_results)

\* "number of systems that returned the document": with a score above 0.
Systems(i) == Cardinality({list \in {1, 2} :
                             Score(IF list = 1 THEN vector_results ELSE lexical_results, i) > 0})

BordaFromTop(i) ==   \* mutant of Borda: the rank itself is added
    LET Gain(list) == IF i \in IdsOf(list) THEN Rank(list, i) - 1 ELSE 0
    IN  Gain(vector_results) + Gain(lexical_results)

\* apply_borda_fusion
Borda(i) ==
    LET Gain(list) == IF i \in IdsOf(list) THEN Len(list) - (Rank(list, i) - 1) ELSE 0
    IN  Gain(vector_results) + Gain(lexical_results)

Fused(method, i) == CASE method = "RRF" -> Rrf(i)
                      [] method = "WeightedSum" -> Weighted(i, VectorWeight, LexicalWeight)
                      [] method = "CombSUM" -> Weighted(i, 1, 1)
                      [] method = "CombMNZ" -> Weighted(i, 1, 1) * Systems(i)
                      [] method = "Borda" -> Borda(i)

Combine(method) == /\ fusion = "none"
                   /\ fusion' = method
                   /\ combined' = [i \in FoundByAny |-> Fused(method, i)]
                   /\ UNCHANGED <<vector_results, lexical_results>>

FusionNext == \E method \in {"RRF", "WeightedSum", "CombSUM", "CombMNZ", "Borda"} : Combine(method)

FusionSpec == FusionInit /\ [][FusionNext]_fusionVars

------------------------------------------------------------------------------
\* In this list a comes before b, or b is not found at all.
Leads(list, a, b) ==
    b \in IdsOf(list) => a \in IdsOf(list) /\ Rank(list, a) < Rank(list, b)

\* A document that both searches place before another (or that only it was
\* found by) is not placed after it by any fusion.  The methods that compute
\* with scores need them not to be negative, as 1 - distance is for a distant
\* vector: there, not to be found at all, which counts 0, is better.
Unanimity ==
    \A a, b \in DOMAIN combined :
        /\ a # b /\ Leads(vector_results, a, b) /\ Leads(lexical_results, a, b)
        /\ fusion \in {"RRF", "Borda"} \/ \A i \in FoundByAny : Score(vector_results, i) >= 0
        => combined[a] >= combined[b]

------------------------------------------------------------------------------
(* KeywordExtractor and QueryRewriter.                                     *)

CONSTANTS Vocabulary,
          Lower, Stem,    \* what to_lower and stem make of a word
          Skipped,        \* words that are too short, and stop words
          Sentences,      \* texts and queries
          Corpora,        \* what an extractor is trained on: sequences of texts
          Dictionaries,   \* synonym files: sequences of lines, each a word and its synonyms
          max_expansions  \* RewriteConfig

VARIABLES extractor,      \* document_frequency, total_documents, trained
          keyword_file,   \* what save wrote of them
          synonyms        \* QueryRewriter: word -> synonyms

toolVars == <<extractor, keyword_file, synonyms>>

Untrained == [document_frequency |-> [w \in Vocabulary |-> 0], total_documents |-> 0, trained |-> FALSE]

ToolsInit == extractor = Untrained /\ keyword_file = Untrained /\ synonyms = [w \in {} |-> <<>>]

\* What extract and train look at of a text, and what process_text makes of it.
Spoken(text) == {Lower[w] : w \in Range(text)} \ Skipped
Stems(text) == {Stem[w] : w \in Spoken(text)}

Having(corpus, w) == {n \in DOMAIN corpus : w \in Spoken(corpus[n])}

LearnedOnTop(corpus) ==   \* mutant of Learned: earlier counts are not cleared
    [document_frequency |-> [w \in Vocabulary |-> extractor.document_frequency[w] + Cardinality(Having(corpus, w))],
     total_documents |-> Len(corpus), trained |-> TRUE]

\* train: how many of the documents have each word.
Learned(corpus) ==
    [document_frequency |-> [w \in Vocabulary |-> Cardinality(Having(corpus, w))],
     total_documents |-> Len(corpus), trained |-> TRUE]

Train(corpus) == extractor' = Learned(corpus) /\ UNCHANGED <<keyword_file, synonyms>>

\* extract: of each word how often it occurs and where first, and in how many of
\* the documents it was, if in any; the scores are made of these.
Keywords(e, text) ==
    {[term |-> w, frequency |-> Cardinality({n \in DOMAIN text : Lower[text[n]] = w}),
      first |-> Min({n \in DOMAIN text : Lower[text[n]] = w}),
      rarity |-> IF e.trained /\ e.document_frequency[w] > 0 THEN <<e.document_frequency[w], e.total_documents>>
                                                              ELSE <<>>] : w \in Spoken(text)}

\* KeywordExtractor::save writes the totals, and a line for each word that was
\* counted; it does not test the stream, and the end may be missing, perhaps from
\* the totals on.  load begins with a new extractor, where a word without a line
\* counts 0.
SaveKeywords ==
    /\ \/ keyword_file' = Untrained
       \/ \E lost \in SUBSET {w \in Vocabulary : extractor.document_frequency[w] > 0} :
              keyword_file' = [extractor EXCEPT !.document_frequency =
                                  [w \in Vocabulary |-> IF w \in lost THEN 0 ELSE @[w]]]
    /\ UNCHANGED <<extractor, synonyms>>
LoadKeywords == extractor' = keyword_file /\ UNCHANGED <<keyword_file, synonyms>>

\* add_synonym: the word is lowered, its synonyms stay as they are.
AddSynonym(w, list) ==
    /\ synonyms' = [v \in DOMAIN synonyms \cup {Lower[w]} |-> IF v = Lower[w] THEN list ELSE synonyms[v]]
    /\ UNCHANGED <<extractor, keyword_file>>

\* load_synonyms: the last line of a word counts, one without synonyms does not;
\* the synonyms are lowered as well.
LinesOf(lines, v) == {n \in DOMAIN lines : Len(lines[n]) > 1 /\ Lower[lines[n][1]] = v}
Synonyms(line) == [n \in 1 .. Len(line) - 1 |-> Lower[line[n + 1]]]
LoadSynonyms(lines) ==
    /\ synonyms' = [v \in DOMAIN synonyms \cup {v \in Vocabulary : LinesOf(lines, v) # {}} |->
                       IF LinesOf(lines, v) # {} THEN Synonyms(lines[Max(LinesOf(lines, v))]) ELSE synonyms[v]]
    /\ UNCHANGED <<extractor, keyword_file>>

\* What a word is expanded with: the first of its synonyms.
Expansion(w) ==
    LET all == IF Lower[w] \in DOMAIN synonyms THEN synonyms[Lower[w]] ELSE <<>>
    IN  SubSeq(all, 1, IF Len(all) < max_expansions THEN Len(all) ELSE max_expansions)

\* mutant of Beside: a word that has synonyms gives way to them
InPlace(w) == IF Expansion(w) # <<>> THEN Expansion(w) ELSE <<w>>

\* rewrite: after each word its stem, if that is another one, and its expansion.  (A
\* stem of one letter is left out; process_text would skip it.)
Beside(w) ==
    <<w>> \o (IF Stem[Lower[w]] = Lower[w] THEN <<>> ELSE <<Stem[Lower[w]]>>) \o Expansion(w)
Rewritten(query) == FlattenSeq([n \in DOMAIN query |-> Beside(query[n])])

ToolsNext == \/ \E corpus \in Corpora : Train(corpus)
             \/ SaveKeywords \/ LoadKeywords
             \/ \E w \in Vocabulary, list \in Sentences : AddSynonym(w, list)
             \/ \E lines \in Dictionaries : LoadSynonyms(lines)

ToolsSpec == ToolsInit /\ [][ToolsNext]_toolVars

------------------------------------------------------------------------------
\* No word is in more documents than there are, however often an extractor is
\* trained and whatever it was loaded from: the idf of a keyword is at least 1,
\* and its score does not miss min_score.
WordsAreWeighed ==
    \A text \in Sentences : \A k \in Keywords(extractor, text) :
        k.rarity # <<>> => k.rarity[1] <= k.rarity[2]

\* With the rewritten query an engine finds whatever it finds with the query, and
\* with the stem of one of its words or what that is expanded with.
RewritingFindsMore ==
    \A query \in Sentences :
        /\ Stems(query) \subseteq Stems(Rewritten(query))
        /\ \A w \in Range(query) : Stems(Expansion(w)) \subseteq Stems(Rewritten(query))
==============================================================================
