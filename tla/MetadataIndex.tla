----------------------------- MODULE MetadataIndex -----------------------------
(***************************************************************************)
(* MetadataIndex (src/index/metadata_index.cpp, include/vdb/index/         *)
(* metadata_index.hpp): for each indexed field the documents of each value *)
(* and, in a numeric field, of each number, kept by a caller that reports  *)
(* its inserts, updates and removals, and saved to a file.                 *)
(*                                                                         *)
(* A value is a model value; Number says which values std::stod takes for  *)
(* the same number, or None where it throws.                               *)
(***************************************************************************)
EXTENDS Integers

CONSTANTS Ids, Fields, NumericFields, Values, None,
          Number    \* value -> number or None

VARIABLES
    indices,  \* field -> [postings, numeric] or None
    file,     \* field -> postings or None; NoFile
    metadata, \* what the caller last reported: id -> (field -> value or None), or None
    covered,  \* history: field -> the ids reported since its index was made
    loaded    \* history: were the indices read from a file?

vars == <<indices, file, metadata, covered, loaded>>

Numbers == {Number[v] : v \in Values} \ {None}
Metadata == [Fields -> Values \cup {None}]
NoFile == [f \in {} |-> None]

Empty == [postings |-> [v \in Values |-> {}], numeric |-> [n \in Numbers |-> {}]]

Init == /\ indices = [f \in Fields |-> None]
        /\ file = NoFile
        /\ metadata = [i \in Ids |-> None]
        /\ covered = [f \in Fields |-> {}]
        /\ loaded = FALSE

------------------------------------------------------------------------------
Indexed == {f \in Fields : indices[f] # None}

\* create_index, which looks at no document, and drop_index.
CreateIndex(f) ==
    /\ f \notin Indexed
    /\ indices' = [indices EXCEPT ![f] = Empty]
    /\ covered' = [covered EXCEPT ![f] = {}]
    /\ UNCHANGED <<file, metadata, loaded>>

DropIndex(f) ==
    /\ f \in Indexed
    /\ indices' = [indices EXCEPT ![f] = None]
    /\ UNCHANGED <<file, metadata, covered, loaded>>

\* insert and remove, on one field: an empty value is not indexed, and only
\* what is a number goes to the numeric index.
Inserted(index, f, i, v) ==
    IF v = None THEN index
    ELSE [postings |-> [index.postings EXCEPT ![v] = @ \cup {i}],
          numeric |-> IF f \in NumericFields /\ Number[v] # None
                      THEN [index.numeric EXCEPT ![Number[v]] = @ \cup {i}] ELSE index.numeric]

RemovedOnce(index, f, i, v) ==   \* mutant of Removed: the number goes with its last spelling
    IF v = None THEN index
    ELSE [postings |-> [index.postings EXCEPT ![v] = @ \ {i}],
          numeric |-> IF f \in NumericFields /\ Number[v] # None /\ index.postings[v] = {i}
                      THEN [index.numeric EXCEPT ![Number[v]] = {}] ELSE index.numeric]

Removed(index, f, i, v) ==
    IF v = None THEN index
    ELSE [postings |-> [index.postings EXCEPT ![v] = @ \ {i}],
          numeric |-> IF f \in NumericFields /\ Number[v] # None
                      THEN [index.numeric EXCEPT ![Number[v]] = @ \ {i}] ELSE index.numeric]

Insert(i, m) ==
    /\ metadata[i] = None
    /\ indices' = [f \in Fields |-> IF f \in Indexed THEN Inserted(indices[f], f, i, m[f]) ELSE None]
    /\ metadata' = [metadata EXCEPT ![i] = m]
    /\ covered' = [f \in Fields |-> covered[f] \cup {i}]
    /\ UNCHANGED <<file, loaded>>

UpdateBlind(i, m) ==   \* mutant of Update: the old values are not removed
    /\ metadata[i] # None /\ metadata[i] # m
    /\ indices' = [f \in Fields |-> IF f \in Indexed THEN Inserted(indices[f], f, i, m[f]) ELSE None]
    /\ metadata' = [metadata EXCEPT ![i] = m]
    /\ covered' = [f \in Fields |-> covered[f] \cup {i}]
    /\ UNCHANGED <<file, loaded>>

\* update removes what the caller says was there and inserts the new values.
Update(i, m) ==
    LET Old(f) == Removed(indices[f], f, i, metadata[i][f])
    IN  /\ metadata[i] # None /\ metadata[i] # m
        /\ indices' = [f \in Fields |-> IF f \in Indexed THEN Inserted(Old(f), f, i, m[f]) ELSE None]
        /\ metadata' = [metadata EXCEPT ![i] = m]
        /\ covered' = [f \in Fields |-> covered[f] \cup {i}]
        /\ UNCHANGED <<file, loaded>>

Remove(i) ==
    /\ metadata[i] # None
    /\ indices' = [f \in Fields |-> IF f \in Indexed
                                    THEN Removed(indices[f], f, i, metadata[i][f]) ELSE None]
    /\ metadata' = [metadata EXCEPT ![i] = None]
    /\ UNCHANGED <<file, covered, loaded>>

\* save keeps the postings (the caller, its documents) ...
Save ==
    /\ file' = [postings |-> [f \in Indexed |-> indices[f].postings],
                metadata |-> metadata, covered |-> covered]
    /\ UNCHANGED <<indices, metadata, covered, loaded>>

Spellings(postings, n) == {v \in Values : Number[v] = n /\ postings[v] # {}}

\* ... and load numbers them again, value by value in the order of a hash
\* table; the last spelling of a number replaces the ones before it.
NumericIndexes(f, postings) ==
    {numeric \in [Numbers -> SUBSET Ids] :
        \A n \in Numbers : IF f \in NumericFields /\ Spellings(postings, n) # {}
                           THEN \E v \in Spellings(postings, n) : numeric[n] = postings[v]
                           ELSE numeric[n] = {}}

Load ==
    /\ file # NoFile
    /\ \E numeric \in [DOMAIN file.postings -> [Numbers -> SUBSET Ids]] :
          /\ \A f \in DOMAIN numeric : numeric[f] \in NumericIndexes(f, file.postings[f])
          /\ indices' = [f \in Fields |-> IF f \in DOMAIN numeric
                                         THEN [postings |-> file.postings[f], numeric |-> numeric[f]] ELSE None]
    /\ metadata' = file.metadata
    /\ covered' = file.covered
    /\ loaded' = TRUE
    /\ UNCHANGED file

Next == \/ \E f \in Fields : CreateIndex(f) \/ DropIndex(f)
        \/ \E i \in Ids : Remove(i) \/ \E m \in Metadata : Insert(i, m) \/ Update(i, m)
        \/ Save \/ Load

Spec == Init /\ [][Next]_vars

------------------------------------------------------------------------------
\* query: an operation of any other kind (NotEqual, NotIn, Contains,
\* StartsWith) is answered with no document.
Exact(f, v) == IF f \in Indexed THEN indices[f].postings[v] ELSE {}
Within(f, fitting) == IF f \in Indexed \cap NumericFields
                      THEN UNION {indices[f].numeric[n] : n \in fitting} ELSE {}

Query(c) ==
    CASE c.op = "Equal" -> Exact(c.field, c.value)
      [] c.op = "LessThan" -> Within(c.field, {n \in Numbers : n < c.bound})
      [] c.op = "GreaterOrEqual" -> Within(c.field, {n \in Numbers : n >= c.bound})
      [] OTHER -> {}

\* query_and and query_or, of the answers to their conditions; without conditions
\* no document passes.
QueryAnd(answers) == {i \in UNION answers : \A passing \in answers : i \in passing}

QueryOr(answers) == UNION answers

------------------------------------------------------------------------------
Conditions == [op : {"Equal"}, field : Fields, value : Values]
              \cup [op : {"LessThan", "GreaterOrEqual"}, field : NumericFields,
                 bound : UNION {{n, n + 1} : n \in Numbers}]

TypeOK == /\ \A f \in Indexed : /\ indices[f].postings \in [Values -> SUBSET Ids]
                                /\ indices[f].numeric \in [Numbers -> SUBSET Ids]
                                /\ \A v, w \in Values : v # w => indices[f].postings[v] \cap indices[f].postings[w] = {}
          /\ metadata \in [Ids -> Metadata \cup {None}]

\* Whether a document the index was told of meets a condition.
Meets(i, c) ==
    LET v == metadata[i][c.field]
    IN  /\ metadata[i] # None /\ i \in covered[c.field] /\ v # None
        /\ \/ c.op = "Equal" /\ v = c.value
           \/ c.op # "Equal" /\ Number[v] # None
              /\ IF c.op = "LessThan" THEN Number[v] < c.bound ELSE Number[v] >= c.bound

\* The condition is on numbers, which were read from a file, and the document
\* shares its number with one that spells it differently: load may miss it.
Misspelt(i, c) ==
    /\ loaded /\ c.op # "Equal"
    /\ \E v \in Values : v # metadata[i][c.field] /\ Number[v] = Number[metadata[i][c.field]]

\* A filter lets exactly those documents pass that meet its conditions, both or
\* either, as they were last reported, through changes of spelling, indices made
\* late, dropped and made again, saves and loads; after a load, a document whose
\* number has two spellings may be missing from it.
FiltersExact ==
    LET answer  == [c \in Conditions |-> Query(c)]
        fitting == [c \in Conditions |-> {i \in Ids : Meets(i, c)}]
    IN  \A c, d \in Conditions : {c.field, d.field} \subseteq Indexed =>
            LET both      == fitting[c] \cap fitting[d]
                either    == fitting[c] \cup fitting[d]
                passing   == QueryAnd({answer[c], answer[d]})
                anyPasses == QueryOr({answer[c], answer[d]})
            IN  /\ passing \subseteq both /\ anyPasses \subseteq either
                /\ \A i \in (both \ passing) \cup (either \ anyPasses) : Misspelt(i, c) \/ Misspelt(i, d)
================================================================================
