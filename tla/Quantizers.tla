------------------------------ MODULE Quantizers -----------------------------
(***************************************************************************)
(* The quantizers that are trained with vectors (src/quantization).        *)
(*                                                                         *)
(* ProductQuantizer (product_quantizer.cpp): train seeds a codebook for    *)
(* each part of the vectors and moves its centroids to the means of what   *)
(* is nearest to them; a code names the nearest centroid of each part;     *)
(* distances to a code are summed up from a table.  A part of a vector is  *)
(* one number, a multiple of every number of vectors up to MaxData, so     *)
(* that all means are whole.  Training again starts over from nothing.     *)
(*                                                                         *)
(* ScalarQuantizer (scalar_quantizer.cpp) for one dimension: a number      *)
(* becomes one of Levels + 1 codes between the least and the greatest      *)
(* number trained with.  Training again widens the range and never narrows *)
(* it: codes made before are read by the new range.  A decoded number is   *)
(* given times Scale, so that nothing is rounded but by the conversion to  *)
(* a code.                                                                 *)
(*                                                                         *)
(* Numbers are integers; what rounding does is left out.                   *)
(***************************************************************************)
EXTENDS Integers, FiniteSetsExt, SequencesExt

CONSTANTS Subs,       \* num_subquantizers
          K,          \* num_centroids
          Values,     \* the numbers in each part of a vector
          MaxData,    \* bound: vectors to train with
          Iterations  \* num_iterations

VARIABLES data,       \* training_data
          sub,        \* subq_idx
          centroids,
          iter,
          codebooks,  \* codebooks_
          trained     \* trained_

productVars == <<data, sub, centroids, iter, codebooks, trained>>

VectorsOf == {v \in [1 .. Subs -> UNION Range(Values)] : \A s \in 1 .. Subs : v[s] \in Values[s]}

ProductInit == /\ data = {} /\ sub = 0 /\ centroids = <<>> /\ iter = 0
               /\ codebooks = [s \in 1 .. Subs |-> <<>>]
               /\ trained = FALSE

------------------------------------------------------------------------------
Gap(x, y) == (x - y) * (x - y)   \* squared_euclidean

\* The first of the nearest centroids.
Nearest(book, x) ==
    CHOOSE c \in DOMAIN book :
        \A d \in DOMAIN book : \/ Gap(x, book[c]) < Gap(x, book[d])
                               \/ Gap(x, book[c]) = Gap(x, book[d]) /\ c <= d

Least(book, x) == Min({Gap(x, book[c]) : c \in DOMAIN book})

Train == /\ data = {}
         /\ \E some \in UNION {kSubset(n, VectorsOf) : n \in 1 .. MaxData} : data' = some
         /\ sub' = 1
         /\ UNCHANGED <<centroids, iter, codebooks, trained>>

\* Seeds: any vector first, then those with a distance to the seeds, in
\* proportion to it; with no distance left discrete_distribution has no weights
\* to go by and answers any vector.
Seeds == IF centroids = <<>> THEN data
         ELSE LET far == {v \in data : Least(centroids, v[sub]) > 0}
              IN  IF far = {} THEN data ELSE far

Seed == /\ sub \in 1 .. Subs /\ Len(centroids) < K
        /\ \E v \in Seeds : centroids' = Append(centroids, v[sub])
        /\ UNCHANGED <<data, sub, iter, codebooks, trained>>

Assigned(c) == {v \in data : Nearest(centroids, v[sub]) = c}
Mean(vectors) == MapThenSumSet(LAMBDA v : v[sub], vectors) \div Cardinality(vectors)

MovedByAll(c) ==   \* mutant of Moved: the sum is divided by the number of all vectors
    IF Assigned(c) = {} THEN centroids[c]
    ELSE MapThenSumSet(LAMBDA v : v[sub], Assigned(c)) \div Cardinality(data)

MovedToZero(c) ==   \* mutant of Moved: a centroid nothing is near to is not left alone
    IF Assigned(c) = {} THEN 0 ELSE Mean(Assigned(c))

\* A centroid nothing is near to stays where it is.
Moved(c) == IF Assigned(c) = {} THEN centroids[c] ELSE Mean(Assigned(c))

Iterate == /\ sub \in 1 .. Subs /\ Len(centroids) = K /\ iter < Iterations
           /\ centroids' = [c \in 1 .. K |-> Moved(c)]
           /\ iter' = iter + 1
           /\ UNCHANGED <<data, sub, codebooks, trained>>

EndSub == /\ sub \in 1 .. Subs /\ Len(centroids) = K /\ iter = Iterations
          /\ codebooks' = [codebooks EXCEPT ![sub] = centroids]
          /\ trained' = (sub = Subs)
          /\ sub' = sub + 1 /\ centroids' = <<>> /\ iter' = 0
          /\ UNCHANGED data

ProductNext == Train \/ Seed \/ Iterate \/ EndSub

ProductSpec == ProductInit /\ [][ProductNext]_productVars

------------------------------------------------------------------------------
(* What a trained quantizer answers.                                       *)

Encode(v) == [s \in 1 .. Subs |-> Nearest(codebooks[s], v[s]) - 1]
Decode(codes) == [s \in 1 .. Subs |-> codebooks[s][codes[s] + 1]]

Total(Of(_)) == FoldLeft(LAMBDA sum, s : sum + Of(s), 0, [s \in 1 .. Subs |-> s])

\* compute_distance, before its root.
DistanceTo(q, codes) == Total(LAMBDA s : Gap(q[s], codebooks[s][codes[s] + 1]))

\* precompute_distance_table: a row for each part, one after the other.
Table(q) == [p \in 0 .. Subs * K - 1 |-> Gap(q[p \div K + 1], codebooks[p \div K + 1][(p % K) + 1])]
PrecomputedBySubs(q, codes) ==   \* mutant of Precomputed: rows are Subs long
    LET table == Table(q) IN Total(LAMBDA s : table[(s - 1) * Subs + codes[s]])
Precomputed(q, codes) == LET table == Table(q) IN Total(LAMBDA s : table[(s - 1) * K + codes[s]])

------------------------------------------------------------------------------
\* A code stands for the reconstruction that is nearest among all codes; the
\* table gives the same distance as the vectors; and a reconstruction encodes
\* to itself, although centroids that nothing was near to may be there twice.
CodesAreNearest == trained =>
    \A q \in VectorsOf :
        LET own == Encode(q)
        IN  /\ \A codes \in [1 .. Subs -> 0 .. K - 1] :
                  /\ DistanceTo(q, own) <= DistanceTo(q, codes)
                  /\ Precomputed(q, codes) = DistanceTo(q, codes)
            /\ Decode(Encode(Decode(own))) = Decode(own)

\* However seeds are drawn and clusters run empty, a centroid lies among the
\* vectors trained with.
CentroidsInRange ==
    \A c \in DOMAIN centroids : LET here == {v[sub] : v \in data}
                                IN  Min(here) <= centroids[c] /\ centroids[c] <= Max(here)

\* An iteration never makes the codebook worse for the training data.
Distortion(book) == MapThenSumSet(LAMBDA v : Least(book, v[sub]), data)
DistortionFalls == Iterate => Distortion(centroids') <= Distortion(centroids)

------------------------------------------------------------------------------
(* ScalarQuantizer.                                                        *)

CONSTANTS Numbers,
          Levels  \* the greatest code, 255 in the code

VARIABLES least, greatest, \* min_values_ and max_values_, once a vector had the dimension
          ranged,          \* did one?
          rangeTrained,
          seen             \* history: the numbers trained with

scalarVars == <<least, greatest, ranged, rangeTrained, seen>>

ScalarInit == /\ least = 0 /\ greatest = 0 /\ ranged = FALSE /\ rangeTrained = FALSE
              /\ seen = {}

TrainRangeAnew(some) ==   \* mutant of TrainRange: the range is that of the last training
    /\ least' = IF some = {} THEN least ELSE Min(some)
    /\ greatest' = IF some = {} THEN greatest ELSE Max(some)
    /\ ranged' = (ranged \/ some # {})
    /\ rangeTrained' = TRUE
    /\ seen' = seen \cup some

\* Vectors of another dimension are skipped: none may be left, and the
\* quantizer is trained nevertheless.
TrainRange(some) ==
    LET all == some \cup IF ranged THEN {least, greatest} ELSE {}
    IN  /\ IF all = {} THEN UNCHANGED <<least, greatest>>
                       ELSE least' = Min(all) /\ greatest' = Max(all)
        /\ ranged' = (all # {})
        /\ rangeTrained' = TRUE
        /\ seen' = seen \cup some

ScalarNext == \E some \in SUBSET Numbers : TrainRange(some)

ScalarSpec == ScalarInit /\ [][ScalarNext]_scalarVars

------------------------------------------------------------------------------
Width == greatest - least
Scale == IF Width > 0 THEN Levels ELSE 1

Clamped(x) == IF x < 0 THEN 0 ELSE IF x > Levels THEN Levels ELSE x
Rounded(v) == Clamped(((v - least) * Levels + Width - 1) \div Width)   \* mutant of Cut: rounds up

\* The conversion cuts off what is behind the point.
Cut(v) == Clamped(((v - least) * Levels) \div Width)
EncodeNumber(v) == IF Width > 0 THEN Cut(v) ELSE Clamped(v - least)
DecodeNumber(code) == least * Scale + code * IF Width > 0 THEN Width ELSE 1

\* Whatever was trained in whatever order, every number ever trained with
\* decodes to itself or less than a level below; and codes are in the order of
\* their numbers, also of those beyond the range.
CodesAreClose ==
    /\ \A v \in seen : LET lost == v * Scale - DecodeNumber(EncodeNumber(v))
                       IN  0 <= lost /\ (lost = 0 \/ lost < Width)
    /\ ranged => \A v, w \in Numbers : v <= w => EncodeNumber(v) <= EncodeNumber(w)
==============================================================================
