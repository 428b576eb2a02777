------------------------------ MODULE VectorOps ------------------------------
(***************************************************************************)
(* Distances, vector arithmetic and the search without an index, and the   *)
(* kernels the sums are taken with (src/core/vector_ops.cpp,               *)
(* src/core/distance.cpp).                                                 *)
(*                                                                         *)
(* For the search, elements are integers, and a distance is a fraction     *)
(* <<numerator, denominator>> in the order of the code's floats: L2 by its *)
(* square, the cosine by its square with its sign.                         *)
(*                                                                         *)
(* The kernels (dot_product, l2_squared_distance, norm, normalize, add and *)
(* scale) run in blocks of Width elements, add the lanes up where there is *)
(* a sum, and treat the elements left over one by one.  Numbers are left   *)
(* out there: an accumulator is the bag of the elements whose terms were   *)
(* added to it, as a function from elements to how often.                  *)
(*                                                                         *)
(* Rounding, and what it makes of the order of additions, is left out.     *)
(***************************************************************************)
EXTENDS Integers, FiniteSetsExt, SequencesExt, Functions

CONSTANTS Elements,   \* the numbers in a vector
          Dims,       \* dimensions
          MaxVectors, \* bound: vectors searched
          Furthest    \* std::numeric_limits<Distance>::max()

Metrics == {"Cosine", "L2", "L2Squared", "DotProduct"}

VARIABLES query, vectors, k, metric,
          found   \* ids and distances, the nearest first

searchVars == <<query, vectors, k, metric, found>>

------------------------------------------------------------------------------
Total(f) == SumFunctionOnSet(f, DOMAIN f)
SameDim(a, b) == Len(a) = Len(b)

DotProduct(a, b) == IF ~SameDim(a, b) \/ a = <<>> THEN 0 ELSE Total([e \in DOMAIN a |-> a[e] * b[e]])
NormSquared(v) == DotProduct(v, v)   \* l2_norm, squared

L2SquaredNear(a, b) ==   \* mutant of L2Squared: none is as near as it can be
    IF ~SameDim(a, b) THEN 0 ELSE Total([e \in DOMAIN a |-> (a[e] - b[e]) * (a[e] - b[e])])
L2Squared(a, b) == IF ~SameDim(a, b) THEN Furthest
                   ELSE Total([e \in DOMAIN a |-> (a[e] - b[e]) * (a[e] - b[e])])

CosineSimilarity(a, b) ==
    IF ~SameDim(a, b) \/ NormSquared(a) = 0 \/ NormSquared(b) = 0 THEN <<0, 1>>
    ELSE LET dot == DotProduct(a, b)
         IN  <<IF dot < 0 THEN -dot * dot ELSE dot * dot, NormSquared(a) * NormSquared(b)>>

CosineDistance(a, b) == LET s == CosineSimilarity(a, b) IN <<s[2] - s[1], s[2]>>

ComputeDistance(a, b, m) ==
    CASE m = "Cosine" -> CosineDistance(a, b)
      [] m \in {"L2", "L2Squared"} -> <<L2Squared(a, b), 1>>
      [] m = "DotProduct" -> <<-DotProduct(a, b), 1>>

Less(x, y) == x[1] * y[2] < y[1] * x[2]

------------------------------------------------------------------------------
\* Vectors of different dimensions have no sum: the answer is empty.
Each(op(_, _), a, b) == IF SameDim(a, b) THEN [e \in DOMAIN a |-> op(a[e], b[e])] ELSE <<>>

Add(a, b) == Each(LAMBDA x, y : x + y, a, b)
Subtract(a, b) == Each(LAMBDA x, y : x - y, a, b)
AddScaledEach(a, b, s) == Each(LAMBDA x, y : (x + y) * s, a, b)   \* mutant of AddScaled
AddScaled(a, b, s) == Each(LAMBDA x, y : x + y * s, a, b)
Multiply(a, b) == Each(LAMBDA x, y : x * y, a, b)
Scale(v, s) == [e \in DOMAIN v |-> v[e] * s]

\* The sum of the vectors of the first one's dimension and the number of all of
\* them, by which it is divided.
Mean(vs) ==
    LET like == {j \in DOMAIN vs : SameDim(vs[j], vs[1])}
    IN  IF vs = <<>> THEN [sum |-> <<>>, over |-> 0]
        ELSE [sum |-> [e \in DOMAIN vs[1] |-> Total([j \in like |-> vs[j][e]])], over |-> Len(vs)]

\* ProjectionMatrix::project, of the rows of weights_.
Project(weights, input) ==
    IF \E row \in DOMAIN weights : ~SameDim(weights[row], input) THEN <<>>
    ELSE [row \in DOMAIN weights |-> DotProduct(weights[row], input)]

------------------------------------------------------------------------------
VectorsOf(d) == [1 .. d -> Elements]

SearchInit == /\ query \in UNION {VectorsOf(d) : d \in Dims}
              /\ vectors \in UNION {[1 .. n -> UNION {VectorsOf(d) : d \in Dims}] : n \in 0 .. MaxVectors}
              /\ k = 0 /\ metric = "none" /\ found = <<>>

\* batch_distance
BatchDistance(m) == [j \in DOMAIN vectors |-> ComputeDistance(query, vectors[j], m)]

\* partial_sort leaves equals in any order.
Sortings(distances) ==
    {p \in {f \in [DOMAIN distances -> DOMAIN distances] : IsInjective(f)} :
        \A i, j \in DOMAIN p : i < j => ~Less(distances[p[j]], distances[p[i]])}

BruteForceKnn ==
    /\ metric = "none"
    /\ metric' \in Metrics
    /\ k' \in 0 .. MaxVectors + 1
    /\ \E p \in Sortings(BatchDistance(metric')) :
          found' = SubSeq([i \in DOMAIN p |-> [id |-> p[i], distance |-> BatchDistance(metric')[p[i]]]],
                          1, Min({k', Len(p)}))
    /\ UNCHANGED <<query, vectors>>

SearchNext == BruteForceKnn

SearchSpec == SearchInit /\ [][SearchNext]_searchVars

------------------------------------------------------------------------------
\* A vector of another dimension than the query's comes before one of its own
\* under no metric, except that where distances are similarities (Cosine,
\* DotProduct), which are zero for it, it may come before one at right angles or
\* further away.
StrangersLast ==
    \A i, j \in DOMAIN found :
        i < j /\ ~SameDim(vectors[found[i].id], query) /\ SameDim(vectors[found[j].id], query) =>
            metric \in {"Cosine", "DotProduct"} /\ DotProduct(query, vectors[found[j].id]) <= 0

\* Among vectors of one length all metrics find the same: the indexes may take
\* whichever is configured for normalized vectors.
MetricsAgree ==
    \A i, j \in DOMAIN vectors :
        LET u == vectors[i]
            v == vectors[j]
            Nearer(m) == Less(ComputeDistance(query, u, m), ComputeDistance(query, v, m))
        IN  SameDim(u, query) /\ SameDim(v, query) /\ NormSquared(query) > 0
            /\ NormSquared(u) > 0 /\ NormSquared(u) = NormSquared(v) =>
                \A m \in Metrics : Nearer(m) = Nearer("L2")

\* The operations fit each other: a distance is the length of a difference, a
\* difference a sum with minus one, a product is the sum of what multiply
\* answers, a mean is balanced, and a projection is linear.
OperationsFit ==
    /\ \A j \in DOMAIN vectors :
          LET v == vectors[j] IN
          SameDim(query, v) =>
              /\ L2Squared(query, v) = NormSquared(Subtract(query, v))
              /\ Subtract(query, v) = AddScaled(query, v, -1)
              /\ AddScaled(query, v, 2) = Add(query, Scale(v, 2))
              /\ DotProduct(query, v) = Total(Multiply(query, v))
              /\ Project(vectors, Add(query, v)) = Add(Project(vectors, query), Project(vectors, v))
    /\ (vectors # <<>> /\ \A j \in DOMAIN vectors : SameDim(vectors[j], query)) =>
           LET mean == Mean(vectors)
           IN  Total([j \in DOMAIN vectors |->
                      DotProduct(query, Subtract(Scale(vectors[j], mean.over), mean.sum))]) = 0

------------------------------------------------------------------------------
(* Kernels.                                                                *)

CONSTANTS Widths, \* elements in a block: 8 with AVX2, 4 with SSE4, 16 with AVX-512
          MaxDim  \* bound of the dimension

VARIABLES
    n, width, kind, \* the call: dimension, block, "sum" or "store"
    i,      \* the next element
    lanes,  \* the vector register
    result, \* the scalar sum, or how often each element was stored
    phase

kernelVars == <<n, width, kind, i, lanes, result, phase>>

Zeros(d) == [e \in 0 .. d - 1 |-> 0]
Term(d, e) == [Zeros(d) EXCEPT ![e] = 1]
Plus(a, b) == [e \in DOMAIN a |-> a[e] + b[e]]

KernelInit == /\ n \in 0 .. MaxDim /\ width \in Widths /\ kind \in {"sum", "store"}
              /\ i = 0
              /\ lanes = [l \in 0 .. width - 1 |-> Zeros(n)]
              /\ result = Zeros(n)
              /\ phase = "blocks"

\* One load of each operand, one multiply and add into the lanes, or a store.
Fits == i + width <= n
Block ==
    /\ phase = "blocks" /\ Fits
    /\ IF kind = "sum"
       THEN /\ lanes' = [l \in DOMAIN lanes |-> Plus(lanes[l], Term(n, i + l))]
            /\ UNCHANGED result
       ELSE /\ result' = [e \in DOMAIN result |-> IF e \in i .. i + width - 1 THEN result[e] + 1 ELSE result[e]]
            /\ UNCHANGED lanes
    /\ i' = i + width
    /\ UNCHANGED <<n, width, kind, phase>>

\* _mm_hadd_ps(x, x)
HaddSame(x) == [l \in 0 .. 3 |-> Plus(x[2 * (l % 2)], x[2 * (l % 2) + 1])]

\* The halves of 16 and 8 lanes are added until 4 are left, then hadd twice.
Half(x, w) == [l \in 0 .. w \div 2 - 1 |-> Plus(x[l], x[l + w \div 2])]
HorizontalSumOnce(x, w) ==   \* mutant of HorizontalSum: one hadd is missing
    HaddSame(IF w = 4 THEN x ELSE IF w = 8 THEN Half(x, 8) ELSE Half(Half(x, 16), 8))[0]
HorizontalSum(x, w) ==
    HaddSame(HaddSame(IF w = 4 THEN x ELSE IF w = 8 THEN Half(x, 8) ELSE Half(Half(x, 16), 8)))[0]

Reduce ==
    /\ phase = "blocks" /\ ~Fits
    /\ result' = IF kind = "sum" THEN HorizontalSum(lanes, width) ELSE result
    /\ phase' = "rest"
    /\ UNCHANGED <<n, width, kind, i, lanes>>

Rest ==
    /\ phase = "rest" /\ i < n
    /\ result' = [result EXCEPT ![i] = @ + 1]
    /\ i' = i + 1
    /\ UNCHANGED <<n, width, kind, lanes, phase>>

KernelNext == Block \/ Reduce \/ Rest

KernelSpec == KernelInit /\ [][KernelNext]_kernelVars

------------------------------------------------------------------------------
\* When the kernel is through, every element has been taken exactly once, and
\* none beyond the dimension, whatever it is modulo the block.
EachOnce == phase = "rest" /\ i >= n => i = n /\ result = [e \in 0 .. n - 1 |-> 1]
==============================================================================
