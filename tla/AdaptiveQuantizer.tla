-------------------------- MODULE AdaptiveQuantizer --------------------------
(***************************************************************************)
(* AdaptiveQuantizer (src/quantization/adaptive_quantizer.cpp) over its    *)
(* EnvironmentAwareQuantizer and that one's DisplayAwareQuantizer, which   *)
(* moves vectors into the perceptual space of a display                    *)
(* (include/vdb/quantization/perceptual_curves.hpp) and codes them there   *)
(* with a ProductQuantizer; and SaliencyQuantizer, which gives every       *)
(* dimension bits of its own.                                              *)
(*                                                                         *)
(* For the first three a vector is one number, in halves.  A curve rises   *)
(* strictly from 0 to its top: a number in between is known by the curve   *)
(* and itself; of what one curve makes of a number of another one only     *)
(* its being in between is known.  Training is with at most as many        *)
(* different vectors as there are centroids: each becomes one              *)
(* (ProductQuantizer).                                                     *)
(***************************************************************************)
EXTENDS Integers, FiniteSetsExt, SequencesExt, Functions

CONSTANTS Numbers,      \* elements of vectors, in halves
          Peak,         \* PQCurve::PEAK_LUMINANCE, in halves
          Profiles,     \* the display presets in use
          Rooms,        \* and those of the environment
          MaxTrainings, \* bound
          Budget,       \* total_bit_budget, multiples of 8
          Importances,  \* weights in a SaliencyMap
          MaxDimension, \* bound: dimensions of a coded vector
          None

VARIABLES env,        \* env_quantizer_: is there one, and its trained_
          display,    \* the display profile's type
          lux,        \* ambient_light_lux
          precision,  \* the two precision multipliers, in tenths
          curve,      \* transfer_function_
          trained,    \* DisplayAwareQuantizer::trained_
          quantizer,  \* its ProductQuantizer
          trainings,  \* how often train was called
          learnt,     \* the training data of quantizer and the curve it was moved with
          code,       \* the last code made: of which number, by which codebook, and whether
                      \* that is a number learnt, coded by the curve it was learnt with
          answer,     \* the last answer
          salient     \* a vector coded by SaliencyQuantizer

displayVars == <<env, display, lux, precision, curve, trained, quantizer, trainings, learnt, code, answer>>
vars == <<displayVars, salient>>

------------------------------------------------------------------------------
\* The presets: a display's type and bits_per_channel, and an environment's lux.
Displays == [SDR_BT709 |-> 8, HDR1000 |-> 10, HDR4000 |-> 10, DolbyVision |-> 12]
Environments == [DarkRoom |-> 5, HomeTheater |-> 25, LivingRoom |-> 200, Office |-> 500]

CurveFor(type) == IF type = "SDR_BT709" THEN "Gamma22" ELSE "PQ_ST2084"

GammaTop == 2   \* 1.0 in halves
Top(c) == IF c = "Gamma22" THEN GammaTop ELSE Peak

\* PerceptualTransferFunction::encode and decode
Black == <<"black">>
White == <<"white">>
ToPerceptualUnclipped(c, x) == IF x <= 0 THEN Black ELSE <<c, x>>   \* mutant of ToPerceptual
ToPerceptual(c, x) == IF x <= 0 THEN Black ELSE IF x >= Top(c) THEN White ELSE <<c, x>>
Between(c) == {x \in Numbers : 0 < x /\ x < Top(c)}
FromPerceptual(c, p) == IF p = Black THEN {0} ELSE IF p = White THEN {Top(c)}
                        ELSE IF p[1] = c THEN {p[2]} ELSE Between(c)

\* What a number becomes through a curve and back.
Shown(c, x) == IF x <= 0 THEN 0 ELSE IF x >= Top(c) THEN Top(c) ELSE x

\* compute_adaptation_parameters
PrecisionFor(l) == IF l > 200 THEN [shadow |-> 7, highlight |-> 13]
                   ELSE IF l < 50 THEN [shadow |-> 13, highlight |-> 9]
                   ELSE [shadow |-> 10, highlight |-> 10]

------------------------------------------------------------------------------
Untrained == [book |-> 0, centroids |-> {}]

Init == /\ env \in {[there |-> FALSE, trained |-> FALSE], [there |-> TRUE, trained |-> FALSE]}
        /\ display \in Profiles
        /\ lux \in {Environments[r] : r \in Rooms}
        /\ precision = PrecisionFor(lux)
        /\ curve = CurveFor(display)
        /\ trained = FALSE
        /\ quantizer = None
        /\ trainings = 0
        /\ learnt = [numbers |-> {}, curve |-> curve]
        /\ code = None
        /\ answer = None
        /\ salient = None

\* Empty training data, or vectors of different dimensions: the new
\* ProductQuantizer, in place by then, refuses.  Both trained_ stay.
TrainFails == /\ env.there /\ trainings < MaxTrainings
              /\ trainings' = trainings + 1
              /\ quantizer' = Untrained
              /\ learnt' = [numbers |-> {}, curve |-> curve]
              /\ UNCHANGED <<env, display, lux, precision, curve, trained, code, answer, salient>>

Train == /\ env.there /\ trainings < MaxTrainings
         /\ trainings' = trainings + 1
         /\ \E numbers \in (SUBSET Numbers) \ {{}} :
               /\ Cardinality(numbers) <= 2
               /\ quantizer' = [book |-> trainings', centroids |-> {ToPerceptual(curve, x) : x \in numbers}]
               /\ learnt' = [numbers |-> numbers, curve |-> curve]
         /\ trained' = TRUE
         /\ env' = [env EXCEPT !.trained = TRUE]
         /\ UNCHANGED <<display, lux, precision, curve, code, answer, salient>>

\* ProductQuantizer::encode: the nearest centroid, which is p itself if it is one.
Codes(p) == IF p \in quantizer.centroids THEN {p} ELSE quantizer.centroids

Answered(x) == answer' = x
Refused == Answered(<<"error">>) /\ UNCHANGED code

\* encode of the adaptive, the environment's and the display's quantizer, in
\* this order; encode_with_saliency comes here too, as nobody makes a
\* saliency_quantizer_.
Encode ==
    /\ IF env.there /\ env.trained /\ trained /\ quantizer.centroids # {}
       THEN \E x \in Numbers : \E c \in Codes(ToPerceptual(curve, x)) :
               /\ code' = [of |-> x, book |-> quantizer.book, centroid |-> c,
                          sound |-> x \in learnt.numbers /\ curve = learnt.curve]
               /\ Answered(<<"code">>)
       ELSE Refused
    /\ UNCHANGED <<env, display, lux, precision, curve, trained, quantizer, trainings, learnt, salient>>

\* A code of an earlier codebook names any centroid of this one.
Named(c) == IF c.book = quantizer.book THEN {c.centroid} ELSE quantizer.centroids

Decode ==
    /\ code # None
    /\ IF env.there /\ env.trained /\ trained /\ quantizer.centroids # {}
       THEN \E c \in Named(code) : \E x \in FromPerceptual(curve, c) : Answered(<<"vector", x>>)
       ELSE Answered(<<"error">>)
    /\ UNCHANGED <<env, display, lux, precision, curve, trained, quantizer, trainings, learnt, code, salient>>

\* requantize_for_display of a code: into the space of the other display, but
\* with the codebook of this one.
Requantize ==
    /\ code # None
    /\ \E target \in Profiles :
          IF trained /\ quantizer.centroids # {}
          THEN \E c \in Named(code) : \E x \in FromPerceptual(curve, c) :
                  \E d \in Codes(ToPerceptual(CurveFor(target), x)) :
                     /\ code' = [code EXCEPT !.book = quantizer.book, !.centroid = d,
                                          !.sound = /\ code.sound /\ code.book = quantizer.book
                                                    /\ CurveFor(target) = curve /\ curve = learnt.curve]
                     /\ Answered(<<"code">>)
          ELSE Refused
    /\ UNCHANGED <<env, display, lux, precision, curve, trained, quantizer, trainings, learnt, salient>>

\* set_display_profile and adapt_transfer_function; nothing is trained again.
AdaptToDisplay ==
    /\ env.there
    /\ \E type \in Profiles : display' = type /\ curve' = CurveFor(type)
    /\ UNCHANGED <<env, lux, precision, trained, quantizer, trainings, learnt, code, answer, salient>>

AdaptToEnvironment ==
    /\ env.there
    /\ \E l \in {Environments[r] : r \in Rooms} : lux' = l /\ precision' = PrecisionFor(l)
    /\ UNCHANGED <<env, display, curve, trained, quantizer, trainings, learnt, code, answer, salient>>

DisplayNext == Train \/ TrainFails \/ Encode \/ Decode \/ Requantize \/ AdaptToDisplay \/ AdaptToEnvironment

------------------------------------------------------------------------------
\* SaliencyQuantizer.  A budget of less than 32 bits keeps every shift within
\* the width of its operand; the default, 4096 bits for 512 dimensions, does not
\* if one dimension is four times as important as the average.
Weight(importance) == SumFunctionOnSet(importance, DOMAIN importance)

AllocateBitsFreely(importance) ==   \* mutant of AllocateBits: every dimension may have all
    [d \in DOMAIN importance |-> IF importance[d] = 0 THEN 1 ELSE Budget]
AllocateBits(importance) ==
    LET dim == Len(importance)
    IN  IF Weight(importance) = 0 THEN [d \in 1 .. dim |-> Budget \div dim]
        ELSE [d \in 1 .. dim |-> Max({1, (importance[d] * Budget) \div Weight(importance)})]

Clamp(x) == Max({0, Min({GammaTop, x})})
QuantizeValue(x, bits) == IF bits = 0 THEN 0 ELSE (Clamp(x) * (2 ^ bits - 1) + 1) \div 2

\* Only a dimension of eight bits or more makes a byte, its low one.
SaliencyCodes(vector, bits) ==
    LET coded == SelectSeq([d \in DOMAIN vector |-> d], LAMBDA d : bits[d] >= 8)
    IN  [i \in DOMAIN coded |-> QuantizeValue(vector[coded[i]], bits[coded[i]]) % 256]

\* detect_saliency: in proportion to the magnitude, or all the same.
DetectSaliency(vector) == IF \A d \in DOMAIN vector : vector[d] = 0 THEN [d \in DOMAIN vector |-> 1]
                          ELSE [d \in DOMAIN vector |-> IF vector[d] < 0 THEN -vector[d] ELSE vector[d]]

\* decode takes the bytes for those of the first dimensions, in the uniform
\* allocation of train; dimensions without one read 0.  Values over 2^bits - 1.
SaliencyDecoded(codes, dim) == [d \in 1 .. dim |-> IF d <= Len(codes) THEN codes[d] ELSE 0]

SaliencyEncode ==
    /\ salient = None /\ ~env.there   \* a component of its own
    /\ \E dim \in 1 .. MaxDimension : \E vector \in [1 .. dim -> Numbers] :
       \E importance \in {DetectSaliency(vector)} \cup [1 .. dim -> Importances] :
          LET bits == AllocateBits(importance)
          IN  salient' = [vector |-> vector, bits |-> bits, base |-> Budget \div dim,
                          decoded |-> SaliencyDecoded(SaliencyCodes(vector, bits), dim)]
    /\ UNCHANGED displayVars

Next == DisplayNext \/ SaliencyEncode

Spec == Init /\ [][Next]_vars

------------------------------------------------------------------------------
TypeOK == /\ display \in Profiles /\ lux \in {Environments[r] : r \in Rooms}
          /\ trainings \in 0 .. MaxTrainings
          /\ env.trained => env.there /\ trained
          /\ trained => quantizer # None
          /\ curve = CurveFor(display)
          /\ precision = PrecisionFor(lux)

\* Whatever trainings failed and displays changed since: while the curve is the
\* one the codebook was learnt with, everything learnt is coded as itself and
\* shown as it is, clipped to the display.
LearntComesBack ==
    (trained /\ quantizer.centroids # {} /\ curve = learnt.curve) =>
        \A x \in learnt.numbers : LET p == ToPerceptual(curve, x)
                                  IN  Codes(p) = {p} /\ FromPerceptual(curve, p) = {Shown(curve, x)}

\* A code outlives changes of the display, back to the curve it was made with,
\* and requantizations for displays of that curve, while its codebook is in use:
\* a number learnt reads as it did.
CodesOutliveDisplays ==
    (code # None /\ code.sound /\ code.book = quantizer.book /\ curve = learnt.curve) =>
        FromPerceptual(curve, code.centroid) = {Shown(curve, code.of)}

\* The allocated bits are the budget, give or take one for a dimension, and
\* where all dimensions have exactly eight a vector is read back to half a step.
BitsAreBudgeted ==
    salient # None =>
        LET dim == Len(salient.vector)
        IN  /\ Weight(salient.bits) \in Budget - dim .. Budget + dim
            /\ (Range(salient.bits) = {8} /\ salient.base = 8) =>
                  \A d \in 1 .. dim : 2 * salient.decoded[d] - 255 * Clamp(salient.vector[d]) \in -1 .. 1
==============================================================================
