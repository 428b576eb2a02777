------------------------------ MODULE Telemetry ------------------------------
(***************************************************************************)
(* Tracing and metrics of one process (src/core/telemetry.cpp), with and   *)
(* without OpenTelemetry.  Spans are owned by movable objects and name     *)
(* their parents, also those of other processes, which come as             *)
(* traceparent headers; the metrics ask the manager once whether it is     *)
(* initialized, when they are first used.                                  *)
(*                                                                         *)
(* Random ids are numbers that do not repeat: a span's id is its place in  *)
(* spans.  A header is the sequence of its parts between the dashes.       *)
(* Attributes and events, and what OpenTelemetry makes of a span, are left *)
(* out.                                                                    *)
(***************************************************************************)
EXTENDS Integers, Sequences

CONSTANTS Objects,   \* TelemetrySpan objects
          MaxSpans,  \* bounds: spans, and operations recorded
          MaxTold,
          None

VARIABLES otel,      \* VDB_USE_OPENTELEMETRY
          manager,   \* initialized_ and enabled_
          provider,  \* the global meter provider: "noop" or "prometheus"
          meter,     \* the metrics object: "unmade", "null", or its provider
          objects,   \* object -> its span or None
          spans,     \* every span begun
          told,      \* insertions reported with record_insert_operation since the metrics were made
          counted    \* and those counted by the meter

spanVars == <<objects, spans>>
metricVars == <<otel, manager, provider, meter, told, counted>>
vars == <<spanVars, metricVars>>

------------------------------------------------------------------------------
\* An empty id, and the two flags.
Empty == 0
Yes == 1
No == 0

ToTraceparent(context) == <<0, context.trace, context.span, IF context.sampled THEN Yes ELSE No>>

FromTraceparentLoosely(h) ==   \* mutant of FromTraceparent: no flags are as good as the right ones
    IF Len(h) < 3 THEN [trace |-> Empty, span |-> Empty, sampled |-> TRUE]
    ELSE [trace |-> h[2], span |-> h[3], sampled |-> Len(h) = 3 \/ h[4] = Yes]

\* All that follows the third dash are the flags; a header with less is as none
\* in its ids, but as the parent it is.
FromTraceparent(h) ==
    IF Len(h) < 4 THEN [trace |-> Empty, span |-> Empty, sampled |-> TRUE]
    ELSE [trace |-> h[2], span |-> h[3], sampled |-> Len(h) = 4 /\ h[4] = Yes]

Context(s) == [trace |-> spans[s].trace, span |-> s, sampled |-> spans[s].sampled]

Init == /\ otel \in BOOLEAN
        /\ manager = [initialized |-> FALSE, enabled |-> FALSE]
        /\ provider = "noop" /\ meter = "unmade"
        /\ objects = [o \in Objects |-> None]
        /\ spans = <<>>
        /\ told = 0 /\ counted = 0

------------------------------------------------------------------------------
Root == [trace |-> Len(spans) + 1, span |-> None, sampled |-> TRUE]

Begun(context) == [trace |-> context.trace, parent |-> context.span, sampled |-> context.sampled,
                   fate |-> "open"]

StartSpan(o, context) ==
    /\ objects[o] = None /\ Len(spans) < MaxSpans
    /\ spans' = Append(spans, Begun(context))
    /\ objects' = [objects EXCEPT ![o] = Len(spans) + 1]
    /\ UNCHANGED metricVars

StartRoot(o) == StartSpan(o, Root)
StartChild(o, p) == objects[p] # None /\ StartSpan(o, Context(objects[p]))

\* A request comes with the traceparent of one of the spans: as it was written,
\* no longer sampled, of a later version, or cut short.
Received(s) == LET h == ToTraceparent(Context(s)) IN {h, [h EXCEPT ![4] = No], Append(h, 0), SubSeq(h, 1, 3)}
StartRemote(o, s) == \E h \in Received(s) : StartSpan(o, FromTraceparent(h))

\* The destructor, which does nothing for an object that was moved from.
End(o) == /\ objects[o] # None
          /\ spans' = [spans EXCEPT ![objects[o]].fate = IF @ = "ended" THEN "ended twice" ELSE "ended"]
          /\ objects' = [objects EXCEPT ![o] = None]
          /\ UNCHANGED metricVars

MoveShared(o, p) ==   \* mutant of Move: both objects keep the span
    /\ objects[o] # None /\ o # p
    /\ objects' = [objects EXCEPT ![p] = objects[o]]
    /\ spans' = IF objects[p] = None THEN spans ELSE [spans EXCEPT ![objects[p]].fate = "dropped"]
    /\ UNCHANGED metricVars

\* The moving constructor, and the assignment, which drops the span it replaces
\* without its duration.
Move(o, p) ==
    /\ objects[o] # None /\ o # p
    /\ objects' = [objects EXCEPT ![o] = None, ![p] = objects[o]]
    /\ spans' = IF objects[p] = None THEN spans ELSE [spans EXCEPT ![objects[p]].fate = "dropped"]
    /\ UNCHANGED metricVars

------------------------------------------------------------------------------
\* With tracing disabled nothing is initialized, and it may be tried again.
Initialize(tracing, exporter) ==
    /\ ~manager.initialized
    /\ manager' = [initialized |-> tracing, enabled |-> tracing]
    /\ provider' = IF otel /\ tracing /\ exporter = "prometheus" THEN "prometheus" ELSE provider
    /\ UNCHANGED <<otel, meter, told, counted, spanVars>>

\* shutdown lets go of its own references; the global providers remain.
Shutdown ==
    /\ manager.initialized
    /\ manager' = [initialized |-> FALSE, enabled |-> FALSE]
    /\ UNCHANGED <<otel, provider, meter, told, counted, spanVars>>

\* The first use makes the metrics object, for the rest of the process.
MeterAnew == IF otel /\ manager.enabled THEN provider ELSE "null"   \* mutant of Meter: it is made for every use
Meter == IF meter # "unmade" THEN meter ELSE IF otel /\ manager.enabled THEN provider ELSE "null"

RecordInsert(vectors) ==
    /\ told + vectors <= MaxTold
    /\ told' = told + vectors
    /\ meter' = Meter
    /\ counted' = counted + (IF Meter = "prometheus" THEN vectors ELSE 0)
    /\ UNCHANGED <<otel, manager, provider, spanVars>>

SpanNext == \E o, p \in Objects : \/ StartRoot(o) \/ StartChild(o, p) \/ End(o) \/ Move(o, p)
                                   \/ \E s \in DOMAIN spans : StartRemote(o, s)
MetricNext == \/ \E tracing \in BOOLEAN, exporter \in {"prometheus", "console"} : Initialize(tracing, exporter)
              \/ Shutdown
              \/ \E vectors \in 1 .. 2 : RecordInsert(vectors)
Next == SpanNext \/ MetricNext

Spec == Init /\ [][Next]_vars

------------------------------------------------------------------------------
\* Spans form trees, over headers of whatever shape: a parent began before its
\* children, they share its trace, and sampling is never turned on below one
\* that is not sampled.  What a header cut short begins has the empty trace,
\* which is no span's own.
TracesAreTrees ==
    \A s \in DOMAIN spans :
        LET parent == spans[s].parent
        IN  CASE parent = None -> spans[s].trace = s
              [] parent = Empty -> spans[s].trace = Empty
              [] OTHER -> /\ parent \in 1 .. s - 1
                          /\ spans[s].trace = spans[parent].trace
                          /\ spans[s].sampled => spans[parent].sampled

\* However spans are moved, an open one has exactly one owner, and none ends
\* twice or after it was dropped.
OneOwner ==
    /\ \A s \in DOMAIN spans :
          /\ spans[s].fate # "ended twice"
          /\ spans[s].fate = "open" <=> \E o \in Objects : objects[o] = s
    /\ \A o, p \in Objects : objects[o] = objects[p] /\ objects[o] # None => o = p

\* The counter has all insertions or none, whatever is initialized and shut down
\* in between: which of the two was decided when the metrics were first used.
CountedAllOrNothing == counted \in {0, told} /\ (counted > 0 => otel)
==============================================================================
