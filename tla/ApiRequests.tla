----------------------------- MODULE ApiRequests -----------------------------
(***************************************************************************)
(* What the REST API (api/main.py) does around and beside the documents of *)
(* RestApi.                                                                *)
(*                                                                         *)
(* A search: the database's best documents, of all collections, are passed *)
(* through the collection's name and the filters until there are k.  What  *)
(* a client says of a document is kept as JSON beside the native fields    *)
(* and shown over them.  A value is a number, a string, which may read as  *)
(* a number, a list, or missing; Python raises where a number is compared  *)
(* with a string, and the request answers an error.                        *)
(*                                                                         *)
(* Sessions: the settings a worker insists on when it starts, login and    *)
(* the tokens it answers, which clients keep over restarts, and the        *)
(* middleware that counts requests.  The requests of a worker interleave   *)
(* between the middleware's two halves.                                    *)
(***************************************************************************)
EXTENDS Integers, FiniteSetsExt, SequencesExt

CONSTANTS Fields,    \* of a client's metadata, with "type" and "collection"
          Scalars,   \* values: records of a kind and what it reads as
          Kept,      \* documents as the database found them
          MaxFound,  \* bound: documents found
          Ks,        \* how many a client asks for
          Plain,     \* candidates fetched for each of them, without filters
          Filtered   \* and with filters

VARIABLES found,     \* db.search's ranking: metadata and collection
          k, filters,
          answer     \* positions in found, or the error

searchVars == <<found, k, filters, answer>>

Missing == [kind |-> "none", reads |-> 0]
Num(x) == [kind |-> "num", reads |-> x]
List(values) == [kind |-> "list", reads |-> values]
NoNumber == 99   \* what a string that float() refuses reads as

------------------------------------------------------------------------------
\* _metadata_from_request: the collection overrides what the client says of it.
Stored(given, collection) == [given EXCEPT !.collection = collection]

\* _metadata_to_response: the native type is "DocumentType.Unknown" or the
\* like; the stored fields are laid over it.
Native == [f \in Fields |-> IF f = "type" THEN [kind |-> "str", reads |-> NoNumber - 1] ELSE Missing]
ResponseNative(doc) == [f \in Fields |->   \* mutant of Response: the native fields are laid over the stored ones
                          IF Native[f] # Missing THEN Native[f] ELSE Stored(doc.given, doc.collection)[f]]
Response(doc) == [f \in Fields |->
                    IF Stored(doc.given, doc.collection)[f] # Missing THEN Stored(doc.given, doc.collection)[f]
                    ELSE Native[f]]

\* _coerce_filter_values: a string beside a number is read as one, if it can be.
Coerced(actual, other) ==
    IF actual.kind = "str" /\ other.kind = "num" /\ actual.reads < NoNumber - 1 THEN Num(actual.reads) ELSE actual

\* The operators of a condition, in three values.
Truth(b) == IF b THEN "true" ELSE "false"
Negated(v) == IF v = "true" THEN "false" ELSE IF v = "false" THEN "true" ELSE v
Compared(lhs, rhs, b) == IF lhs = Missing THEN "false"
                         ELSE IF lhs.kind # rhs.kind THEN "error" ELSE Truth(b)

OperatorHolds(operator, actual, expected) ==
    LET lhs == Coerced(actual, expected)
        rhs == Coerced(expected, actual)
    IN  CASE operator = "$eq"  -> Truth(lhs = rhs)
          [] operator = "$ne"  -> Truth(lhs # rhs)
          [] operator = "$gt"  -> Compared(lhs, rhs, lhs.reads > rhs.reads)
          [] operator = "$gte" -> Compared(lhs, rhs, lhs.reads >= rhs.reads)
          [] operator = "$lt"  -> Compared(lhs, rhs, lhs.reads < rhs.reads)
          [] operator = "$lte" -> Compared(lhs, rhs, lhs.reads <= rhs.reads)
          [] operator = "$in"  -> Truth(actual \in expected.reads)
          [] operator = "$nin" -> Truth(actual \notin expected.reads)

\* The first of a sequence that is not v, or v: how the loops over conditions,
\* all and any, come to their answer.
FirstNot(v, values) ==
    LET other == {i \in DOMAIN values : values[i] # v}
    IN  IF other = {} THEN v ELSE values[Min(other)]

MatchesField(actual, condition) ==
    FirstNot("true", [i \in DOMAIN condition |->
                        OperatorHolds(condition[i].operator, actual, condition[i].expected)])

\* A filter is a sequence of entries: a field and its condition, or a connective
\* and its filters.  {} and None match all, so that their $not matches nothing.
RECURSIVE Matches(_, _)
Matches(metadata, filter) ==
    LET Entry(e) == CASE e.key = "$and" -> FirstNot("true", [i \in DOMAIN e.of |-> Matches(metadata, e.of[i].filter)])
                      [] e.key = "$or"  -> FirstNot("false", [i \in DOMAIN e.of |-> Matches(metadata, e.of[i].filter)])
                      [] e.key = "$not" -> Negated(Matches(metadata, e.of[1].filter))
                      [] OTHER -> MatchesField(metadata[e.key], e.of)
    IN  FirstNot("true", [i \in DOMAIN filter |-> Entry(filter[i])])

------------------------------------------------------------------------------
\* The conditions and filters asked for: one operator or a literal, ranges, and
\* what is made of two of them.
Literal(v) == <<[operator |-> "$eq", expected |-> v]>>
Simple == {Literal(v) : v \in Scalars}
          \cup {<<[operator |-> o, expected |-> v]>> : o \in {"$ne", "$gt", "$gte", "$lt", "$lte"}, v \in Scalars}
          \cup {<<[operator |-> o, expected |-> List({v})]>> : o \in {"$in", "$nin"}, v \in Scalars}
          \cup {<<[operator |-> "$gte", expected |-> v], [operator |-> "$lt", expected |-> w]>> :
                   v, w \in {s \in Scalars : s.kind = "num"}}
On(field, condition) == <<[key |-> field, of |-> condition]>>
Either(f, g) == <<[key |-> "$or", of |-> <<[filter |-> f], [filter |-> g]>>]>>
Both(f, g) == <<[key |-> "$and", of |-> <<[filter |-> f], [filter |-> g]>>]>>
Not(f) == <<[key |-> "$not", of |-> <<[filter |-> f]>>]>>
Filters == {<<>>, Not(<<>>), Either(On("date", Literal(Num(7))), On("type", Literal(Num(9))))}
           \cup {On("date", c) : c \in Simple}

SearchInit == /\ found \in UNION {[1 .. n -> Kept] : n \in 0 .. MaxFound}
              /\ k = 0 /\ filters = <<>> /\ answer = <<"none">>

Limit(count, filter) == count * (IF filter = <<>> THEN Plain ELSE Filtered)

\* search of the collection "mine".  An error ends the request, unless there are
\* k answers before it.
Search ==
    /\ answer = <<"none">>
    /\ k' \in Ks /\ filters' \in Filters
    /\ LET fetched == 1 .. Min({Len(found), Limit(k', filters')})
           own == {i \in fetched : Response(found[i]).collection = Num(1)}
           verdict == [i \in own |-> Matches(Response(found[i]), filters')]
           hits == SetToSortSeq({i \in own : verdict[i] = "true"}, <)
           taken == SubSeq(hits, 1, Min({k', Len(hits)}))
           last == IF Len(taken) = k' THEN taken[k'] ELSE Len(found)
       IN  answer' = IF \E i \in own : i <= last /\ verdict[i] = "error"
                     THEN <<"error">> ELSE <<"results", taken>>
    /\ UNCHANGED found

SearchNext == Search

SearchSpec == SearchInit /\ [][SearchNext]_searchVars

------------------------------------------------------------------------------
\* The answer are the best of the collection's documents that meet the filters
\* as they were given to it by clients: no worse one comes without a better one
\* that was fetched, and one is missing only if k came before it or it was not
\* among those fetched.
AnswersAreBest ==
    answer[1] = "results" =>
        \A i \in DOMAIN found :
            LET doc == found[i]
                meets == doc.collection = Num(1) /\ Matches(Response(doc), filters) = "true"
                better == {j \in 1 .. i - 1 : Contains(answer[2], j)}
            IN  Contains(answer[2], i) = (meets /\ i <= Limit(k, filters) /\ Cardinality(better) < k)

\* What a client says of a document a filter finds, whatever the native fields
\* are; only the collection is not the client's to say.
GivenIsFound ==
    \A i \in DOMAIN found : \A f \in Fields \ {"collection"} :
        found[i].given[f] # Missing =>
            Matches(Response(found[i]), On(f, Literal(found[i].given[f]))) = "true"

\* Filters are a logic: operators and their opposites part the documents, except
\* those that lack the field, and the connectives follow De Morgan, in the order
\* in which errors are met.  A document is judged by itself: lists of one show it.
FiltersAreLogic ==
    Len(found) = 1 =>
        LET r == Response(found[1])
            M(f) == Matches(r, f)
            Opposite(a, b, v) == M(On("date", <<[operator |-> a, expected |-> v]>>))
                                 = Negated(M(On("date", <<[operator |-> b, expected |-> v]>>)))
        IN  /\ \A v \in Scalars : /\ Opposite("$eq", "$ne", v)
                                  /\ Opposite("$in", "$nin", List({v}))
                                  /\ r["date"] # Missing => Opposite("$gt", "$lte", v) /\ Opposite("$gte", "$lt", v)
            /\ \A g \in {On("type", Literal(v)) : v \in Scalars} :
                  M(Not(Either(filters, g))) = M(Both(Not(filters), Not(g)))

------------------------------------------------------------------------------
(* Sessions.                                                               *)

CONSTANTS Clients,
          Expire,   \* ACCESS_TOKEN_EXPIRE_MINUTES
          MaxTime,  \* bound
          MaxCount, \* bound: requests a worker counts
          None

VARIABLES settings, \* of the environment: the same for every process
          up, active_connections, request_count,
          now,
          requests, \* of each client: the endpoint entered, and its answer
          token     \* which each client holds: its expiry, or None

sessionVars == <<settings, up, active_connections, request_count, now, requests, token>>

Idle == [at |-> "idle", status |-> 0]

SessionInit == /\ settings \in [secret : {"good", "default", "none"}, origins : BOOLEAN, admin : BOOLEAN, strict : BOOLEAN]
               /\ up = FALSE /\ active_connections = 0 /\ request_count = 0
               /\ now = 0
               /\ requests = [c \in Clients |-> Idle]
               /\ token = [c \in Clients |-> None]

------------------------------------------------------------------------------
\* validate_security_settings, by which lifespan begins.
Problems == settings.secret # "good" \/ ~settings.origins \/ ~settings.admin

\* _build_users_db: without strictness there is an admin anyway.
Users == IF settings.admin \/ ~settings.strict THEN {"admin"} ELSE {}

StartUnchecked ==   \* mutant of Start
    /\ ~up
    /\ up' = TRUE /\ active_connections' = 0 /\ request_count' = 0
    /\ UNCHANGED <<settings, now, requests, token>>
Start == /\ ~up /\ ~(Problems /\ settings.strict)
         /\ up' = TRUE /\ active_connections' = 0 /\ request_count' = 0
         /\ UNCHANGED <<settings, now, requests, token>>

\* The process ends; requests under way end without an answer.
Stop == /\ up
        /\ up' = FALSE
        /\ requests' = [c \in Clients |-> Idle]
        /\ UNCHANGED <<settings, active_connections, request_count, now, token>>

\* metrics_middleware, as far as call_next.
Enter(c) == /\ up /\ requests[c].at = "idle" /\ request_count + active_connections < MaxCount
            /\ active_connections' = active_connections + 1
            /\ \E endpoint \in {"login", "protected"} : requests' = [requests EXCEPT ![c].at = endpoint]
            /\ UNCHANGED <<settings, up, request_count, now, token>>

Leaves(c, status) == /\ requests' = [requests EXCEPT ![c] = [at |-> "leaving", status |-> status]]
                     /\ UNCHANGED <<settings, up, active_connections, request_count, now>>

\* login, with the right or a wrong password.  jwt refuses to sign without a key.
Login(c) ==
    /\ requests[c].at = "login"
    /\ \/ Users = {} /\ Leaves(c, 503) /\ UNCHANGED token
       \/ Users # {} /\ Leaves(c, 401) /\ UNCHANGED token
       \/ Users # {} /\ settings.secret = "none" /\ Leaves(c, 500) /\ UNCHANGED token
       \/ /\ Users # {} /\ settings.secret # "none"
          /\ Leaves(c, 200)
          /\ token' = [token EXCEPT ![c] = now + Expire]

\* verify_token, before the handler: no bearer, an expired token, or a good one.
Protected(c) ==
    /\ requests[c].at = "protected"
    /\ Leaves(c, IF token[c] = None THEN 403 ELSE IF now >= token[c] THEN 401 ELSE 200)
    /\ UNCHANGED token

\* The middleware's second half: an exception that reaches it is not counted as
\* a request, but finally lets the connection go.
LeaveOnAnswer(c) ==   \* mutant of Leave: the connection is let go where requests are counted
    /\ requests[c].at = "leaving"
    /\ request_count' = request_count + (IF requests[c].status = 500 THEN 0 ELSE 1)
    /\ active_connections' = active_connections - (IF requests[c].status = 500 THEN 0 ELSE 1)
    /\ requests' = [requests EXCEPT ![c] = Idle]
    /\ UNCHANGED <<settings, up, now, token>>
Leave(c) == /\ requests[c].at = "leaving"
            /\ request_count' = request_count + (IF requests[c].status = 500 THEN 0 ELSE 1)
            /\ active_connections' = active_connections - 1
            /\ requests' = [requests EXCEPT ![c] = Idle]
            /\ UNCHANGED <<settings, up, now, token>>

Tick == /\ now < MaxTime
        /\ now' = now + 1
        /\ UNCHANGED <<settings, up, active_connections, request_count, requests, token>>

SessionNext == Start \/ Stop \/ Tick \/ \E c \in Clients : Enter(c) \/ Login(c) \/ Protected(c) \/ Leave(c)

SessionSpec == SessionInit /\ [][SessionNext]_sessionVars

------------------------------------------------------------------------------
\* The gauge of active connections shows the requests under way, whatever their
\* handlers raise and however they interleave.
GaugeCounts == up => active_connections = Cardinality({c \in Clients : requests[c].at # "idle"})

\* A strict server that has started can log its administrator in: it never
\* answers that authentication is not configured, nor fails to sign.
StrictServerLogsIn ==
    settings.strict => \A c \in Clients : requests[c].status \notin {500, 503}
==============================================================================
