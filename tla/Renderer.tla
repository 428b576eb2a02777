------------------------------ MODULE Renderer ------------------------------
(***************************************************************************)
(* The state App keeps of the REST API in Studio's renderer                *)
(* (electron-app/renderer/src/App.tsx): handlers and a poll every five     *)
(* seconds send requests and, when the answers come, overwrite what is     *)
(* shown, each with the token and the collection of the moment it began.   *)
(*                                                                         *)
(* A call is a handler or refresh that waits for an answer: first for that *)
(* to its own request, then for health, then for statistics and the list   *)
(* of collections.  Between two waits nothing else runs.  The local        *)
(* overview, messages and forms are left out; the user may name any        *)
(* collection, since the local overview and old lists offer them too.      *)
(***************************************************************************)
EXTENDS Naturals, FiniteSets

CONSTANTS Collections,
          Calls,     \* bound: calls at a time
          MaxActs,   \* bound: requests that fail and what the user does but search
          None

VARIABLES server,       \* the collections the API has
          authToken,    \* is there one?
          apiStats,     \* are statistics shown?
          collections,
          selectedCollection,
          searchResults,   \* the collection they are from
          calls,
          asked,        \* history: the collection of the last search
          acts          \* counts towards MaxActs

vars == <<server, authToken, apiStats, collections, selectedCollection, searchResults, calls, asked, acts>>
shown == <<apiStats, collections, selectedCollection>>

Idle == [kind |-> "none"]
Handlers == {"connect", "create", "delete", "add", "search"}
Stages == {"request", "served", "refused", "health", "overview", "answered"}
\* token: the one a refresh uses; known: authToken when the call began.
Call == [kind : Handlers \cup {"poll"}, stage : Stages, name : Collections \cup {None},
         token : BOOLEAN, known : BOOLEAN, seen : SUBSET Collections]

Init == /\ server \in SUBSET Collections /\ authToken = FALSE /\ apiStats = FALSE
        /\ collections = {} /\ selectedCollection = None /\ searchResults = None
        /\ calls = [c \in Calls |-> Idle]
        /\ asked = None /\ acts = 0

Begin(c, kind, stage, name) ==
    /\ calls[c] = Idle
    /\ calls' = [calls EXCEPT ![c] = [kind |-> kind, stage |-> stage, name |-> name,
                                      token |-> authToken, known |-> authToken, seen |-> {}]]
Move(c, stage) == calls' = [calls EXCEPT ![c].stage = stage]
End(c) == calls' = [calls EXCEPT ![c] = Idle]

Busy(kind) == \E c \in Calls : calls[c].kind = kind
Act == acts < MaxActs /\ acts' = acts + 1

------------------------------------------------------------------------------
(* What the user does.  A button is disabled while its handler is busy.    *)

Connect(c) == /\ Act /\ ~Busy("connect") /\ Begin(c, "connect", "request", None)
              /\ UNCHANGED <<server, authToken, shown, searchResults, asked>>

Disconnect == /\ Act /\ authToken
              /\ authToken' = FALSE /\ apiStats' = FALSE /\ collections' = {} /\ searchResults' = None
              /\ UNCHANGED <<server, selectedCollection, calls, asked>>

\* createAuthHeaders throws without a token, and nothing is sent.
Manage(c) ==
    /\ Act /\ authToken
    /\ \/ \E kind \in {"create", "delete"}, n \in Collections : ~Busy(kind) /\ Begin(c, kind, "request", n)
       \/ /\ ~Busy("add") /\ selectedCollection # None
          /\ Begin(c, "add", "request", selectedCollection)
    /\ UNCHANGED <<server, authToken, shown, searchResults, asked>>

SearchAnyway(c) ==   \* mutant of Search: the button stays enabled
    /\ authToken /\ selectedCollection # None
    /\ searchResults' = None
    /\ Begin(c, "search", "request", selectedCollection) /\ asked' = selectedCollection
    /\ UNCHANGED <<server, authToken, shown, acts>>

\* Results go before the search is refused for want of a token or a collection.
Search(c) ==
    /\ ~Busy("search")
    /\ searchResults' = None
    /\ IF authToken /\ selectedCollection # None
       THEN Begin(c, "search", "request", selectedCollection) /\ asked' = selectedCollection
       ELSE UNCHANGED <<calls, asked>>
    /\ UNCHANGED <<server, authToken, shown, acts>>

Select == /\ Act
          /\ \E n \in Collections \cup {None} : selectedCollection' = n
          /\ UNCHANGED <<server, authToken, apiStats, collections, searchResults, calls, asked>>

\* The effect runs anew with each refreshOverview, that is with each token.
Poll(c) ==
    /\ calls[c] = Idle
    /\ calls' = [calls EXCEPT ![c] = [kind |-> "poll", stage |-> "health", name |-> None,
                                      token |-> authToken, known |-> authToken, seen |-> {}]]
    /\ UNCHANGED <<server, authToken, shown, searchResults, asked, acts>>

------------------------------------------------------------------------------
(* What the API does with a request, and with the list of collections.     *)

Serve(c) ==
    /\ calls[c].kind \in Handlers /\ calls[c].stage = "request"
    /\ LET n == calls[c].name
           done == CASE calls[c].kind = "connect" -> TRUE
                     [] calls[c].kind = "create" -> n \notin server
                     [] OTHER -> n \in server
       IN  /\ server' = CASE calls[c].kind = "create" -> server \cup {n}
                          [] calls[c].kind = "delete" -> server \ {n}
                          [] OTHER -> server
           /\ Move(c, IF done THEN "served" ELSE "refused")
    /\ UNCHANGED <<authToken, shown, searchResults, asked, acts>>

List(c) == /\ calls[c].kind # "none" /\ calls[c].stage = "overview"
           /\ calls' = [calls EXCEPT ![c].stage = "answered", ![c].seen = server]
           /\ UNCHANGED <<server, authToken, shown, searchResults, asked, acts>>

------------------------------------------------------------------------------
(* What the answers do.                                                    *)

Served(c) ==
    /\ calls[c].kind \in Handlers /\ calls[c].stage = "served"
    /\ LET n == calls[c].name IN
       CASE calls[c].kind = "connect" ->
              /\ authToken' = TRUE
              /\ calls' = [calls EXCEPT ![c].stage = "health", ![c].token = TRUE]
              /\ UNCHANGED <<shown, searchResults>>
         [] calls[c].kind = "search" ->
              searchResults' = n /\ End(c) /\ UNCHANGED <<authToken, shown>>
         [] OTHER ->
              /\ selectedCollection' = CASE calls[c].kind = "create" -> n
                                         [] calls[c].kind = "delete" /\ selectedCollection = n -> None
                                         [] OTHER -> selectedCollection
              /\ Move(c, "health")
              /\ UNCHANGED <<authToken, apiStats, collections, searchResults>>
    /\ UNCHANGED <<server, asked, acts>>

Healthy(c) == /\ calls[c].kind # "none" /\ calls[c].stage = "health"
              /\ IF calls[c].token THEN Move(c, "overview") ELSE End(c)
              /\ UNCHANGED <<server, authToken, shown, searchResults, asked, acts>>

\* The list is sorted by name; which name comes first is left open.
Overview(c) ==
    /\ calls[c].kind # "none" /\ calls[c].stage = "answered"
    /\ apiStats' = TRUE /\ collections' = calls[c].seen
    /\ IF selectedCollection = None /\ calls[c].seen # {}
       THEN selectedCollection' \in calls[c].seen
       ELSE UNCHANGED selectedCollection
    /\ End(c)
    /\ UNCHANGED <<server, authToken, searchResults, asked, acts>>

Unhealthy(c) == /\ Act /\ calls[c].kind # "none" /\ calls[c].stage = "health"
                /\ apiStats' = FALSE
                /\ collections' = IF calls[c].known THEN collections ELSE {}
                /\ IF calls[c].token THEN Move(c, "overview") ELSE End(c)
                /\ UNCHANGED <<server, authToken, selectedCollection, searchResults, asked>>

\* The catch of the handler or of refreshOverview.
Caught(c) ==
    /\ authToken' = (authToken /\ calls[c].kind # "connect")
    /\ IF calls[c].kind \in {"connect", "poll"} THEN apiStats' = FALSE /\ collections' = {}
                                               ELSE UNCHANGED <<apiStats, collections>>
    /\ End(c)
    /\ UNCHANGED <<server, selectedCollection, searchResults, asked>>

Refused(c) == calls[c].kind # "none" /\ calls[c].stage = "refused" /\ Caught(c) /\ UNCHANGED acts

\* A request or its answer is lost, or the password is wrong.
Fail(c) == /\ Act /\ calls[c].kind # "none"
           /\ calls[c].stage \in {"request", "served", "overview", "answered"}
           /\ Caught(c)

Answer(c) == Serve(c) \/ List(c) \/ Served(c) \/ Healthy(c) \/ Overview(c) \/ Refused(c)

Next == \/ Disconnect \/ Select
        \/ \E c \in Calls : \/ Connect(c) \/ Manage(c) \/ Search(c) \/ Poll(c)
                            \/ Answer(c) \/ Unhealthy(c) \/ Fail(c)

Spec == Init /\ [][Next]_vars

\* The browser runs what is due and the interval goes on; the API answers.
Fairness == /\ WF_vars(\E c \in Calls : Poll(c))
            /\ \A c \in Calls : WF_vars(Answer(c))

------------------------------------------------------------------------------
TypeOK == /\ server \subseteq Collections /\ collections \subseteq Collections
          /\ authToken \in BOOLEAN /\ apiStats \in BOOLEAN /\ acts \in 0 .. MaxActs
          /\ {selectedCollection, searchResults, asked} \subseteq Collections \cup {None}
          /\ calls \in [Calls -> Call \cup {Idle}]

\* Answers come late and in any order, yet the results on display are those of
\* the last search.
ResultsAreAsked == searchResults \in {None, asked}

\* Whatever answers overtook each other or got lost: when the user has done and
\* is connected, the display comes to show what the API has, for good.
DisplayConverges ==
    <>[](authToken => /\ apiStats /\ collections = server
                      /\ server # {} => selectedCollection # None)
==============================================================================
