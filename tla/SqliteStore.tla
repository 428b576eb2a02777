----------------------------- MODULE SqliteStore -----------------------------
(***************************************************************************)
(* SqliteStore (src/storage/sqlite_store.cpp, include/vdb/storage/         *)
(* sqlite_store.hpp): documents' metadata, a query cache with a time to    *)
(* live and configuration, in the tables of one SQLite file, behind a      *)
(* std::mutex that cannot be locked twice.                                 *)
(*                                                                         *)
(* An operation that holds the mutex throughout is one action; the ones    *)
(* that run several statements while cache_clear, which takes no mutex,    *)
(* may run in between, and the ones that lock the mutex a second time, are *)
(* several.  Times are ticks; the tables keep them as local wall-clock     *)
(* text of whole seconds.  SQLite itself is external: a statement is       *)
(* atomic and durable, or fails.                                           *)
(***************************************************************************)
EXTENDS Integers, FiniteSets

CONSTANTS Callers,  \* threads
          Keys,     \* document ids and cache keys
          Settings, \* values of configuration keys
          None,
          Ttl,      \* cache_ttl, in ticks
          Second,   \* ticks in a second, at least one
          Summer,   \* ticks local time is ahead of standard time
          Faults,   \* may statements fail?
          MaxTime   \* bound of the clock

VARIABLES
    now,
    initialized, \* initialized_; db_ is open exactly then, or inside init
    mutex,       \* mutex_: its owner or None
    pc,          \* where each caller is
    cache,       \* query_cache: key -> [value, timestamp] or None
    documents,   \* document_metadata: id -> created_at or None
    settings,    \* configuration: key -> value or None
    cutoff,      \* the local cutoff_str of evict_expired_cache
    held,        \* the metadata each caller has read: created_at, or None
    answer,      \* the age of the value cache_get answers at this tick, or 0
    born         \* history: the moments store_metadata made each document

tables == <<cache, documents, settings>>
vars == <<now, initialized, mutex, pc, tables, cutoff, held, answer, born>>

Absent == [k \in Keys |-> None]

Init == /\ now = 0
        /\ initialized = FALSE
        /\ mutex = None
        /\ pc = [c \in Callers |-> "idle"]
        /\ cache = Absent /\ documents = Absent /\ settings = Absent
        /\ cutoff = 0
        /\ held = [c \in Callers |-> None]
        /\ answer = 0
        /\ born = [k \in Keys |-> {}]

------------------------------------------------------------------------------
Seconds(t) == (t \div Second) * Second

\* put_time of localtime: the wall clock, to the second.
time_to_string(t) == Seconds(t) + Summer

\* get_time leaves tm_isdst 0: mktime takes the text for standard time.
string_to_time(s) == s

\* A caller that gets the mutex, does the whole operation and gives it back.
Locked(c) == pc[c] = "idle" /\ mutex = None
Ready(c) == Locked(c) /\ initialized
Untimed == UNCHANGED <<now, pc, mutex>>

\* init: a second call is a no-op.  When a PRAGMA or CREATE TABLE fails, init
\* calls close, which waits for the mutex init itself holds.
InitStore(c) ==
    /\ Locked(c) /\ ~initialized
    /\ initialized' = TRUE
    /\ Untimed /\ UNCHANGED <<tables, cutoff, held, answer, born>>

InitFails(c) ==
    /\ Faults /\ Locked(c) /\ ~initialized
    /\ mutex' = c
    /\ pc' = [pc EXCEPT ![c] = "locking again"]
    /\ UNCHANGED <<now, initialized, tables, cutoff, held, answer, born>>

Close(c) ==
    /\ Ready(c)
    /\ initialized' = FALSE
    /\ Untimed /\ UNCHANGED <<tables, cutoff, held, answer, born>>

------------------------------------------------------------------------------
StoreMetadata(c, k) ==
    /\ Ready(c)
    /\ documents' = [documents EXCEPT ![k] = time_to_string(now)]
    /\ born' = [born EXCEPT ![k] = @ \cup {now}]
    /\ Untimed /\ UNCHANGED <<initialized, cache, settings, cutoff, held, answer>>

GetMetadata(c, k) ==
    /\ Ready(c) /\ documents[k] # None
    /\ held' = [held EXCEPT ![c] = [key |-> k, created_at |-> string_to_time(documents[k])]]
    /\ Untimed /\ UNCHANGED <<initialized, tables, cutoff, answer, born>>

\* list_metadata reads each document as get_metadata does; of those it answers the
\* caller keeps one.
ListMetadata(c, k) == GetMetadata(c, k)

UpdateMetadataAnew(c) ==   \* mutant: the document is as new as its update
    /\ Ready(c) /\ held[c] # None
    /\ documents' = [documents EXCEPT ![held[c].key] = time_to_string(now)]
    /\ held' = [held EXCEPT ![c] = None]
    /\ Untimed /\ UNCHANGED <<initialized, cache, settings, cutoff, answer, born>>

\* update_metadata, with what the caller has read and changed: an INSERT OR
\* REPLACE, so a document deleted meanwhile comes back.
UpdateMetadata(c) ==
    /\ Ready(c) /\ held[c] # None
    /\ documents' = [documents EXCEPT ![held[c].key] = time_to_string(held[c].created_at)]
    /\ held' = [held EXCEPT ![c] = None]
    /\ Untimed /\ UNCHANGED <<initialized, cache, settings, cutoff, answer, born>>

DeleteMetadata(c, k) ==
    /\ Ready(c)
    /\ documents' = [documents EXCEPT ![k] = None]
    /\ Untimed /\ UNCHANGED <<initialized, cache, settings, cutoff, held, answer, born>>

ConfigSet(c, k, v) ==
    /\ Ready(c)
    /\ settings' = [settings EXCEPT ![k] = v]
    /\ Untimed /\ UNCHANGED <<initialized, cache, documents, cutoff, held, answer, born>>

ConfigDelete(c, k) ==
    /\ Ready(c)
    /\ settings' = [settings EXCEPT ![k] = None]
    /\ Untimed /\ UNCHANGED <<initialized, cache, documents, cutoff, held, answer, born>>

------------------------------------------------------------------------------
\* What a put stores stands for the moment it was made.
CachePut(c, k) ==
    /\ Ready(c)
    /\ cache' = [cache EXCEPT ![k] = [value |-> now, timestamp |-> time_to_string(now)]]
    /\ Untimed /\ UNCHANGED <<initialized, documents, settings, cutoff, held, answer, born>>

NeverExpired(k) == FALSE   \* mutant of Expired

Expired(k) == now - string_to_time(cache[k].timestamp) > Ttl

CacheGet(c, k) ==
    /\ Ready(c) /\ cache[k] # None /\ ~Expired(k)
    /\ answer' = now - cache[k].value
    /\ Untimed /\ UNCHANGED <<initialized, tables, cutoff, held, born>>

\* cache_get calls cache_delete, which waits for the mutex cache_get holds.
CacheGetExpired(c, k) ==
    /\ Ready(c) /\ cache[k] # None /\ Expired(k)
    /\ mutex' = c
    /\ pc' = [pc EXCEPT ![c] = "locking again"]
    /\ UNCHANGED <<now, initialized, tables, cutoff, held, answer, born>>

CacheDelete(c, k) ==
    /\ Ready(c)
    /\ cache' = [cache EXCEPT ![k] = None]
    /\ Untimed /\ UNCHANGED <<initialized, documents, settings, cutoff, held, answer, born>>

\* cache_clear looks at neither the mutex nor initialized_; on a closed
\* handle SQLite refuses.
CacheClear(c) ==
    /\ pc[c] = "idle" /\ initialized
    /\ cache' = Absent
    /\ Untimed /\ UNCHANGED <<initialized, documents, settings, cutoff, held, answer, born>>

EvictCountUnlocked(c) ==   \* mutant of EvictCount: the mutex is given back too early
    /\ Ready(c)
    /\ pc' = [pc EXCEPT ![c] = "evicting"]
    /\ cutoff' = time_to_string(now - Ttl)
    /\ UNCHANGED <<now, initialized, mutex, tables, held, answer, born>>

\* evict_expired_cache computes the cutoff and counts ...
EvictCount(c) ==
    /\ Ready(c)
    /\ mutex' = c
    /\ pc' = [pc EXCEPT ![c] = "evicting"]
    /\ cutoff' = time_to_string(now - Ttl)
    /\ UNCHANGED <<now, initialized, tables, held, answer, born>>

OlderOrEqual(text) == text <= cutoff   \* mutant of Older

Older(text) == text < cutoff   \* the text of a date orders as the date does

\* ... then deletes; a failing delete goes unnoticed.
EvictDelete(c) ==
    /\ pc[c] = "evicting"
    /\ \/ cache' = [k \in Keys |-> IF cache[k] # None /\ Older(cache[k].timestamp) THEN None ELSE cache[k]]
       \/ Faults /\ UNCHANGED cache
    /\ mutex' = None
    /\ pc' = [pc EXCEPT ![c] = "idle"]
    /\ cutoff' = 0
    /\ UNCHANGED <<now, initialized, documents, settings, held, answer, born>>

Tick == now < MaxTime /\ now' = now + 1 /\ answer' = 0
        /\ UNCHANGED <<initialized, mutex, pc, tables, cutoff, held, born>>

Call(c) == \/ InitStore(c) \/ InitFails(c) \/ Close(c) \/ UpdateMetadata(c)
           \/ CacheClear(c) \/ EvictCount(c)
           \/ \E k \in Keys : \/ StoreMetadata(c, k) \/ GetMetadata(c, k) \/ ListMetadata(c, k)
                              \/ DeleteMetadata(c, k) \/ ConfigDelete(c, k)
                              \/ CachePut(c, k) \/ \E v \in Settings : ConfigSet(c, k, v)
                              \/ CacheGet(c, k) \/ CacheGetExpired(c, k)
                              \/ CacheDelete(c, k)

Next == Tick \/ \E c \in Callers : Call(c) \/ EvictDelete(c)

\* A thread inside an operation runs on; whether one is called is up to the caller.
Spec == Init /\ [][Next]_vars /\ \A c \in Callers : WF_vars(EvictDelete(c))

------------------------------------------------------------------------------
Times == -(Ttl + Second) .. MaxTime + Summer * (MaxTime + 1)

TypeOK == /\ now \in 0 .. MaxTime
          /\ initialized \in BOOLEAN
          /\ mutex \in Callers \cup {None}
          /\ pc \in [Callers -> {"idle", "evicting", "locking again"}]
          /\ \A c \in Callers : pc[c] # "idle" <=> mutex = c
          /\ cache \in [Keys -> [value : 0 .. now, timestamp : Times] \cup {None}]
          /\ documents \in [Keys -> Times \cup {None}]
          /\ settings \in [Keys -> Settings \cup {None}]
          /\ cutoff \in Times
          /\ held \in [Callers -> [key : Keys, created_at : Times] \cup {None}]

\* In standard time (Summer = 0) what cache_get answers was put at most
\* cache_ttl ago, although the age is computed from text cut to seconds.
AnswersAreFresh == answer <= Ttl

\* evict_expired_cache compares text, cache_get computes with times: what the
\* one deletes, the other would have refused.
EvictsOnlyExpired ==
    \A c \in Callers : EvictDelete(c) =>
        \A k \in Keys : cache[k] # None /\ cache'[k] = None => Expired(k)

\* In standard time a document keeps a second it was made in, through any
\* number of callers reading it and writing it back in between.
CreationIsKept ==
    \A k \in Keys : documents[k] # None =>
        \E moment \in born[k] : documents[k] = time_to_string(moment)

==============================================================================
