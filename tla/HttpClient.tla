------------------------------ MODULE HttpClient ------------------------------
(***************************************************************************)
(* HttpClient (src/adapters/http_client.cpp, include/vdb/adapters/         *)
(* http_client.hpp): requests of several threads, each tried again after a *)
(* timeout, a lost connection or a status worth it, with counters behind   *)
(* stats_mutex.  The waits between tries are slept through with that mutex *)
(* held.                                                                   *)
(*                                                                         *)
(* Before its first try a request passes check_and_wait of its host's      *)
(* RateLimiter, which looks at the requests of the last second, minute and *)
(* hour, sleeps once if there are too many, and notes the request, all     *)
(* with a mutex of its own held.  It is modelled by itself, in the second  *)
(* part: there time is kept as ages, so no clock has to be bounded, in     *)
(* ticks of any length that divides the sleeps.                            *)
(*                                                                         *)
(* A try is curl's, external: the server may have served it whatever the   *)
(* client gets to see.  The response cache is not implemented in the code. *)
(***************************************************************************)
EXTENDS Integers, Sequences, FiniteSets

CONSTANTS Threads,
          MaxRetries, \* RetryConfig::max_retries
          None,
          MaxRequests \* bound: requests between two resets of the statistics
CONSTANTS PerSecond, PerMinute, PerHour, \* RateLimitConfig
          Second, Minute, Hour           \* their windows, in ticks

\* What a try comes to: "transient" is a timeout, a lost connection or one of
\* retryable_status_codes; "final" any other error or status.
Outcomes == {"success", "rate limited", "transient", "final"}

ASSUME ClientAssumption == /\ MaxRetries \in Nat /\ MaxRequests \in Nat
                           /\ None \notin Threads \cup Outcomes

\* The limits are positive, and no more than a request per tick, so that the
\* sleep of the first one is not rounded down to nothing.
ASSUME LimiterAssumption == /\ {PerSecond, PerMinute, PerHour} \subseteq Nat \ {0}
                            /\ {Second, Minute, Hour} \subseteq Nat
                            /\ PerSecond <= Second /\ Second <= Hour

VARIABLES
    pc,      \* where each thread is
    attempt, \* attempt, of the request a thread is in
    outcome, \* curl_res and status_code of its last try
    served,  \* how often the server has done what that request asks for
    mutex,   \* stats_mutex: its owner or None
    total, successful, failed, retried, rateLimited,   \* Statistics
    carried  \* history: tries counted before the last reset but not sorted yet

stats == <<total, successful, failed, retried, rateLimited>>
vars == <<pc, attempt, outcome, served, mutex, stats, carried>>

Init == /\ pc = [t \in Threads |-> "idle"]
        /\ attempt = [t \in Threads |-> 0]
        /\ outcome = [t \in Threads |-> None]
        /\ served = [t \in Threads |-> 0]
        /\ mutex = None
        /\ total = 0 /\ successful = 0 /\ failed = 0 /\ retried = 0 /\ rateLimited = 0
        /\ carried = 0

------------------------------------------------------------------------------
Go(t, place) == pc' = [pc EXCEPT ![t] = place]

\* Threads whose try is counted in total and not yet in any other counter.
Unsorted == {t \in Threads : pc[t] \in {"sorting", "told to wait", "retrying"}}

\* request, past the rate limit.
Request(t) ==
    /\ pc[t] = "idle"
    /\ total + Cardinality({u \in Threads : pc[u] # "idle"}) < MaxRequests
    /\ Go(t, "trying")
    /\ attempt' = [attempt EXCEPT ![t] = 1]
    /\ UNCHANGED <<outcome, served, mutex, stats, carried>>

\* curl_easy_perform: a success says that the server has done the request, a
\* 429 that it has not, and anything else may come after it was done.
Perform(t) ==
    /\ pc[t] = "trying"
    /\ \E o \in Outcomes, done \in {0, 1} :
          /\ o = "success" => done = 1
          /\ o = "rate limited" => done = 0
          /\ outcome' = [outcome EXCEPT ![t] = o]
          /\ served' = [served EXCEPT ![t] = @ + done]
    /\ Go(t, "counting")
    /\ UNCHANGED <<attempt, mutex, stats, carried>>

Count(t) ==
    /\ pc[t] = "counting" /\ mutex = None
    /\ total' = total + 1
    /\ Go(t, "sorting")
    /\ UNCHANGED <<attempt, outcome, served, mutex, successful, failed, retried, rateLimited, carried>>

\* max_retries counts the tries, the first one among them.
OneMore(t) == attempt[t] <= MaxRetries   \* mutant of MayRetry: an off-by-one
MayRetry(t) == attempt[t] < MaxRetries
Retryable(t) == outcome[t] \in {"transient", "rate limited"}
Retries(t) == MayRetry(t) /\ Retryable(t)

\* A 429 is waited out for rate_limit_retry_after, stats_mutex held ...
BeToldToWait(t) ==
    /\ pc[t] = "sorting" /\ mutex = None
    /\ outcome[t] = "rate limited" /\ Retries(t)
    /\ rateLimited' = rateLimited + 1
    /\ mutex' = t
    /\ Go(t, "told to wait")
    /\ UNCHANGED <<attempt, outcome, served, total, successful, failed, retried, carried>>

WaitedAsTold(t) ==
    /\ pc[t] = "told to wait"
    /\ mutex' = None
    /\ Go(t, "retrying")
    /\ UNCHANGED <<attempt, outcome, served, stats, carried>>

BackOffUncounted(t) ==   \* mutant of BackOff: a retry after a 429 is not counted
    /\ mutex = None
    /\ pc[t] = "retrying" \/ (pc[t] = "sorting" /\ outcome[t] # "rate limited" /\ Retries(t))
    /\ retried' = IF pc[t] = "retrying" THEN retried ELSE retried + 1
    /\ mutex' = t
    /\ Go(t, "backing off")
    /\ UNCHANGED <<attempt, outcome, served, total, successful, failed, rateLimited, carried>>

\* ... and every retry for calculate_backoff, stats_mutex held again.
BackOff(t) ==
    /\ mutex = None
    /\ pc[t] = "retrying" \/ (pc[t] = "sorting" /\ outcome[t] # "rate limited" /\ Retries(t))
    /\ retried' = retried + 1
    /\ mutex' = t
    /\ Go(t, "backing off")
    /\ UNCHANGED <<attempt, outcome, served, total, successful, failed, rateLimited, carried>>

TryAgainHolding(t) ==   \* mutant of TryAgain: the mutex is kept into the next try
    /\ pc[t] = "backing off"
    /\ attempt' = [attempt EXCEPT ![t] = @ + 1]
    /\ Go(t, "trying")
    /\ UNCHANGED <<outcome, served, mutex, stats, carried>>

TryAgain(t) ==
    /\ pc[t] = "backing off"
    /\ mutex' = None
    /\ attempt' = [attempt EXCEPT ![t] = @ + 1]
    /\ Go(t, "trying")
    /\ UNCHANGED <<outcome, served, stats, carried>>

\* The response, or the error, is the caller's; a status that is no success
\* is answered as a response and counted as failed.
Answer(t) ==
    /\ pc[t] = "sorting" /\ mutex = None /\ ~Retries(t)
    /\ IF outcome[t] = "success" THEN successful' = successful + 1 /\ UNCHANGED failed
                                 ELSE failed' = failed + 1 /\ UNCHANGED successful
    /\ Go(t, "idle")
    /\ attempt' = [attempt EXCEPT ![t] = 0]
    /\ outcome' = [outcome EXCEPT ![t] = None]
    /\ served' = [served EXCEPT ![t] = 0]
    /\ UNCHANGED <<mutex, total, retried, rateLimited, carried>>

\* reset_statistics, at any time.
ResetStatistics ==
    /\ mutex = None
    /\ total # 0
    /\ total' = 0 /\ successful' = 0 /\ failed' = 0 /\ retried' = 0 /\ rateLimited' = 0
    /\ carried' = Cardinality(Unsorted)
    /\ UNCHANGED <<pc, attempt, outcome, served, mutex>>

Progress(t) == \/ Perform(t) \/ Count(t) \/ BeToldToWait(t) \/ WaitedAsTold(t)
               \/ BackOff(t) \/ TryAgain(t) \/ Answer(t)

Next == ResetStatistics \/ \E t \in Threads : Request(t) \/ Progress(t)

\* A request under way runs on: curl's timeout ends a try, and a thread that
\* waits for the mutex gets it some time.
Spec == Init /\ [][Next]_vars /\ \A t \in Threads : SF_vars(Progress(t))

------------------------------------------------------------------------------
TypeOK == /\ pc \in [Threads -> {"idle", "trying", "counting", "sorting", "told to wait",
                                 "retrying", "backing off"}]
          /\ attempt \in [Threads -> Nat]
          /\ outcome \in [Threads -> Outcomes \cup {None}]
          /\ served \in [Threads -> Nat]
          /\ \A t \in Threads : mutex = t <=> pc[t] \in {"told to wait", "backing off"}
          /\ total \in Nat /\ successful \in Nat /\ failed \in Nat
          /\ retried \in Nat /\ rateLimited \in Nat /\ carried \in Nat

\* The counters add up at every moment, with any number of threads between
\* their two visits to the mutex and resets in between: each try that is
\* counted becomes a success, a failure or a retry.
TriesAddUp == successful + failed + retried + Cardinality(Unsorted) = total + carried

\* The server does what a request asks for at most max_retries times (once
\* with retries off), and what a caller is told succeeded was done at least once.
ServedBounded ==
    \A t \in Threads : /\ served[t] <= IF MaxRetries = 0 THEN 1 ELSE MaxRetries
                       /\ outcome[t] = "success" => served[t] >= 1

\* Every request is answered, although waiting for one holds up the others.
RequestsAnswered == \A t \in Threads : pc[t] # "idle" ~> pc[t] = "idle"

------------------------------------------------------------------------------
(* RateLimiter                                                             *)

VARIABLES
    timestamps, \* timestamps_, as ages, the oldest first
    waiting     \* a request inside check_and_wait: the ticks it still sleeps, or Nobody

Nobody == -1
limiterVars == <<timestamps, waiting>>

LimiterInit == timestamps = <<>> /\ waiting = Nobody

\* rate_limit_mutex, one for the limiters of all hosts: check_rate_limit
\* holds it while a request looks at the limits, and while it sleeps.
Free == waiting = Nobody

\* The requests noted that are at most so old.
CountSince(stamps, age) == Cardinality({i \in DOMAIN stamps : stamps[i] <= age})

\* check_and_wait forgets from the front what is an hour old ...
Forgotten == {i \in DOMAIN timestamps : \A j \in 1 .. i : timestamps[j] >= Hour}
Remembered == SubSeq(timestamps, Cardinality(Forgotten) + 1, Len(timestamps))

SleepOnMinute(stamps) ==   \* mutant of Sleep: the longer limit is looked at alone
    IF CountSince(stamps, Minute) >= PerMinute THEN Minute \div PerMinute ELSE 0

\* ... and chooses how long to sleep: each limit only if the ones before it
\* are not reached, and once.
Sleep(stamps) ==
    IF CountSince(stamps, Second) >= PerSecond THEN Second \div PerSecond
    ELSE IF CountSince(stamps, Minute) >= PerMinute THEN Minute \div PerMinute
    ELSE IF Len(stamps) >= PerHour THEN Hour \div PerHour
    ELSE 0

Check == /\ Free
         /\ timestamps' = Remembered
         /\ waiting' = Sleep(Remembered)

\* Awake, perhaps later than asked for, the request is noted and goes on.
Pass == /\ waiting = 0
        /\ timestamps' = Append(timestamps, 0)
        /\ waiting' = Nobody

\* set_rate_limit waits for the mutex and puts a new limiter in place.
SetRateLimit == /\ Free
                /\ timestamps # <<>>
                /\ timestamps' = <<>>
                /\ UNCHANGED waiting

\* Ages beyond an hour need not be told apart.
Older(age) == IF age < Hour THEN age + 1 ELSE Hour

Tick == /\ timestamps' = [i \in DOMAIN timestamps |-> Older(timestamps[i])]
        /\ waiting' = IF waiting > 0 THEN waiting - 1 ELSE waiting

LimiterNext == Check \/ Pass \/ SetRateLimit \/ Tick

LimiterSpec == LimiterInit /\ [][LimiterNext]_limiterVars

------------------------------------------------------------------------------
Sleeps == {0, Second \div PerSecond, Minute \div PerMinute, Hour \div PerHour}

LimiterTypeOK == /\ timestamps \in Seq(0 .. Hour)
                 /\ waiting \in {Nobody} \cup UNION {0 .. s : s \in Sleeps}
                 /\ \A i, j \in DOMAIN timestamps : i < j => timestamps[i] >= timestamps[j]

\* One sleep, and no second look at the limits after it, still lets through in
\* any second no more than requests_per_second and the sleeps that fit into it:
\* of a limit that divides the second, less than twice as many.
SecondIsBounded ==
    CountSince(timestamps, Second - 1) <= PerSecond + (Second - 1) \div (Second \div PerSecond)
==============================================================================
