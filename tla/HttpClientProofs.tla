-------------------------- MODULE HttpClientProofs --------------------------
(***************************************************************************)
(* Theorems about HttpClient for any number of threads, even infinitely    *)
(* many of them, and any limit on the tries, and about its RateLimiter for *)
(* any limits and windows.                                                 *)
(***************************************************************************)
EXTENDS HttpClient, FiniteSetTheorems, TLAPS

Places == {"idle", "trying", "counting", "sorting", "told to wait", "retrying", "backing off"}
Waits == {"told to wait", "backing off"}             \* the places the mutex is held in
Counted == {"sorting", "told to wait", "retrying"}   \* the places of Unsorted

\* How many tries a request may take.
Tries == IF MaxRetries = 0 THEN 1 ELSE MaxRetries

\* A try is preceded by fewer services than it is tries old, and a thread on
\* its way to a retry has one left.
RequestInv(t) ==
    /\ pc[t] = "idle" => served[t] = 0 /\ outcome[t] = None
    /\ pc[t] # "idle" => attempt[t] \in 1 .. Tries
    /\ pc[t] = "trying" => served[t] <= attempt[t] - 1
    /\ served[t] <= attempt[t]
    /\ pc[t] \in {"told to wait", "retrying", "backing off"} => attempt[t] < MaxRetries
    /\ outcome[t] = "success" => served[t] >= 1

IInv == /\ TypeOK
        /\ \A t \in Threads : RequestInv(t)
        /\ IsFiniteSet(Unsorted)
        /\ TriesAddUp

------------------------------------------------------------------------------
\* A thread that goes elsewhere is the only one that joins or leaves Unsorted.
LEMMA Moves ==
  ASSUME TypeOK, NEW t \in Threads, NEW place \in Places, Go(t, place)
  PROVE  /\ pc'[t] = place /\ \A u \in Threads : u # t => pc'[u] = pc[u]
         /\ pc' \in [Threads -> Places]
         /\ Unsorted' = IF place \in Counted THEN Unsorted \cup {t} ELSE Unsorted \ {t}
<1>1. pc' = [pc EXCEPT ![t] = place] /\ pc \in [Threads -> Places]
  BY DEF Go, TypeOK, Places
<1>2. pc'[t] = place /\ \A u \in Threads : u # t => pc'[u] = pc[u]
  BY <1>1
<1>3. pc' \in [Threads -> Places]
  BY <1>1
<1>4. \A u \in Threads : u \in Unsorted' <=> pc'[u] \in Counted
  BY DEF Unsorted, Counted
<1>5. \A u \in Threads : u \in Unsorted <=> pc[u] \in Counted
  BY DEF Unsorted, Counted
<1>6. Unsorted \subseteq Threads /\ Unsorted' \subseteq Threads
  BY DEF Unsorted
<1>7. Unsorted' = IF place \in Counted THEN Unsorted \cup {t} ELSE Unsorted \ {t}
  BY <1>2, <1>4, <1>5, <1>6
<1> QED
  BY <1>2, <1>3, <1>7

\* Whether it was there before tells what that does to their number.
LEMMA Joins ==
  ASSUME NEW S, IsFiniteSet(S), NEW t
  PROVE  /\ IsFiniteSet(S \cup {t}) /\ IsFiniteSet(S \ {t}) /\ Cardinality(S) \in Nat
         /\ t \in S => /\ S \cup {t} = S /\ Cardinality(S \ {t}) = Cardinality(S) - 1
         /\ t \notin S => /\ S \ {t} = S /\ Cardinality(S \cup {t}) = Cardinality(S) + 1
  BY FS_AddElement, FS_RemoveElement, FS_CardinalityType

\* The mutex follows the thread that moves: it is taken, from nobody, to wait
\* and let go of afterwards.
LEMMA Locks ==
  ASSUME TypeOK, NEW t \in Threads, NEW place \in Places, Go(t, place),
         \/ place \in Waits /\ mutex = None /\ mutex' = t
         \/ place \notin Waits /\ pc[t] \in Waits /\ mutex' = None
         \/ place \notin Waits /\ pc[t] \notin Waits /\ mutex' = mutex
  PROVE  \A u \in Threads : mutex' = u <=> pc'[u] \in Waits
<1>1. ASSUME NEW u \in Threads
      PROVE  mutex = u <=> pc[u] \in Waits
  BY DEF TypeOK, Waits
<1>2. pc'[t] = place /\ \A u \in Threads : u # t => pc'[u] = pc[u]
  BY Moves
<1>3. None \notin Threads
  BY ClientAssumption
<1>4. ASSUME NEW u \in Threads, u # t
      PROVE  mutex' = u <=> pc'[u] \in Waits
  BY <1>1, <1>2, <1>3, <1>4
<1>5. mutex' = t <=> pc'[t] \in Waits
  BY <1>1, <1>2, <1>3
<1> QED
  BY <1>4, <1>5

LEMMA TriesProperty ==
  /\ Tries \in Nat /\ Tries >= 1 /\ Tries >= MaxRetries
  /\ MaxRetries \in Nat /\ None # "success" /\ None \notin Threads
<1>1. MaxRetries \in Nat /\ None \notin Threads /\ None # "success"
  BY ClientAssumption DEF Outcomes
<1>2. CASE MaxRetries = 0
  BY <1>2, <1>1 DEF Tries
<1>3. CASE MaxRetries # 0
  BY <1>3, <1>1 DEF Tries
<1> QED
  BY <1>1, <1>2, <1>3

\* Nothing changes for a thread whose own state does not.
LEMMA Bystander ==
  ASSUME NEW u, RequestInv(u), pc'[u] = pc[u], attempt'[u] = attempt[u],
         served'[u] = served[u], outcome'[u] = outcome[u]
  PROVE  RequestInv(u)'
  BY DEF RequestInv

LEMMA InitIInv == Init => IInv
<1> SUFFICES ASSUME Init PROVE IInv
  OBVIOUS
<1> USE DEF Init
<1>1. TypeOK
  BY ClientAssumption DEF TypeOK
<1>2. Unsorted = {}
  BY DEF Unsorted
<1>3. IsFiniteSet(Unsorted) /\ TriesAddUp
  BY <1>2, FS_EmptySet DEF TriesAddUp
<1>4. ASSUME NEW t \in Threads
      PROVE  RequestInv(t)
  <2>1. pc[t] = "idle" /\ served[t] = 0 /\ attempt[t] = 0 /\ outcome[t] = None
    OBVIOUS
  <2>2. outcome[t] # "success"
    BY <2>1, ClientAssumption DEF Outcomes
  <2> QED
    BY <2>1, <2>2 DEF RequestInv
<1> QED
  BY <1>1, <1>3, <1>4 DEF IInv

------------------------------------------------------------------------------
(* One lemma for each action.                                              *)

LEMMA RequestIInv ==
  ASSUME IInv, NEW t \in Threads, Request(t)
  PROVE  IInv'
<1> USE DEF IInv
<1>1. Go(t, "trying") /\ pc[t] = "idle"
  BY DEF Request
<1>2. Unsorted' = Unsorted
  BY <1>1, Moves DEF Places, Counted, Unsorted
<1>3. TypeOK'
  <2>1. /\ pc' \in [Threads -> Places]
        /\ \A u \in Threads : mutex' = u <=> pc'[u] \in Waits
    BY <1>1, Moves, Locks DEF Request, Places, Waits
  <2>2. /\ attempt' \in [Threads -> Nat] /\ served' \in [Threads -> Nat]
        /\ outcome' \in [Threads -> Outcomes \cup {None}]
    BY DEF Request, TypeOK
  <2>3. /\ total' \in Nat /\ successful' \in Nat /\ failed' \in Nat
        /\ retried' \in Nat /\ rateLimited' \in Nat /\ carried' \in Nat
    <3>1. /\ total \in Nat /\ successful \in Nat /\ failed \in Nat
          /\ retried \in Nat /\ rateLimited \in Nat /\ carried \in Nat
      BY DEF TypeOK
    <3> HIDE DEF IInv
    <3> QED
      BY <3>1 DEF Request, stats
  <2> QED
    BY <2>1, <2>2, <2>3 DEF TypeOK, Places, Waits
<1>4. \A u \in Threads : RequestInv(u)'
  <2>1. attempt' = [attempt EXCEPT ![t] = 1] /\ UNCHANGED <<served, outcome>>
        /\ attempt \in [Threads -> Nat]
    BY DEF Request, TypeOK
  <2>2. ASSUME NEW u \in Threads, u # t
        PROVE  RequestInv(u)'
    BY <1>1, <2>1, <2>2, Moves, Bystander DEF Places
  <2>3. RequestInv(t)'
    <3>1. pc'[t] = "trying" /\ attempt'[t] = 1 /\ served'[t] = 0 /\ outcome'[t] = None
      BY <1>1, <2>1, Moves DEF Places, RequestInv
    <3>2. None # "success" /\ 1 \in 1 .. Tries
      BY TriesProperty
    <3> HIDE DEF IInv
    <3> QED
      BY <3>1, <3>2 DEF RequestInv
  <2> QED
    BY <2>2, <2>3
<1>5. TriesAddUp'
  BY <1>2 DEF Request, TriesAddUp, stats
<1> QED
  BY <1>2, <1>3, <1>4, <1>5

LEMMA PerformIInv ==
  ASSUME IInv, NEW t \in Threads, Perform(t)
  PROVE  IInv'
<1> USE DEF IInv
<1>1. Go(t, "counting") /\ pc[t] = "trying"
  BY DEF Perform
<1>2. PICK o \in Outcomes, done \in {0, 1} :
        /\ o = "success" => done = 1
        /\ outcome' = [outcome EXCEPT ![t] = o]
        /\ served' = [served EXCEPT ![t] = @ + done]
  BY DEF Perform
<1>3. Unsorted' = Unsorted
  BY <1>1, Moves DEF Places, Counted, Unsorted
<1>4. TypeOK'
  <2>1. outcome' \in [Threads -> Outcomes \cup {None}]
    BY <1>2 DEF TypeOK
  <2>2. served' \in [Threads -> Nat]
    <3>1. served \in [Threads -> Nat]
      BY DEF TypeOK
    <3>2. served' = [served EXCEPT ![t] = served[t] + done]
      BY <1>2
    <3> HIDE DEF IInv
    <3> QED
      BY <3>1, <3>2
  <2> QED
    BY <1>1, <2>1, <2>2, Moves, Locks DEF Perform, TypeOK, Places, Waits, stats
<1>5. \A u \in Threads : RequestInv(u)'
  <2> /\ attempt' = attempt /\ served \in [Threads -> Nat] /\ attempt \in [Threads -> Nat]
      /\ outcome \in [Threads -> Outcomes \cup {None}]
    BY DEF Perform, TypeOK
  <2>1. ASSUME NEW u \in Threads, u # t
        PROVE  RequestInv(u)'
    BY <1>1, <1>2, <2>1, Moves, Bystander DEF Places
  <2>2. RequestInv(t)'
    <3>1. pc'[t] = "counting" /\ served'[t] = served[t] + done /\ outcome'[t] = o
      BY <1>1, <1>2, Moves DEF Places
    <3>2. served[t] \in Nat /\ served[t] <= attempt[t] - 1 /\ attempt[t] \in 1 .. Tries
          /\ (outcome[t] = "success" => served[t] >= 1) /\ attempt'[t] = attempt[t]
      BY <1>1 DEF RequestInv
    <3> HIDE DEF IInv
    <3> QED
      BY <1>2, <3>1, <3>2, TriesProperty DEF RequestInv
  <2> QED
    BY <2>1, <2>2
<1>6. TriesAddUp'
  BY <1>3 DEF Perform, TriesAddUp, stats
<1> QED
  BY <1>3, <1>4, <1>5, <1>6

LEMMA CountIInv ==
  ASSUME IInv, NEW t \in Threads, Count(t)
  PROVE  IInv'
<1> USE DEF IInv
<1>1. Go(t, "sorting") /\ pc[t] = "counting" /\ t \notin Unsorted
  BY DEF Count, Unsorted
<1>2. Unsorted' = Unsorted \cup {t}
  BY <1>1, Moves DEF Places, Counted
<1>3. TypeOK'
  <2>1. /\ pc' \in [Threads -> Places]
        /\ \A u \in Threads : mutex' = u <=> pc'[u] \in Waits
    BY <1>1, Moves, Locks DEF Count, Places, Waits
  <2>2. /\ attempt' \in [Threads -> Nat] /\ served' \in [Threads -> Nat]
        /\ outcome' \in [Threads -> Outcomes \cup {None}]
    BY DEF Count, TypeOK
  <2>3. /\ total' \in Nat /\ successful' \in Nat /\ failed' \in Nat
        /\ retried' \in Nat /\ rateLimited' \in Nat /\ carried' \in Nat
    <3>1. /\ total \in Nat /\ successful \in Nat /\ failed \in Nat
          /\ retried \in Nat /\ rateLimited \in Nat /\ carried \in Nat
      BY DEF TypeOK
    <3> HIDE DEF IInv
    <3> QED
      BY <3>1 DEF Count, stats
  <2> QED
    BY <2>1, <2>2, <2>3 DEF TypeOK, Places, Waits
<1>4. \A u \in Threads : RequestInv(u)'
  BY <1>1, Moves DEF RequestInv, Places, Count
<1>5. IsFiniteSet(Unsorted') /\ Cardinality(Unsorted') = Cardinality(Unsorted) + 1
      /\ Cardinality(Unsorted) \in Nat
  BY <1>1, <1>2, Joins
<1>6. TriesAddUp'
  <2>1. /\ total \in Nat /\ successful \in Nat /\ failed \in Nat
        /\ retried \in Nat /\ carried \in Nat
    BY DEF TypeOK
  <2> QED
    BY <1>5, <2>1 DEF Count, TriesAddUp
<1> QED
  BY <1>3, <1>4, <1>5, <1>6

LEMMA BeToldToWaitIInv ==
  ASSUME IInv, NEW t \in Threads, BeToldToWait(t)
  PROVE  IInv'
<1> USE DEF IInv
<1>1. Go(t, "told to wait") /\ pc[t] = "sorting" /\ t \in Unsorted
  BY DEF BeToldToWait, Unsorted
<1>2. Unsorted' = Unsorted
  BY <1>1, Moves, Joins DEF Places, Counted
<1>3. TypeOK'
  <2>1. /\ pc' \in [Threads -> Places]
        /\ \A u \in Threads : mutex' = u <=> pc'[u] \in Waits
    BY <1>1, Moves, Locks DEF BeToldToWait, Places, Waits
  <2>2. /\ attempt' \in [Threads -> Nat] /\ served' \in [Threads -> Nat]
        /\ outcome' \in [Threads -> Outcomes \cup {None}]
    BY DEF BeToldToWait, TypeOK
  <2>3. /\ total' \in Nat /\ successful' \in Nat /\ failed' \in Nat
        /\ retried' \in Nat /\ rateLimited' \in Nat /\ carried' \in Nat
    <3>1. /\ total \in Nat /\ successful \in Nat /\ failed \in Nat
          /\ retried \in Nat /\ rateLimited \in Nat /\ carried \in Nat
      BY DEF TypeOK
    <3>2. rateLimited' = rateLimited + 1 /\ UNCHANGED <<total, successful, failed, retried, carried>>
      BY DEF BeToldToWait
    <3> QED
      BY <3>1, <3>2
  <2> QED
    BY <2>1, <2>2, <2>3 DEF TypeOK, Places, Waits
<1>4. \A u \in Threads : RequestInv(u)'
  <2>1. attempt[t] < MaxRetries
    BY DEF BeToldToWait, Retries, MayRetry
  <2> QED
    BY <1>1, <2>1, Moves DEF RequestInv, Places, BeToldToWait
<1>5. TriesAddUp'
  BY <1>2 DEF BeToldToWait, TriesAddUp
<1> QED
  BY <1>2, <1>3, <1>4, <1>5

LEMMA WaitedAsToldIInv ==
  ASSUME IInv, NEW t \in Threads, WaitedAsTold(t)
  PROVE  IInv'
<1> USE DEF IInv
<1>1. Go(t, "retrying") /\ pc[t] = "told to wait" /\ t \in Unsorted
  BY DEF WaitedAsTold, Unsorted
<1>2. Unsorted' = Unsorted
  BY <1>1, Moves, Joins DEF Places, Counted
<1>3. TypeOK'
  <2>1. /\ pc' \in [Threads -> Places]
        /\ \A u \in Threads : mutex' = u <=> pc'[u] \in Waits
    BY <1>1, Moves, Locks DEF WaitedAsTold, Places, Waits
  <2>2. /\ attempt' \in [Threads -> Nat] /\ served' \in [Threads -> Nat]
        /\ outcome' \in [Threads -> Outcomes \cup {None}]
    BY DEF WaitedAsTold, TypeOK
  <2>3. /\ total' \in Nat /\ successful' \in Nat /\ failed' \in Nat
        /\ retried' \in Nat /\ rateLimited' \in Nat /\ carried' \in Nat
    <3>1. /\ total \in Nat /\ successful \in Nat /\ failed \in Nat
          /\ retried \in Nat /\ rateLimited \in Nat /\ carried \in Nat
      BY DEF TypeOK
    <3> HIDE DEF IInv
    <3> QED
      BY <3>1 DEF WaitedAsTold, stats
  <2> QED
    BY <2>1, <2>2, <2>3 DEF TypeOK, Places, Waits
<1>4. \A u \in Threads : RequestInv(u)'
  BY <1>1, Moves DEF RequestInv, Places, WaitedAsTold
<1>5. TriesAddUp'
  BY <1>2 DEF WaitedAsTold, TriesAddUp, stats
<1> QED
  BY <1>2, <1>3, <1>4, <1>5

LEMMA BackOffIInv ==
  ASSUME IInv, NEW t \in Threads, BackOff(t)
  PROVE  IInv'
<1> USE DEF IInv
<1>1. Go(t, "backing off") /\ pc[t] \in {"retrying", "sorting"} /\ t \in Unsorted
  BY DEF BackOff, Unsorted
<1>2. Unsorted' = Unsorted \ {t}
  BY <1>1, Moves DEF Places, Counted
<1>3. TypeOK'
  <2>1. /\ pc' \in [Threads -> Places]
        /\ \A u \in Threads : mutex' = u <=> pc'[u] \in Waits
    BY <1>1, Moves, Locks DEF BackOff, Places, Waits
  <2>2. /\ attempt' \in [Threads -> Nat] /\ served' \in [Threads -> Nat]
        /\ outcome' \in [Threads -> Outcomes \cup {None}]
    BY DEF BackOff, TypeOK
  <2>3. /\ total' \in Nat /\ successful' \in Nat /\ failed' \in Nat
        /\ retried' \in Nat /\ rateLimited' \in Nat /\ carried' \in Nat
    <3>1. /\ total \in Nat /\ successful \in Nat /\ failed \in Nat
          /\ retried \in Nat /\ rateLimited \in Nat /\ carried \in Nat
      BY DEF TypeOK
    <3>2. retried' = retried + 1 /\ UNCHANGED <<total, successful, failed, rateLimited, carried>>
      BY DEF BackOff
    <3> QED
      BY <3>1, <3>2
  <2> QED
    BY <2>1, <2>2, <2>3 DEF TypeOK, Places, Waits
<1>4. \A u \in Threads : RequestInv(u)'
  <2>1. attempt[t] < MaxRetries
    BY DEF BackOff, Retries, MayRetry, RequestInv
  <2> QED
    BY <1>1, <2>1, Moves DEF RequestInv, Places, BackOff
<1>5. IsFiniteSet(Unsorted') /\ Cardinality(Unsorted') = Cardinality(Unsorted) - 1
      /\ Cardinality(Unsorted) \in Nat
  BY <1>1, <1>2, Joins
<1>6. TriesAddUp'
  <2>1. /\ total \in Nat /\ successful \in Nat /\ failed \in Nat
        /\ retried \in Nat /\ carried \in Nat
    BY DEF TypeOK
  <2>2. retried' = retried + 1 /\ UNCHANGED <<total, successful, failed, carried>>
    BY DEF BackOff
  <2> QED
    BY <1>5, <2>1, <2>2 DEF TriesAddUp
<1> QED
  BY <1>3, <1>4, <1>5, <1>6

LEMMA TryAgainIInv ==
  ASSUME IInv, NEW t \in Threads, TryAgain(t)
  PROVE  IInv'
<1> USE DEF IInv
<1>1. Go(t, "trying") /\ pc[t] = "backing off" /\ t \notin Unsorted
  BY DEF TryAgain, Unsorted
<1>2. Unsorted' = Unsorted
  BY <1>1, Moves, Joins DEF Places, Counted
<1>3. TypeOK'
  <2>1. /\ pc' \in [Threads -> Places]
        /\ \A u \in Threads : mutex' = u <=> pc'[u] \in Waits
    BY <1>1, Moves, Locks DEF TryAgain, Places, Waits
  <2>2. /\ attempt' \in [Threads -> Nat] /\ served' \in [Threads -> Nat]
        /\ outcome' \in [Threads -> Outcomes \cup {None}]
    <3>1. /\ attempt \in [Threads -> Nat] /\ served \in [Threads -> Nat]
          /\ outcome \in [Threads -> Outcomes \cup {None}]
      BY DEF TypeOK
    <3>2. attempt' = [attempt EXCEPT ![t] = attempt[t] + 1] /\ UNCHANGED <<outcome, served>>
      BY DEF TryAgain
    <3> HIDE DEF IInv
    <3> QED
      BY <3>1, <3>2
  <2>3. /\ total' \in Nat /\ successful' \in Nat /\ failed' \in Nat
        /\ retried' \in Nat /\ rateLimited' \in Nat /\ carried' \in Nat
    <3>1. /\ total \in Nat /\ successful \in Nat /\ failed \in Nat
          /\ retried \in Nat /\ rateLimited \in Nat /\ carried \in Nat
      BY DEF TypeOK
    <3> HIDE DEF IInv
    <3> QED
      BY <3>1 DEF TryAgain, stats
  <2> QED
    BY <2>1, <2>2, <2>3 DEF TypeOK, Places, Waits
<1>4. \A u \in Threads : RequestInv(u)'
  <2>1. attempt' = [attempt EXCEPT ![t] = @ + 1] /\ UNCHANGED <<outcome, served>>
    BY DEF TryAgain
  <2> attempt \in [Threads -> Nat] /\ served \in [Threads -> Nat]
    BY DEF TypeOK
  <2>2. ASSUME NEW u \in Threads, u # t
        PROVE  RequestInv(u)'
    BY <1>1, <2>1, <2>2, Moves, Bystander DEF Places
  <2>3. RequestInv(t)'
    <3>1. pc'[t] = "trying" /\ attempt'[t] = attempt[t] + 1 /\ served'[t] = served[t]
          /\ outcome'[t] = outcome[t] /\ attempt[t] \in Nat /\ served[t] \in Nat
      BY <1>1, <2>1, Moves DEF Places
    <3>2. attempt[t] < MaxRetries /\ attempt[t] \in 1 .. Tries /\ served[t] <= attempt[t]
          /\ (outcome[t] = "success" => served[t] >= 1)
      BY <1>1 DEF RequestInv
    <3> HIDE DEF IInv
    <3> QED
      BY <3>1, <3>2, TriesProperty DEF RequestInv
  <2> QED
    BY <2>2, <2>3
<1>5. TriesAddUp'
  BY <1>2 DEF TryAgain, TriesAddUp, stats
<1> QED
  BY <1>2, <1>3, <1>4, <1>5

LEMMA AnswerIInv ==
  ASSUME IInv, NEW t \in Threads, Answer(t)
  PROVE  IInv'
<1> USE DEF IInv
<1>1. Go(t, "idle") /\ pc[t] = "sorting" /\ t \in Unsorted
  BY DEF Answer, Unsorted
<1>2. Unsorted' = Unsorted \ {t}
  BY <1>1, Moves DEF Places, Counted
<1>3. /\ attempt' = [attempt EXCEPT ![t] = 0] /\ served' = [served EXCEPT ![t] = 0]
      /\ outcome' = [outcome EXCEPT ![t] = None]
      /\ UNCHANGED <<mutex, total, retried, rateLimited, carried>>
      /\ \/ successful' = successful + 1 /\ UNCHANGED failed
         \/ failed' = failed + 1 /\ UNCHANGED successful
  BY DEF Answer
<1>4. TypeOK'
  <2>1. /\ pc' \in [Threads -> Places]
        /\ \A u \in Threads : mutex' = u <=> pc'[u] \in Waits
    BY <1>1, Moves, Locks DEF Answer, Places, Waits
  <2>2. /\ attempt' \in [Threads -> Nat] /\ served' \in [Threads -> Nat]
        /\ outcome' \in [Threads -> Outcomes \cup {None}]
    BY DEF Answer, TypeOK
  <2>3. /\ total' \in Nat /\ successful' \in Nat /\ failed' \in Nat
        /\ retried' \in Nat /\ rateLimited' \in Nat /\ carried' \in Nat
    <3>1. /\ total \in Nat /\ successful \in Nat /\ failed \in Nat
          /\ retried \in Nat /\ rateLimited \in Nat /\ carried \in Nat
      BY DEF TypeOK
    <3> HIDE DEF IInv
    <3> QED
      BY <3>1 DEF Answer, stats
  <2> QED
    BY <2>1, <2>2, <2>3 DEF TypeOK, Places, Waits
<1>5. \A u \in Threads : RequestInv(u)'
  <2> /\ attempt \in [Threads -> Nat] /\ served \in [Threads -> Nat]
      /\ outcome \in [Threads -> Outcomes \cup {None}]
    BY DEF TypeOK
  <2>1. ASSUME NEW u \in Threads, u # t
        PROVE  RequestInv(u)'
    BY <1>1, <1>3, <2>1, Moves, Bystander DEF Places
  <2>2. RequestInv(t)'
    <3>1. pc'[t] = "idle" /\ attempt'[t] = 0 /\ served'[t] = 0 /\ outcome'[t] = None
      BY <1>1, <1>3, Moves DEF Places, TypeOK
    <3> HIDE DEF IInv
    <3> QED
      BY <3>1, TriesProperty DEF RequestInv
  <2> QED
    BY <2>1, <2>2
<1>6. IsFiniteSet(Unsorted') /\ Cardinality(Unsorted') = Cardinality(Unsorted) - 1
      /\ Cardinality(Unsorted) \in Nat
  BY <1>1, <1>2, Joins
<1>7. TriesAddUp'
  <2>1. /\ total \in Nat /\ successful \in Nat /\ failed \in Nat
        /\ retried \in Nat /\ carried \in Nat
    BY DEF TypeOK
  <2>2. TriesAddUp
    OBVIOUS
  <2>3. /\ total' = total /\ retried' = retried /\ carried' = carried
        /\ successful' + failed' = successful + failed + 1
    BY <1>3, <2>1
  <2> HIDE DEF IInv
  <2> QED
    BY <1>3, <1>6, <2>1, <2>2, <2>3 DEF TriesAddUp
<1> QED
  BY <1>4, <1>5, <1>6, <1>7

LEMMA ResetIInv ==
  ASSUME IInv, ResetStatistics
  PROVE  IInv'
<1> USE DEF IInv, ResetStatistics
<1>1. Unsorted' = Unsorted /\ Cardinality(Unsorted) \in Nat
  BY FS_CardinalityType DEF Unsorted
<1>2. TypeOK'
  BY <1>1 DEF TypeOK
<1>3. \A u \in Threads : RequestInv(u)'
  BY DEF RequestInv
<1>4. TriesAddUp'
  BY <1>1 DEF TriesAddUp
<1> QED
  BY <1>1, <1>2, <1>3, <1>4

LEMMA StutterIInv == IInv /\ UNCHANGED vars => IInv'
  BY DEF vars, stats, IInv, TypeOK, RequestInv, Unsorted, TriesAddUp

LEMMA NextIInv == IInv /\ [Next]_vars => IInv'
<1> SUFFICES ASSUME IInv, [Next]_vars PROVE IInv'
  OBVIOUS
<1>1. CASE ResetStatistics
  BY <1>1, ResetIInv
<1>2. ASSUME NEW t \in Threads, Request(t)
      PROVE  IInv'
  BY <1>2, RequestIInv
<1>3. ASSUME NEW t \in Threads, Progress(t)
      PROVE  IInv'
  BY <1>3, PerformIInv, CountIInv, BeToldToWaitIInv, WaitedAsToldIInv, BackOffIInv,
     TryAgainIInv, AnswerIInv DEF Progress
<1>4. CASE UNCHANGED vars
  BY <1>4, StutterIInv
<1> QED
  BY <1>1, <1>2, <1>3, <1>4 DEF Next

LEMMA Inductive == Spec => []IInv
  BY InitIInv, NextIInv, PTL DEF Spec

------------------------------------------------------------------------------
\* stats_mutex is held exactly by the thread that waits out a retry, at most
\* one of them, and the state stays within its types.
THEOREM TypeCorrect == Spec => []TypeOK
<1>1. IInv => TypeOK
  BY DEF IInv
<1> QED
  BY <1>1, Inductive, PTL

\* With any number of threads between their two visits to the mutex and resets
\* in between, each try counted is a success, a failure, a retry or on its way
\* to be one.
THEOREM CountersAddUp == Spec => []TriesAddUp
<1>1. IInv => TriesAddUp
  BY DEF IInv
<1> QED
  BY <1>1, Inductive, PTL

\* The server does what a request asks for at most max_retries times, and at
\* least once where the caller is told so.
THEOREM Bounded == Spec => []ServedBounded
<1>1. IInv => ServedBounded
  <2> SUFFICES ASSUME IInv, NEW t \in Threads
               PROVE  /\ served[t] <= Tries
                      /\ outcome[t] = "success" => served[t] >= 1
    BY DEF ServedBounded, Tries
  <2>1. RequestInv(t) /\ served[t] \in Nat /\ attempt[t] \in Nat
    BY DEF IInv, TypeOK
  <2> HIDE DEF IInv
  <2>2. served[t] <= Tries
    <3>1. pc[t] = "idle" => served[t] = 0
      BY <2>1 DEF RequestInv
    <3>2. pc[t] # "idle" => attempt[t] \in 1 .. Tries /\ served[t] <= attempt[t]
      BY <2>1 DEF RequestInv
    <3> QED
      BY <2>1, <3>1, <3>2, TriesProperty
  <2> QED
    BY <2>1, <2>2 DEF RequestInv
<1> QED
  BY <1>1, Inductive, PTL

------------------------------------------------------------------------------
(* RateLimiter                                                             *)

\* How long the limit of a second makes a request sleep, the requests noted
\* in the last a ticks, and how many those may be.
Step == Second \div PerSecond
Noted(a) == CountSince(timestamps, a)
Most(a) == PerSecond + a \div Step

\* A request that sleeps, for the limit of a second or less, will find in that
\* time nothing noted since it went to sleep; one that sleeps for another limit
\* finds fewer than the limit of a second.
SleeperInv ==
    \/ \A a \in 0 .. Second - 1 : Noted(a) < PerSecond
    \/ /\ waiting <= Step
       /\ \A a \in 0 .. Second - 1 :
             /\ a < Step - waiting => Noted(a) = 0
             /\ a >= Step - waiting => Noted(a) <= Most(a - (Step - waiting))

LimiterInv == /\ timestamps \in Seq(0 .. Hour)
              /\ waiting \in Nat \cup {Nobody}
              /\ \A a \in 0 .. Second - 1 : Noted(a) <= Most(a)
              /\ waiting # Nobody => SleeperInv

------------------------------------------------------------------------------
\* Division rounds down.
LEMMA Quotient ==
  ASSUME NEW a \in Nat, NEW d \in Nat \ {0}
  PROVE  a \div d \in Nat /\ d * (a \div d) <= a /\ a < d * (a \div d) + d
  BY Z3

LEMMA QuotientIs ==
  ASSUME NEW a \in Nat, NEW d \in Nat \ {0}, NEW q \in Nat, d * q <= a, a < d * q + d
  PROVE  a \div d = q
  BY Z3

LEMMA Durations ==
  /\ PerSecond \in Nat \ {0} /\ Second \in Nat \ {0} /\ Hour \in Nat \ {0} /\ Second <= Hour
  /\ Step \in Nat \ {0}
  /\ Minute \div PerMinute \in Nat /\ Hour \div PerHour \in Nat
<1>1. /\ PerSecond \in Nat \ {0} /\ PerMinute \in Nat \ {0} /\ PerHour \in Nat \ {0}
      /\ Second \in Nat /\ Minute \in Nat /\ Hour \in Nat
      /\ PerSecond <= Second /\ Second <= Hour
  BY LimiterAssumption
<1>2. Step \in Nat /\ Second < PerSecond * Step + PerSecond
  BY <1>1, Quotient DEF Step
<1>3. Step # 0
  BY <1>1, <1>2
<1>4. Minute \div PerMinute \in Nat /\ Hour \div PerHour \in Nat
  BY <1>1, Quotient
<1> QED
  BY <1>1, <1>2, <1>3, <1>4

\* One more request may be noted for each time the sleep fits in.
LEMMA MostGrows ==
  ASSUME NEW a \in Nat
  PROVE  /\ Most(a) \in Nat /\ PerSecond <= Most(a)
         /\ Most(a) <= Most(a + 1)
         /\ Most(a + Step) = Most(a) + 1
<1> DEFINE q == a \div Step
<1>1. Step \in Nat \ {0} /\ PerSecond \in Nat
  BY Durations
<1>2. q \in Nat /\ Step * q <= a /\ a < Step * q + Step
  BY <1>1, Quotient
<1>3. (a + Step) \div Step = q + 1
  <2>1. Step * (q + 1) = Step * q + Step
    BY <1>1, <1>2
  <2>2. a + Step \in Nat /\ q + 1 \in Nat /\ Step * (q + 1) <= a + Step /\ a + Step < Step * (q + 1) + Step
    BY <1>1, <1>2, <2>1
  <2> HIDE DEF q
  <2> QED
    BY <1>1, <2>2, QuotientIs
<1>4. (a + 1) \div Step \in {q, q + 1}
  <2>1. CASE a + 1 < Step * q + Step
    <3> HIDE DEF q
    <3>1. (a + 1) \div Step = q
      BY <1>1, <1>2, <2>1, QuotientIs
    <3> QED
      BY <3>1
  <2>2. CASE a + 1 >= Step * q + Step
    <3>1. Step * (q + 1) = Step * q + Step
      BY <1>1, <1>2
    <3> HIDE DEF q
    <3>2. (a + 1) \div Step = q + 1
      BY <1>1, <1>2, <2>2, <3>1, QuotientIs
    <3> QED
      BY <3>2
  <2> QED
    BY <1>1, <1>2, <2>1, <2>2
<1> HIDE DEF q
<1>5. Most(a) = PerSecond + q
  BY DEF Most, q
<1> QED
  BY <1>1, <1>2, <1>3, <1>4, <1>5 DEF Most

LEMMA Ages ==
  ASSUME NEW a \in 0 .. Second - 1
  PROVE  a \in Nat /\ a < Hour /\ Most(a) \in Nat /\ PerSecond <= Most(a)
<1>1. a \in Nat /\ a < Hour
  BY Durations
<1> QED
  BY <1>1, MostGrows

\* Those noted since a time are finitely many, and more the longer ago it is.
LEMMA Counts ==
  ASSUME NEW s \in Seq(Nat), NEW a \in Int
  PROVE  /\ CountSince(s, a) \in Nat
         /\ IsFiniteSet({i \in DOMAIN s : s[i] <= a})
         /\ \A b \in Int : a <= b => CountSince(s, a) <= CountSince(s, b)
<1>1. IsFiniteSet(DOMAIN s)
  <2>1. DOMAIN s = 1 .. Len(s) /\ Len(s) \in Int
    OBVIOUS
  <2> QED
    BY <2>1, FS_Interval
<1>2. \A b \in Int : IsFiniteSet({i \in DOMAIN s : s[i] <= b})
  BY <1>1, FS_Subset
<1>3. CountSince(s, a) \in Nat
  BY <1>2, FS_CardinalityType DEF CountSince
<1>4. ASSUME NEW b \in Int, a <= b
      PROVE  CountSince(s, a) <= CountSince(s, b)
  <2>1. \A i \in DOMAIN s : s[i] \in Nat
    OBVIOUS
  <2>2. {i \in DOMAIN s : s[i] <= a} \subseteq {i \in DOMAIN s : s[i] <= b}
    BY <1>4, <2>1
  <2> QED
    BY <1>2, <2>2, FS_Subset DEF CountSince
<1> QED
  BY <1>2, <1>3, <1>4

\* To note one counts it from now on.
LEMMA CountsOneMore ==
  ASSUME NEW s \in Seq(Nat), NEW a \in Nat
  PROVE  CountSince(Append(s, 0), a) = CountSince(s, a) + 1
<1> DEFINE R == {i \in DOMAIN s : s[i] <= a}
           n == Len(s) + 1
<1>1. /\ DOMAIN s = 1 .. Len(s) /\ DOMAIN Append(s, 0) = 1 .. n /\ Len(s) \in Nat
      /\ \A i \in 1 .. Len(s) : Append(s, 0)[i] = s[i]
      /\ Append(s, 0)[n] = 0
  OBVIOUS
<1>2. {i \in DOMAIN Append(s, 0) : Append(s, 0)[i] <= a} = R \cup {n}
  BY <1>1
<1>3. n \notin R
  BY <1>1
<1>4. IsFiniteSet(R)
  BY Counts
<1> HIDE DEF R, n
<1>5. Cardinality(R \cup {n}) = Cardinality(R) + 1
  BY <1>3, <1>4, FS_AddElement
<1> QED
  BY <1>2, <1>5 DEF CountSince, R

\* To forget some from the front counts no more than before.
LEMMA CountsFewer ==
  ASSUME NEW s \in Seq(Nat), NEW k \in 0 .. Len(s), NEW a \in Nat
  PROVE  LET rest == SubSeq(s, k + 1, Len(s))
         IN  rest \in Seq(Nat) /\ CountSince(rest, a) <= CountSince(s, a)
<1> DEFINE rest == SubSeq(s, k + 1, Len(s))
           Q == {i \in DOMAIN rest : rest[i] <= a}
           R == {i \in DOMAIN s : s[i] <= a}
           f == [i \in Q |-> i + k]
<1>1. /\ Len(s) \in Nat /\ k \in Nat /\ k <= Len(s) /\ DOMAIN s = 1 .. Len(s)
      /\ rest \in Seq(Nat) /\ DOMAIN rest = 1 .. Len(s) - k
  OBVIOUS
<1>2. \A i \in 1 .. Len(s) - k : rest[i] = s[i + k]
  BY <1>1
<1> HIDE DEF rest
<1>3. f \in Injection(Q, R)
  <2>1. ASSUME NEW i \in Q PROVE i \in Nat /\ i + k \in R
    <3>1. i \in 1 .. Len(s) - k /\ rest[i] <= a
      BY <1>1
    <3>2. i \in Nat /\ i + k \in 1 .. Len(s)
      BY <1>1, <3>1, SMTT(60)
    <3>3. s[i + k] <= a
      BY <1>2, <3>1
    <3> QED
      BY <1>1, <3>2, <3>3
  <2>2. f \in [Q -> R]
    BY <2>1
  <2>3. \A i, j \in Q : f[i] = f[j] => i = j
    BY <1>1, <2>1
  <2> QED
    BY <2>2, <2>3 DEF Injection, IsInjective
<1>4. IsFiniteSet(R)
  BY Counts
<1> HIDE DEF Q, R, f
<1>5. Cardinality(Q) <= Cardinality(R)
  BY <1>3, <1>4, FS_Injection
<1> QED
  BY <1>1, <1>5 DEF CountSince, Q, R, rest

\* What LimiterInv says of the requests noted is about numbers that grow with a.
LEMMA NotedCounts ==
  ASSUME timestamps \in Seq(0 .. Hour)
  PROVE  /\ timestamps \in Seq(Nat)
         /\ \A a \in Int : Noted(a) \in Nat
         /\ \A a, b \in Int : a <= b => Noted(a) <= Noted(b)
<1>1. timestamps \in Seq(Nat)
  BY Durations
<1> QED
  BY <1>1, Counts DEF Noted

\* None noted is within every bound.
LEMMA EmptyIsFine ==
  ASSUME timestamps = <<>>, waiting = Nobody
  PROVE  LimiterInv
<1>1. \A a \in 0 .. Second - 1 : Noted(a) = 0
  <2>1. {i \in DOMAIN timestamps : timestamps[i] <= Second} = {}
    OBVIOUS
  <2>2. \A a \in 0 .. Second - 1 : {i \in DOMAIN timestamps : timestamps[i] <= a} = {}
    OBVIOUS
  <2> QED
    BY <2>2, FS_EmptySet DEF Noted, CountSince
<1>2. \A a \in 0 .. Second - 1 : Most(a) \in Nat
  BY Ages
<1>3. \A a \in 0 .. Second - 1 : Noted(a) <= Most(a)
  BY <1>1, <1>2
<1>4. timestamps \in Seq(0 .. Hour)
  OBVIOUS
<1> QED
  BY <1>3, <1>4 DEF LimiterInv

LEMMA CheckKeeps == LimiterInv /\ Check => LimiterInv'
<1> SUFFICES ASSUME LimiterInv, Check PROVE LimiterInv'
  OBVIOUS
<1>1. /\ timestamps \in Seq(0 .. Hour) /\ timestamps' = Remembered /\ waiting' = Sleep(Remembered)
      /\ \A a \in 0 .. Second - 1 : Noted(a) <= Most(a)
  BY DEF LimiterInv, Check, Free
<1>2. /\ Remembered \in Seq(0 .. Hour)
      /\ \A a \in Nat : CountSince(Remembered, a) <= CountSince(timestamps, a)
  <2> DEFINE k == Cardinality(Forgotten)
  <2>1. k \in 0 .. Len(timestamps)
    <3>1. DOMAIN timestamps = 1 .. Len(timestamps) /\ Len(timestamps) \in Nat
      BY <1>1
    <3>2. Forgotten \subseteq 1 .. Len(timestamps)
      BY <3>1 DEF Forgotten
    <3> DEFINE n == Len(timestamps)
    <3> HIDE DEF n
    <3>5. n \in Nat
      BY <3>1 DEF n
    <3>6. IsFiniteSet(1 .. n) /\ Cardinality(1 .. n) = IF 1 > n THEN 0 ELSE n - 1 + 1
      BY <3>5, FS_Interval
    <3>3. IsFiniteSet(1 .. Len(timestamps)) /\ Cardinality(1 .. Len(timestamps)) = Len(timestamps)
      BY <3>5, <3>6 DEF n
    <3>4. IsFiniteSet(Forgotten) /\ k <= Len(timestamps)
      BY <3>2, <3>3, FS_Subset
    <3> QED
      BY <3>1, <3>4, FS_CardinalityType
  <2> HIDE DEF k
  <2>2. Remembered = SubSeq(timestamps, k + 1, Len(timestamps))
    BY DEF Remembered, k
  <2>3. timestamps \in Seq(Nat)
    BY <1>1, NotedCounts
  <2>4. Remembered \in Seq(0 .. Hour)
    <3>1. \A s \in Seq(0 .. Hour) : \A j \in 0 .. Len(s) : SubSeq(s, j + 1, Len(s)) \in Seq(0 .. Hour)
      <4> DEFINE S == 0 .. Hour
      <4> HIDE DEF S
      <4>1. \A s \in Seq(S) : \A j \in 0 .. Len(s) : SubSeq(s, j + 1, Len(s)) \in Seq(S)
        OBVIOUS
      <4> QED
        BY <4>1 DEF S
    <3> QED
      BY <1>1, <2>1, <2>2, <3>1
  <2> QED
    BY <2>1, <2>2, <2>3, <2>4, CountsFewer
<1>3. timestamps' \in Seq(0 .. Hour)
  BY <1>1, <1>2
<1>4. /\ \A a \in Int : Noted(a)' \in Nat
      /\ \A a, b \in Int : a <= b => Noted(a)' <= Noted(b)'
  <2>1. timestamps' \in Seq(Nat)
    BY <1>3, Durations
  <2> QED
    BY <2>1, Counts DEF Noted
<1>5. \A a \in 0 .. Second - 1 : Noted(a)' <= Most(a)
  <2> SUFFICES ASSUME NEW a \in 0 .. Second - 1
               PROVE  Noted(a)' <= Most(a)
    OBVIOUS
  <2>1. a \in Nat /\ Noted(a)' \in Nat /\ Noted(a) \in Nat /\ Most(a) \in Nat
    <3>1. a \in Nat /\ a \in Int /\ Most(a) \in Nat
      BY Ages
    <3> QED
      BY <1>1, <1>4, <3>1, NotedCounts
  <2>2. Noted(a)' <= Noted(a)
    BY <1>1, <1>2, <2>1 DEF Noted
  <2>3. Noted(a) <= Most(a)
    BY <1>1
  <2> QED
    BY <2>1, <2>2, <2>3
<1>6. waiting' \in Nat /\ SleeperInv'
  <2>1. CASE CountSince(Remembered, Second) >= PerSecond
    <3>1. waiting' = Step
      BY <1>1, <2>1 DEF Sleep, Step
    <3>2. \A a \in 0 .. Second - 1 : a - (Step - waiting') = a
      BY <3>1, Durations
    <3>3. \A a \in 0 .. Second - 1 : ~(a < Step - waiting')
      BY <3>1, Durations
    <3> QED
      BY <1>5, <3>1, <3>2, <3>3, Durations DEF SleeperInv
  <2>2. CASE ~(CountSince(Remembered, Second) >= PerSecond)
    <3>1. waiting' \in Nat
      BY <1>1, <2>2, Durations DEF Sleep
    <3>2. Noted(Second)' < PerSecond
      BY <1>1, <1>4, <2>2, Durations DEF Noted
    <3>3. \A a \in 0 .. Second - 1 : Noted(a)' < PerSecond
      BY <1>4, <3>2, Durations
    <3> QED
      BY <3>1, <3>3 DEF SleeperInv
  <2> QED
    BY <2>1, <2>2
<1> QED
  BY <1>3, <1>5, <1>6 DEF LimiterInv

LEMMA PassKeeps == LimiterInv /\ Pass => LimiterInv'
<1> SUFFICES ASSUME LimiterInv, Pass PROVE LimiterInv'
  OBVIOUS
<1>1. /\ timestamps \in Seq(0 .. Hour) /\ waiting = 0 /\ SleeperInv
      /\ timestamps' = Append(timestamps, 0) /\ waiting' = Nobody
  BY DEF LimiterInv, Pass, Nobody
<1>2. \A a \in Nat : Noted(a)' = Noted(a) + 1 /\ Noted(a) \in Nat
  <2>1. timestamps \in Seq(Nat) /\ \A a \in Int : Noted(a) \in Nat
    BY <1>1, NotedCounts
  <2>2. \A a \in Nat : CountSince(Append(timestamps, 0), a) = CountSince(timestamps, a) + 1
    BY <2>1, CountsOneMore
  <2>3. \A a \in Nat : Noted(a)' = CountSince(timestamps, a) + 1
    BY <1>1, <2>2 DEF Noted
  <2>4. \A a \in Nat : a \in Int
    OBVIOUS
  <2> QED
    BY <2>1, <2>3, <2>4 DEF Noted
<1>3. ASSUME NEW a \in 0 .. Second - 1
      PROVE  Noted(a)' <= Most(a)
  <2>1. /\ a \in Nat /\ Most(a) \in Nat /\ PerSecond <= Most(a) /\ PerSecond \in Nat \ {0}
        /\ Step \in Nat \ {0}
    BY Durations, MostGrows
  <2>2. CASE Noted(a) < PerSecond
    BY <1>2, <2>1, <2>2
  <2>3. CASE a < Step /\ Noted(a) = 0
    BY <1>2, <2>1, <2>3
  <2>4. CASE a >= Step /\ Noted(a) <= Most(a - Step)
    <3>1. a - Step \in Nat /\ (a - Step) + Step = a
      BY <2>1, <2>4
    <3>2. Most(a) = Most(a - Step) + 1 /\ Most(a - Step) \in Nat
      BY <3>1, MostGrows
    <3> QED
      BY <1>2, <2>1, <2>4, <3>2
  <2>5. \/ Noted(a) < PerSecond
        \/ (a < Step => Noted(a) = 0) /\ (a >= Step => Noted(a) <= Most(a - Step))
    <3>1. Step - waiting = Step
      BY <1>1, <2>1
    <3> QED
      BY <1>1, <3>1 DEF SleeperInv
  <2> QED
    BY <2>1, <2>2, <2>3, <2>4, <2>5
<1>4. timestamps' \in Seq(0 .. Hour)
  BY <1>1, Durations
<1> QED
  BY <1>1, <1>3, <1>4 DEF LimiterInv

LEMMA TickKeeps == LimiterInv /\ Tick => LimiterInv'
<1> SUFFICES ASSUME LimiterInv, Tick PROVE LimiterInv'
  OBVIOUS
<1>1. /\ timestamps \in Seq(0 .. Hour) /\ waiting \in Nat \cup {Nobody}
      /\ timestamps' = [i \in DOMAIN timestamps |-> Older(timestamps[i])]
      /\ waiting' = IF waiting > 0 THEN waiting - 1 ELSE waiting
      /\ \A a \in 0 .. Second - 1 : Noted(a) <= Most(a)
      /\ waiting # Nobody => SleeperInv
  BY DEF LimiterInv, Tick
<1>2. /\ DOMAIN timestamps = 1 .. Len(timestamps) /\ Len(timestamps) \in Nat
      /\ \A i \in DOMAIN timestamps : timestamps[i] \in 0 .. Hour
  <2> DEFINE S == 0 .. Hour
  <2> HIDE DEF S
  <2>1. timestamps \in Seq(S)
    BY <1>1 DEF S
  <2>2. /\ DOMAIN timestamps = 1 .. Len(timestamps) /\ Len(timestamps) \in Nat
        /\ \A i \in DOMAIN timestamps : timestamps[i] \in S
    BY <2>1
  <2> QED
    BY <2>2 DEF S
<1>3. /\ timestamps' \in Seq(0 .. Hour) /\ DOMAIN timestamps' = DOMAIN timestamps
      /\ \A i \in DOMAIN timestamps : timestamps'[i] = Older(timestamps[i])
  <2>1. \A age \in 0 .. Hour : Older(age) \in 0 .. Hour
    BY Durations DEF Older
  <2> QED
    BY <1>1, <1>2, <2>1
<1>4. \A a \in 0 .. Second - 1 : Noted(a)' = Noted(a - 1)
  <2> SUFFICES ASSUME NEW a \in 0 .. Second - 1
               PROVE  {i \in DOMAIN timestamps' : timestamps'[i] <= a}
                      = {i \in DOMAIN timestamps : timestamps[i] <= a - 1}
    BY DEF Noted, CountSince
  <2>1. \A age \in 0 .. Hour : Older(age) <= a <=> age <= a - 1
    BY Durations DEF Older
  <2> QED
    BY <1>2, <1>3, <2>1
<1>5. /\ \A a \in Int : Noted(a) \in Nat
      /\ \A a, b \in Int : a <= b => Noted(a) <= Noted(b)
  BY <1>1, NotedCounts
<1>6. Noted(0 - 1) = 0
  <2>1. {i \in DOMAIN timestamps : timestamps[i] <= 0 - 1} = {}
    BY <1>2
  <2> QED
    BY <2>1, FS_EmptySet DEF Noted, CountSince
<1>7. \A a \in 0 .. Second - 1 : Noted(a)' <= Noted(a) /\ Noted(a)' \in Nat
  BY <1>4, <1>5
<1>8. \A a \in 0 .. Second - 1 : Noted(a)' <= Most(a)
  <2> SUFFICES ASSUME NEW a \in 0 .. Second - 1
               PROVE  Noted(a)' <= Most(a)
    OBVIOUS
  <2>1. a \in Int /\ Most(a) \in Nat
    BY Ages
  <2>2. Noted(a) \in Nat /\ Noted(a) <= Most(a)
    BY <1>1, <1>5, <2>1
  <2> QED
    BY <1>7, <2>1, <2>2
<1>9. ASSUME waiting' # Nobody
      PROVE  SleeperInv'
  <2>1. waiting \in Nat /\ SleeperInv
    BY <1>1, <1>9 DEF Nobody
  <2>2. CASE \A a \in 0 .. Second - 1 : Noted(a) < PerSecond
    <3>1. \A a \in 0 .. Second - 1 : Noted(a)' < PerSecond
      BY <1>5, <1>7, <2>2, Durations
    <3> QED
      BY <3>1 DEF SleeperInv
  <2>3. CASE /\ waiting <= Step
             /\ \A a \in 0 .. Second - 1 :
                   /\ a < Step - waiting => Noted(a) = 0
                   /\ a >= Step - waiting => Noted(a) <= Most(a - (Step - waiting))
    <3> DEFINE g == Step - waiting
               h == Step - waiting'
    <3>1. waiting' \in Nat /\ waiting' <= Step /\ g \in Nat /\ h \in Nat /\ h \in {g, g + 1}
          /\ (h = g => g = Step) /\ Step \in Nat \ {0}
      BY <1>1, <2>1, <2>3, Durations
    <3>2. /\ \A a \in 0 .. Second - 1 : /\ a < g => Noted(a) = 0
                                        /\ a >= g => Noted(a) <= Most(a - g)
      BY <2>3
    <3> HIDE DEF g, h
    <3>3. ASSUME NEW a \in 0 .. Second - 1
          PROVE  /\ a < h => Noted(a)' = 0
                 /\ a >= h => Noted(a)' <= Most(a - h)
      <4>1. CASE a = 0
        <5>1. Noted(a)' = 0
          BY <1>4, <1>6, <4>1
        <5>2. a >= h => Most(a - h) \in Nat
          BY <3>1, MostGrows
        <5> QED
          BY <5>1, <5>2
      <4>2. CASE a # 0
        <5> DEFINE b == a - 1
        <5>1. b \in 0 .. Second - 1 /\ b \in Nat /\ Noted(a)' = Noted(b) /\ Noted(b) \in Nat
          BY <1>4, <1>5, <4>2, Durations
        <5>2. (b < g => Noted(b) = 0) /\ (b >= g => Noted(b) <= Most(b - g))
          BY <3>2, <5>1
        <5>3. a < h => b < g
          BY <3>1, <5>1
        <5>4. CASE a >= h
          <6>1. a - h \in Nat /\ Most(a - h) \in Nat
            BY <3>1, <5>1, <5>4, MostGrows
          <6>2. CASE b < g
            BY <5>1, <5>2, <6>1, <6>2
          <6>3. CASE b >= g
            <7>1. b - g \in Nat /\ Most(b - g) \in Nat /\ Most(b - g) <= Most((b - g) + 1)
              BY <3>1, <5>1, <6>3, MostGrows
            <7>2. a - h = b - g \/ a - h = (b - g) + 1
              BY <3>1, <5>1
            <7>3. Most(a - h) = Most(b - g) \/ Most(a - h) = Most((b - g) + 1)
              BY <7>2
            <7>4. Noted(a)' <= Most(a - h)
              BY <5>1, <5>2, <6>1, <6>3, <7>1, <7>3
            <7> QED
              BY <3>1, <5>1, <5>4, <7>4
          <6> QED
            BY <3>1, <5>1, <6>2, <6>3
        <5>5. a < h \/ a >= h
          BY <3>1, <5>1
        <5>6. CASE a < h
          <6>1. b < g /\ ~(a >= h)
            BY <3>1, <5>1, <5>3, <5>6
          <6>2. Noted(b) = 0
            BY <5>2, <6>1
          <6> HIDE DEF b
          <6> QED
            BY <5>1, <6>1, <6>2
        <5> QED
          BY <5>4, <5>5, <5>6
      <4> QED
        BY <4>1, <4>2
    <3> QED
      BY <3>1, <3>3 DEF SleeperInv, h
  <2> QED
    BY <2>1, <2>2, <2>3 DEF SleeperInv
<1>10. waiting' \in Nat \cup {Nobody}
  BY <1>1 DEF Nobody
<1> QED
  BY <1>3, <1>8, <1>9, <1>10 DEF LimiterInv

LEMMA LimiterInductive == LimiterSpec => []LimiterInv
<1>1. LimiterInit => LimiterInv
  BY EmptyIsFine DEF LimiterInit
<1>2. LimiterInv /\ [LimiterNext]_limiterVars => LimiterInv'
  <2> SUFFICES ASSUME LimiterInv, [LimiterNext]_limiterVars PROVE LimiterInv'
    OBVIOUS
  <2>1. CASE Check
    BY <2>1, CheckKeeps
  <2>2. CASE Pass
    BY <2>2, PassKeeps
  <2>3. CASE SetRateLimit
    <3>1. timestamps' = <<>> /\ waiting' = Nobody
      BY <2>3 DEF SetRateLimit, Free
    <3>2. (timestamps = <<>> /\ waiting = Nobody => LimiterInv)'
      BY EmptyIsFine, PTL
    <3> QED
      BY <3>1, <3>2
  <2>4. CASE Tick
    BY <2>4, TickKeeps
  <2>5. CASE UNCHANGED limiterVars
    BY <2>5 DEF limiterVars, LimiterInv, SleeperInv, Noted
  <2> QED
    BY <2>1, <2>2, <2>3, <2>4, <2>5 DEF LimiterNext
<1> QED
  BY <1>1, <1>2, PTL DEF LimiterSpec

\* One sleep for one limit, and no second look at the limits afterwards, lets
\* through in any second no more than requests_per_second and one request for
\* each sleep that fits into it.
THEOREM SecondBounded == LimiterSpec => []SecondIsBounded
<1>1. LimiterInv => SecondIsBounded
  <2>1. Second - 1 \in 0 .. Second - 1
    BY Durations
  <2> QED
    BY <2>1 DEF LimiterInv, SecondIsBounded, Noted, Most, Step
<1> QED
  BY <1>1, LimiterInductive, PTL
==============================================================================
