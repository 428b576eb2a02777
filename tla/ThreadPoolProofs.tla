--------------------------- MODULE ThreadPoolProofs ---------------------------
(***************************************************************************)
(* Theorems about ThreadPool for any number of workers and any calls,      *)
(* nested in each other's tasks in any way, any of which may throw.        *)
(***************************************************************************)
EXTENDS ThreadPool, FiniteSetTheorems, TLAPS

Busy == {w \in Workers : worker[w] \in {"running", "finishing"}}

\* A call that queues has a task left to queue.
CallInv(c) == /\ call[c] = "idle" => queued[c] = 0
              /\ call[c] = "queueing" => queued[c] < Width(c)
              /\ c \in Waiting /\ call[c] = "returned"
                    => CutShort(c) \/ \A t \in Queued : t[1] = c => t \in ready

\* A worker has a task while it runs it.
WorkerInv(w) == /\ w \in Busy => holds[w] \in Tasks
                /\ worker[w] = "finishing" => holds[w] \in ready
                /\ worker[w] = "exited" => stop /\ tasks = <<>>

\* A task that was queued is waiting, taken, or done with.
Placed(t) == \/ t \in ready
             \/ \E i \in DOMAIN tasks : tasks[i] = t
             \/ \E w \in Workers : worker[w] = "running" /\ holds[w] = t

IInv == /\ TypeOK
        /\ \A c \in Calls : CallInv(c)
        /\ \A w \in Workers : WorkerInv(w)
        /\ \A t \in Queued : Placed(t)
        /\ active = Cardinality(Busy)

Places == {"locking", "waiting", "running", "finishing", "exited"}
Stages == {"idle", "queueing", "notifying", "getting", "returned"}

------------------------------------------------------------------------------
LEMMA Pool ==
  /\ Cardinality(Workers) \in Nat /\ Cardinality(Workers) >= 1
  /\ \A c \in Calls : Width(c) \in 1 .. Cardinality(Workers)
<1>1. IsFiniteSet(Workers) /\ Workers # {}
  BY PoolAssumption
<1>2. Cardinality(Workers) \in Nat /\ Cardinality(Workers) # 0
  BY <1>1, FS_CardinalityType, FS_EmptySet
<1> QED
  BY <1>2 DEF Width

LEMMA Task ==
  ASSUME NEW c \in Calls, NEW k \in Nat, k >= 1, k <= Width(c)
  PROVE  <<c, k>> \in Tasks
  BY Pool DEF Tasks

LEMMA IsTask ==
  ASSUME NEW t \in Tasks
  PROVE  t[1] \in Calls /\ t[2] \in Nat /\ t[2] >= 1 /\ t[2] <= Width(t[1]) /\ t = <<t[1], t[2]>>
  BY Pool DEF Tasks

LEMMA BusyFinite ==
  IsFiniteSet(Busy) /\ Cardinality(Busy) \in 0 .. Cardinality(Workers)
<1>1. IsFiniteSet(Workers) /\ Busy \subseteq Workers
  BY PoolAssumption DEF Busy
<1>2. IsFiniteSet(Busy) /\ Cardinality(Busy) <= Cardinality(Workers) /\ Cardinality(Busy) \in Nat
  BY <1>1, FS_Subset, FS_CardinalityType
<1> QED
  BY <1>2, Pool

LEMMA InitIInv == Init => IInv
<1> SUFFICES ASSUME Init PROVE IInv
  OBVIOUS
<1> USE DEF Init
<1>1. TypeOK
  <2>1. 0 \in 0 .. Cardinality(Workers) /\ <<>> \in Seq(Tasks)
    BY Pool
  <2> QED
    BY <2>1 DEF TypeOK
<1>2. Busy = {} /\ Queued = {}
  <2>1. Busy = {}
    BY DEF Busy
  <2>2. ASSUME NEW t \in Queued PROVE FALSE
    BY <2>2, IsTask DEF Queued
  <2> QED
    BY <2>1, <2>2
<1>3. active = Cardinality(Busy)
  BY <1>2, FS_EmptySet
<1>4. \A c \in Calls : CallInv(c)
  BY DEF CallInv
<1>5. \A w \in Workers : WorkerInv(w)
  BY <1>2 DEF WorkerInv
<1> QED
  BY <1>1, <1>2, <1>3, <1>4, <1>5 DEF IInv

------------------------------------------------------------------------------
(* Steps of calls: the workers stay where they are or are woken.           *)

\* A call that was cut short stays it as long as it queues nothing more, which
\* no call does that has returned.
LEMMA StaysCutShort ==
  ASSUME NEW c \in Calls, queued'[c] = queued[c], failed \subseteq failed', threw \subseteq threw'
  PROVE  CutShort(c) => CutShort(c)'
  BY DEF CutShort

LEMMA CallIInv ==
  ASSUME IInv, NEW c \in Calls, Call(c) \/ PushRefused(c)
  PROVE  IInv'
<1>1. TypeOK
  BY DEF IInv
<1>2. PICK stage \in {"queueing", "returned"} :
         /\ call' = [call EXCEPT ![c] = stage] /\ call[c] \in {"idle", "queueing"}
         /\ stage = "queueing" => call[c] = "idle" /\ failed' = failed
         /\ stage = "returned" => failed' = failed \cup {c}
  BY DEF Call, PushRefused
<1>3. /\ tasks' = tasks /\ active' = active /\ stop' = stop /\ worker' = worker /\ holds' = holds
      /\ queued' = queued /\ ready' = ready /\ threw' = threw /\ watcher' = watcher
  BY DEF Call, PushRefused, poolVars, workerVars
<1>4. TypeOK'
  BY <1>1, <1>2, <1>3 DEF TypeOK
<1>5. Busy' = Busy /\ Queued' = Queued
  BY <1>3 DEF Busy, Queued
<1>6. \A d \in Calls : CallInv(d)'
  <2>1. /\ call'[c] = stage /\ \A d \in Calls : d # c => call'[d] = call[d]
        /\ \A d \in Calls : d # c => (d \in failed' <=> d \in failed)
        /\ c \in Waiting /\ stage = "returned" => c \in failed'
    BY <1>1, <1>2 DEF TypeOK
  <2>2. \A d \in Calls : CallInv(d) /\ Width(d) >= 1
    BY Pool DEF IInv
  <2>3. ASSUME NEW d \in Calls, d # c PROVE CallInv(d)'
    <3>1. failed \subseteq failed'
      BY <1>2
    <3>2. CutShort(d) => CutShort(d)'
      BY <1>3, <3>1, StaysCutShort
    <3> QED
      BY <1>3, <1>5, <2>1, <2>2, <2>3, <3>2 DEF CallInv
  <2>4. CallInv(c)'
    <3>1. stage = "returned" => call[c] = "queueing"
      BY <1>1, <2>1 DEF Call, PushRefused, TypeOK
    <3>2. stage = "returned" => CutShort(c)'
      BY <1>2, <1>3, <2>2, <3>1 DEF CutShort, CallInv
    <3> QED
      BY <1>2, <1>3, <1>5, <2>1, <2>2, <3>2, Pool DEF CallInv
  <2> QED
    BY <2>3, <2>4
<1>7. \A w \in Workers : WorkerInv(w)'
  BY <1>3, <1>5 DEF IInv, WorkerInv
<1>8. \A t \in Queued' : Placed(t)'
  BY <1>3, <1>5 DEF IInv, Placed
<1> QED
  BY <1>3, <1>4, <1>5, <1>6, <1>7, <1>8 DEF IInv

LEMMA PushIInv ==
  ASSUME IInv, NEW c \in Calls, Push(c)
  PROVE  IInv'
<1>0. PICK t : t = <<c, queued[c] + 1>>
  OBVIOUS
<1>1. TypeOK /\ CallInv(c)
  BY DEF IInv
<1>2. /\ call[c] = "queueing" /\ ~stop /\ tasks' = Append(tasks, t)
      /\ queued' = [queued EXCEPT ![c] = @ + 1] /\ call' = [call EXCEPT ![c] = "notifying"]
      /\ active' = active /\ stop' = stop /\ worker' = worker /\ holds' = holds
      /\ failed' = failed /\ ready' = ready /\ threw' = threw /\ watcher' = watcher
  BY <1>0 DEF Push, workerVars
<1>3. queued[c] \in Nat /\ queued[c] < Width(c) /\ Width(c) \in 1 .. Cardinality(Workers)
  BY <1>1, <1>2, Pool DEF TypeOK, CallInv
<1>4. t \in Tasks
  BY <1>0, <1>3, Task
<1>5. /\ tasks' \in Seq(Tasks) /\ Len(tasks') = Len(tasks) + 1 /\ tasks'[Len(tasks) + 1] = t
      /\ \A i \in DOMAIN tasks : i \in DOMAIN tasks' /\ tasks'[i] = tasks[i]
      /\ Len(tasks) + 1 \in DOMAIN tasks'
  BY <1>1, <1>2, <1>4 DEF TypeOK
<1>6. /\ queued'[c] = queued[c] + 1 /\ \A d \in Calls : d # c => queued'[d] = queued[d]
      /\ queued' \in [Calls -> 0 .. Cardinality(Workers)]
  BY <1>1, <1>2, <1>3, Pool DEF TypeOK
<1>7. TypeOK'
  BY <1>1, <1>2, <1>5, <1>6 DEF TypeOK
<1>8. \A u \in Queued' : u \in Queued \/ u = t
  <2> SUFFICES ASSUME NEW u \in Queued' PROVE u \in Queued \/ u = t
    OBVIOUS
  <2>1. u \in Tasks /\ u[2] <= queued'[u[1]]
    BY DEF Queued
  <2>2. u[1] \in Calls /\ u[2] \in Nat /\ u = <<u[1], u[2]>>
    BY <2>1, IsTask
  <2>3. CASE u[1] # c
    BY <1>6, <2>1, <2>2, <2>3 DEF Queued
  <2>4. CASE u[1] = c
    <3>1. u[2] <= queued[c] \/ u[2] = queued[c] + 1
      BY <1>3, <1>6, <2>1, <2>2, <2>4
    <3> QED
      BY <1>0, <2>1, <2>2, <2>4, <3>1 DEF Queued
  <2> QED
    BY <2>3, <2>4
<1>9. \A u \in Queued' : Placed(u)'
  <2>1. Placed(t)'
    BY <1>5 DEF Placed
  <2>2. \A u \in Queued : Placed(u)'
    BY <1>2, <1>5 DEF IInv, Placed
  <2> QED
    BY <1>8, <2>1, <2>2
<1>10. \A d \in Calls : CallInv(d)'
  <2>1. /\ call'[c] = "notifying" /\ \A d \in Calls : d # c => call'[d] = call[d]
    BY <1>1, <1>2 DEF TypeOK
  <2>2. ASSUME NEW d \in Calls, d # c PROVE CallInv(d)'
    <3>1. \A u \in Queued' : u[1] = d => u \in Queued
      BY <1>0, <1>8, <2>2
    <3> QED
      BY <1>2, <1>6, <2>1, <2>2, <3>1, StaysCutShort DEF IInv, CallInv
  <2>3. CallInv(c)'
    BY <2>1 DEF CallInv
  <2> QED
    BY <2>2, <2>3
<1>11. Busy' = Busy
  BY <1>2 DEF Busy
<1>12. \A w \in Workers : WorkerInv(w)'
  BY <1>2, <1>11 DEF IInv, WorkerInv
<1> QED
  BY <1>2, <1>7, <1>9, <1>10, <1>11, <1>12 DEF IInv

LEMMA NotifyIInv ==
  ASSUME IInv, NEW c \in Calls, Notify(c)
  PROVE  IInv'
<1>1. TypeOK /\ CallInv(c)
  BY DEF IInv
<1>2. PICK stage \in {"queueing", "getting", "returned"} :
         /\ call[c] = "notifying" /\ call' = [call EXCEPT ![c] = stage]
         /\ stage = "queueing" => queued[c] < Width(c)
         /\ stage = "returned" => c \notin Waiting
  BY DEF Notify
<1>3. /\ tasks' = tasks /\ active' = active /\ stop' = stop /\ holds' = holds /\ queued' = queued
      /\ failed' = failed /\ ready' = ready /\ threw' = threw /\ watcher' = watcher
  BY DEF Notify, poolVars
<1>4. /\ worker' \in [Workers -> Places]
      /\ \A w \in Workers : worker'[w] = worker[w] \/ (worker[w] = "waiting" /\ worker'[w] = "locking")
  BY <1>1 DEF Notify, Wakes, TypeOK, Places
<1>5. TypeOK'
  BY <1>1, <1>2, <1>3, <1>4 DEF TypeOK, Places
<1>6. Busy' = Busy /\ Queued' = Queued
  BY <1>3, <1>4 DEF Busy, Queued
<1>7. \A d \in Calls : CallInv(d)'
  <2>1. call'[c] = stage /\ \A d \in Calls : d # c => call'[d] = call[d]
    BY <1>1, <1>2 DEF TypeOK
  <2>2. ASSUME NEW d \in Calls, d # c PROVE CallInv(d)'
    BY <1>3, <1>6, <2>1, <2>2, StaysCutShort DEF IInv, CallInv
  <2>3. CallInv(c)'
    BY <1>2, <1>3, <2>1 DEF CallInv
  <2> QED
    BY <2>2, <2>3
<1>8. \A w \in Workers : WorkerInv(w)'
  BY <1>3, <1>4, <1>6 DEF IInv, WorkerInv
<1>9. \A t \in Queued' : Placed(t)'
  BY <1>3, <1>4, <1>6 DEF IInv, Placed
<1> QED
  BY <1>3, <1>5, <1>6, <1>7, <1>8, <1>9 DEF IInv

LEMMA GetIInv ==
  ASSUME IInv, NEW c \in Calls, Get(c)
  PROVE  IInv'
<1>1. TypeOK /\ CallInv(c)
  BY DEF IInv
<1>2. /\ call[c] = "getting" /\ call' = [call EXCEPT ![c] = "returned"]
      /\ failed' = failed \/ failed' = failed \cup {c}
      /\ \/ Ready(c, Width(c))
         \/ failed' = failed \cup {c} /\ \E k \in 1 .. Width(c) - 1 : <<c, k>> \in threw
  <2>1. CASE \E k \in 1 .. Width(c) : Ready(c, k) /\ <<c, k>> \in threw
    <3>1. Width(c) \in Nat
      BY Pool
    <3>2. \A k \in 1 .. Width(c) : k = Width(c) \/ k \in 1 .. Width(c) - 1
      BY <3>1
    <3> QED
      BY <2>1, <3>2 DEF Get
  <2> QED
    BY <2>1 DEF Get
<1>3. /\ tasks' = tasks /\ active' = active /\ stop' = stop /\ worker' = worker /\ holds' = holds
      /\ queued' = queued /\ ready' = ready /\ threw' = threw /\ watcher' = watcher
  BY DEF Get, poolVars, workerVars
<1>4. TypeOK'
  BY <1>1, <1>2, <1>3 DEF TypeOK
<1>5. Busy' = Busy /\ Queued' = Queued
  BY <1>3 DEF Busy, Queued
<1>6. \A d \in Calls : CallInv(d)'
  <2>1. /\ call'[c] = "returned" /\ \A d \in Calls : d # c => call'[d] = call[d]
        /\ \A d \in Calls : d # c => (d \in failed' <=> d \in failed)
    BY <1>1, <1>2 DEF TypeOK
  <2>2. ASSUME NEW d \in Calls, d # c PROVE CallInv(d)'
    <3>1. failed \subseteq failed'
      BY <1>2
    <3> QED
      BY <1>3, <1>5, <2>1, <2>2, <3>1, StaysCutShort DEF IInv, CallInv
  <2>3. ASSUME Ready(c, Width(c)), NEW t \in Queued, t[1] = c
        PROVE  t \in ready
    <3>1. t \in Tasks
      BY DEF Queued
    <3>2. t[2] \in 1 .. Width(c) /\ t = <<c, t[2]>>
      BY <2>3, <3>1, IsTask, Pool
    <3> QED
      BY <2>3, <3>2 DEF Ready
  <2>4. CallInv(c)'
    BY <1>2, <1>3, <1>5, <2>1, <2>3 DEF CallInv, CutShort
  <2> QED
    BY <2>2, <2>4
<1>7. \A w \in Workers : WorkerInv(w)'
  BY <1>3, <1>5 DEF IInv, WorkerInv
<1>8. \A t \in Queued' : Placed(t)'
  BY <1>3, <1>5 DEF IInv, Placed
<1> QED
  BY <1>3, <1>4, <1>5, <1>6, <1>7, <1>8 DEF IInv

------------------------------------------------------------------------------
(* Steps of workers.                                                       *)

LEMMA TakeIInv ==
  ASSUME IInv, NEW w \in Workers, Take(w)
  PROVE  IInv'
<1>1. TypeOK /\ WorkerInv(w)
  BY DEF IInv
<1>2. /\ worker[w] = "locking" /\ tasks # <<>> /\ tasks' = Tail(tasks) /\ active' = active + 1
      /\ holds' = [holds EXCEPT ![w] = Head(tasks)] /\ worker' = [worker EXCEPT ![w] = "running"]
      /\ stop' = stop /\ call' = call /\ queued' = queued /\ failed' = failed /\ ready' = ready
      /\ threw' = threw /\ watcher' = watcher
  BY DEF Take, callVars
<1>3. /\ Head(tasks) \in Tasks /\ Head(tasks) = tasks[1] /\ Tail(tasks) \in Seq(Tasks)
      /\ \A i \in DOMAIN tasks : i = 1 \/ (i - 1 \in DOMAIN tasks' /\ tasks'[i - 1] = tasks[i])
  BY <1>1, <1>2 DEF TypeOK
<1>4. /\ worker'[w] = "running" /\ holds'[w] = Head(tasks)
      /\ \A v \in Workers : v # w => worker'[v] = worker[v] /\ holds'[v] = holds[v]
  BY <1>1, <1>2 DEF TypeOK
<1>5. Busy' = Busy \cup {w} /\ w \notin Busy
  BY <1>2, <1>4 DEF Busy
<1>6. Cardinality(Busy') = Cardinality(Busy) + 1
  BY <1>5, BusyFinite, FS_AddElement
<1>7. active' = Cardinality(Busy') /\ active' \in 0 .. Cardinality(Workers)
  <2>1. IsFiniteSet(Workers) /\ Busy' \subseteq Workers
    BY PoolAssumption DEF Busy
  <2>2. Cardinality(Busy') <= Cardinality(Workers)
    BY <2>1, FS_Subset
  <2> QED
    BY <1>2, <1>6, <2>2, BusyFinite, Pool DEF IInv
<1>8. TypeOK'
  BY <1>1, <1>2, <1>3, <1>7 DEF TypeOK
<1>9. Queued' = Queued
  BY <1>2 DEF Queued
<1>10. \A c \in Calls : CallInv(c)'
  BY <1>2, <1>9, StaysCutShort DEF IInv, CallInv
<1>11. \A v \in Workers : WorkerInv(v)'
  <2>1. \A v \in Workers : worker[v] # "exited"
    BY <1>2 DEF IInv, WorkerInv
  <2>2. ASSUME NEW v \in Workers, v # w PROVE WorkerInv(v)'
    BY <1>2, <1>4, <1>5, <2>1, <2>2 DEF IInv, WorkerInv
  <2>3. WorkerInv(w)'
    BY <1>3, <1>4 DEF WorkerInv
  <2> QED
    BY <2>2, <2>3
<1>12. ASSUME NEW t \in Queued' PROVE Placed(t)'
  <2>1. Placed(t)
    BY <1>9 DEF IInv
  <2>2. CASE t \in ready
    BY <1>2, <2>2 DEF Placed
  <2>3. CASE \E i \in DOMAIN tasks : tasks[i] = t
    BY <1>3, <1>4, <2>3 DEF Placed
  <2>4. CASE \E v \in Workers : worker[v] = "running" /\ holds[v] = t
    BY <1>2, <1>4, <2>4 DEF Placed
  <2> QED
    BY <2>1, <2>2, <2>3, <2>4 DEF Placed
<1> QED
  BY <1>7, <1>8, <1>10, <1>11, <1>12 DEF IInv

\* Leaving, waiting, waking and being woken by the destructor.
LEMMA RestIInv ==
  ASSUME IInv, \/ \E w \in Workers : Exit(w) \/ Wait(w) \/ WakeSpuriously(w)
               \/ Destroy \/ WaitAll
  PROVE  IInv'
<1>1. TypeOK
  BY DEF IInv
<1>2. /\ tasks' = tasks /\ active' = active /\ holds' = holds /\ call' = call /\ queued' = queued
      /\ failed' = failed /\ ready' = ready /\ threw' = threw
      /\ stop \in BOOLEAN /\ stop' \in BOOLEAN /\ (stop => stop')
      /\ watcher' \in {"idle", "waiting", "woken", "returned"}
  BY <1>1 DEF Exit, Wait, WakeSpuriously, Destroy, WaitAll, poolVars, workerVars, callVars, TypeOK
<1>3. /\ worker' \in [Workers -> Places]
      /\ \A w \in Workers :
            \/ worker'[w] = worker[w]
            \/ /\ worker[w] \in {"locking", "waiting"} /\ worker'[w] \in {"locking", "waiting", "exited"}
               /\ worker'[w] = "exited" => stop /\ tasks = <<>>
  <2>1. CASE \E w \in Workers : Exit(w) \/ Wait(w) \/ WakeSpuriously(w)
    <3>1. PICK w \in Workers : Exit(w) \/ Wait(w) \/ WakeSpuriously(w)
      BY <2>1
    <3> QED
      BY <1>1, <3>1 DEF Exit, Wait, WakeSpuriously, TypeOK, Places
  <2>2. CASE Destroy
    BY <1>1, <2>2 DEF Destroy, TypeOK, Places
  <2>3. CASE WaitAll
    BY <1>1, <2>3 DEF WaitAll, workerVars, TypeOK, Places
  <2> QED
    BY <2>1, <2>2, <2>3
<1>4. TypeOK'
  BY <1>1, <1>2, <1>3 DEF TypeOK, Places
<1>5. Busy' = Busy /\ Queued' = Queued
  BY <1>2, <1>3 DEF Busy, Queued
<1>6. \A c \in Calls : CallInv(c)'
  BY <1>2, <1>5, StaysCutShort DEF IInv, CallInv
<1>7. \A w \in Workers : WorkerInv(w)'
  BY <1>2, <1>3, <1>5 DEF IInv, WorkerInv
<1>8. \A t \in Queued' : Placed(t)'
  BY <1>2, <1>3, <1>5 DEF IInv, Placed
<1> QED
  BY <1>2, <1>4, <1>5, <1>6, <1>7, <1>8 DEF IInv

LEMMA RunIInv ==
  ASSUME IInv, NEW w \in Workers, Run(w)
  PROVE  IInv'
<1>1. TypeOK /\ WorkerInv(w)
  BY DEF IInv
<1>2. /\ worker[w] = "running" /\ worker' = [worker EXCEPT ![w] = "finishing"]
      /\ ready' = ready \cup {holds[w]} /\ (threw' = threw \/ threw' = threw \cup {holds[w]})
      /\ tasks' = tasks /\ active' = active /\ stop' = stop /\ holds' = holds /\ call' = call
      /\ queued' = queued /\ failed' = failed /\ watcher' = watcher
  BY DEF Run, poolVars
<1>3. holds[w] \in Tasks
  BY <1>1, <1>2 DEF WorkerInv, Busy
<1>4. worker'[w] = "finishing" /\ \A v \in Workers : v # w => worker'[v] = worker[v]
  BY <1>1, <1>2 DEF TypeOK
<1>5. TypeOK'
  BY <1>1, <1>2, <1>3 DEF TypeOK
<1>6. Busy' = Busy /\ Queued' = Queued
  BY <1>2, <1>4 DEF Busy, Queued
<1>7. \A c \in Calls : CallInv(c)'
  BY <1>2, <1>6, StaysCutShort DEF IInv, CallInv
<1>8. \A v \in Workers : WorkerInv(v)'
  BY <1>2, <1>3, <1>4, <1>6 DEF IInv, WorkerInv
<1>9. \A t \in Queued' : Placed(t)'
  BY <1>2, <1>4, <1>6 DEF IInv, Placed
<1> QED
  BY <1>2, <1>5, <1>6, <1>7, <1>8, <1>9 DEF IInv

LEMMA FinishIInv ==
  ASSUME IInv, NEW w \in Workers, Finish(w)
  PROVE  IInv'
<1>1. TypeOK
  BY DEF IInv
<1>2. /\ worker[w] = "finishing" /\ worker' = [worker EXCEPT ![w] = "locking"]
      /\ holds' = [holds EXCEPT ![w] = Outside] /\ active' = active - 1
      /\ tasks' = tasks /\ stop' = stop /\ call' = call /\ queued' = queued /\ failed' = failed
      /\ ready' = ready /\ threw' = threw /\ watcher' \in {watcher, "woken"}
  BY DEF Finish, callVars
<1>3. /\ worker'[w] = "locking"
      /\ \A v \in Workers : v # w => worker'[v] = worker[v] /\ holds'[v] = holds[v]
  BY <1>1, <1>2 DEF TypeOK
<1>4. Busy' = Busy \ {w} /\ w \in Busy
  BY <1>2, <1>3 DEF Busy
<1>5. active' = Cardinality(Busy') /\ active' \in 0 .. Cardinality(Workers)
  <2>1. Cardinality(Busy') = Cardinality(Busy) - 1 /\ IsFiniteSet(Busy')
    BY <1>4, BusyFinite, FS_RemoveElement
  <2>2. Cardinality(Busy') \in Nat
    BY <2>1, FS_CardinalityType
  <2> QED
    BY <1>2, <2>1, <2>2, BusyFinite, Pool DEF IInv
<1>6. TypeOK'
  BY <1>1, <1>2, <1>5 DEF TypeOK
<1>7. Queued' = Queued
  BY <1>2 DEF Queued
<1>8. \A c \in Calls : CallInv(c)'
  BY <1>2, <1>7, StaysCutShort DEF IInv, CallInv
<1>9. \A v \in Workers : WorkerInv(v)'
  BY <1>2, <1>3, <1>4 DEF IInv, WorkerInv
<1>10. \A t \in Queued' : Placed(t)'
  BY <1>2, <1>3, <1>7 DEF IInv, Placed
<1> QED
  BY <1>5, <1>6, <1>8, <1>9, <1>10 DEF IInv

LEMMA StutterIInv ==
  ASSUME IInv, UNCHANGED vars
  PROVE  IInv'
<1>1. /\ tasks' = tasks /\ active' = active /\ stop' = stop /\ worker' = worker /\ holds' = holds
      /\ call' = call /\ queued' = queued /\ failed' = failed /\ ready' = ready /\ threw' = threw
      /\ watcher' = watcher
  BY DEF vars, poolVars, workerVars, callVars
<1>2. Busy' = Busy /\ Queued' = Queued /\ TypeOK'
  BY <1>1 DEF Busy, Queued, IInv, TypeOK
<1>3. \A c \in Calls : CallInv(c)'
  BY <1>1, <1>2, StaysCutShort DEF IInv, CallInv
<1>4. \A w \in Workers : WorkerInv(w)'
  BY <1>1, <1>2 DEF IInv, WorkerInv
<1>5. \A t \in Queued' : Placed(t)'
  BY <1>1, <1>2 DEF IInv, Placed
<1> QED
  BY <1>1, <1>2, <1>3, <1>4, <1>5 DEF IInv

LEMMA Invariant == Spec => []IInv
<1>1. Init => IInv
  BY InitIInv
<1>2. IInv /\ Next => IInv'
  BY CallIInv, PushIInv, NotifyIInv, GetIInv, TakeIInv, RestIInv, RunIInv, FinishIInv
     DEF Next, WorkerStep, CallStep
<1>3. IInv /\ [Next]_vars => IInv'
  BY <1>2, StutterIInv
<1> QED
  BY <1>1, <1>3, PTL DEF Spec

\* Types, and with them that active_tasks_ never leaves the range from none to
\* all workers.
THEOREM TypeCorrect == Spec => []TypeOK
<1>1. IInv => TypeOK
  BY DEF IInv
<1> QED
  BY <1>1, Invariant, PTL

\* What wait_all takes for quiet is quiet, although submit, a worker and
\* wait_all look at the queue and at active_tasks_ at different times; and the
\* destructor's drain leaves no task behind.
THEOREM Quiet == Spec => []NothingLost
<1>1. IInv => NothingLost
  <2> SUFFICES ASSUME IInv,
                      (tasks = <<>> /\ active = 0) \/ (\A w \in Workers : worker[w] = "exited"),
                      NEW t \in Queued
               PROVE  t \in ready
    BY DEF NothingLost
  <2>1. tasks = <<>> /\ Busy = {}
    <3>1. CASE tasks = <<>> /\ active = 0
      BY <3>1, BusyFinite, FS_EmptySet DEF IInv
    <3>2. CASE \A w \in Workers : worker[w] = "exited"
      <4>1. PICK w \in Workers : TRUE
        BY PoolAssumption
      <4>2. tasks = <<>>
        BY <3>2, <4>1 DEF IInv, WorkerInv
      <4> QED
        BY <3>2, <4>2 DEF Busy
    <3> QED
      BY <3>1, <3>2
  <2>2. Placed(t)
    BY DEF IInv
  <2> QED
    BY <2>1, <2>2 DEF Placed, Busy
<1> QED
  BY <1>1, Invariant, PTL

\* A parallel_for that returns leaves no chunk behind that refers to its
\* caller's function, unless it was cut short.
THEOREM Outlives == Spec => []FunctionOutlives
<1>1. IInv => FunctionOutlives
  <2> SUFFICES ASSUME IInv, NEW c \in Waiting, call[c] = "returned", ~CutShort(c),
                      NEW t \in Queued \cap ({c} \X Nat)
               PROVE  t \in ready
    BY DEF FunctionOutlives
  <2>1. c \in Calls /\ t[1] = c
    BY PoolAssumption
  <2> QED
    BY <2>1 DEF IInv, CallInv
<1> QED
  BY <1>1, Invariant, PTL
=============================================================================
