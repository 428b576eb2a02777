------------------------------ MODULE ThreadPool ------------------------------
(***************************************************************************)
(* ThreadPool (src/core/thread_pool.cpp): workers take tasks from one      *)
(* queue under one mutex.  submit queues a task, parallel_for queues one   *)
(* chunk per worker and waits for their futures, wait_all waits for quiet, *)
(* the destructor stops the pool and lets the workers drain the queue.     *)
(*                                                                         *)
(* A section of code that holds the mutex is one action; waiting on a      *)
(* condition variable, and notifying it after the mutex is released, are   *)
(* steps of their own.  A task may itself call the pool: such a call is    *)
(* made by the worker that runs the task.                                  *)
(***************************************************************************)
EXTENDS Integers, Sequences, FiniteSets

CONSTANTS Workers,
          Calls,      \* the calls of submit and parallel_for
          Waiting,    \* those of parallel_for
          Parent(_),  \* the task that makes a call, or Outside
          Outside,    \* a thread that is no worker makes the call
          Throwing    \* the tasks whose function throws

\* submit queues one task, parallel_for one per worker.
Width(c) == IF c \in Waiting THEN Cardinality(Workers) ELSE 1
Tasks == {t \in Calls \X (1 .. Cardinality(Workers)) : t[2] <= Width(t[1])}

ASSUME PoolAssumption == /\ IsFiniteSet(Workers) /\ Workers # {}
                         /\ Waiting \subseteq Calls
                         /\ Throwing \subseteq Tasks
                         /\ Outside \notin Tasks
                         /\ \A c \in Calls : Parent(c) \in Tasks \cup {Outside}

VARIABLES
    tasks,    \* tasks_
    active,   \* active_tasks_
    stop,     \* stop_
    worker,   \* where each worker is: "locking", "waiting", "running",
              \* "finishing", "exited"
    holds,    \* the task each worker has taken, or Outside
    call,     \* where each call is: "idle", "queueing", "notifying",
              \* "getting", "returned"
    queued,   \* how many tasks each call has queued
    failed,   \* the calls that ended with an exception
    ready,    \* the tasks whose future is ready
    threw,    \* those of them that hold an exception
    watcher   \* wait_all: "idle", "waiting", "woken", "returned"

poolVars   == <<tasks, active, stop>>
workerVars == <<worker, holds>>
callVars   == <<call, queued, failed, ready, threw>>
vars == <<poolVars, workerVars, callVars, watcher>>

Queued == {t \in Tasks : t[2] <= queued[t[1]]}

Init == /\ tasks = <<>>
        /\ active = 0
        /\ stop = FALSE
        /\ worker = [w \in Workers |-> "locking"]
        /\ holds = [w \in Workers |-> Outside]
        /\ call = [c \in Calls |-> "idle"]
        /\ queued = [c \in Calls |-> 0]
        /\ failed = {}
        /\ ready = {}
        /\ threw = {}
        /\ watcher = "idle"

Running == {holds[w] : w \in {v \in Workers : worker[v] = "running"}}

------------------------------------------------------------------------------
Call(c) == /\ call[c] = "idle"
           /\ IF Parent(c) = Outside THEN ~stop ELSE Parent(c) \in Running \ ready
           /\ call' = [call EXCEPT ![c] = "queueing"]
           /\ UNCHANGED <<poolVars, workerVars, queued, failed, ready, threw, watcher>>

\* submit, under the mutex.
Push(c) == /\ call[c] = "queueing"
           /\ ~stop
           /\ tasks' = Append(tasks, <<c, queued[c] + 1>>)
           /\ queued' = [queued EXCEPT ![c] = @ + 1]
           /\ call' = [call EXCEPT ![c] = "notifying"]
           /\ UNCHANGED <<active, stop, workerVars, failed, ready, threw, watcher>>

\* A stopped pool refuses the task; the exception ends the whole call.
PushRefused(c) == /\ call[c] = "queueing"
                  /\ stop
                  /\ call' = [call EXCEPT ![c] = "returned"]
                  /\ failed' = failed \cup {c}
                  /\ UNCHANGED <<poolVars, workerVars, queued, ready, threw, watcher>>

Unnotified(w) == UNCHANGED worker   \* mutant of Wakes

\* notify_one wakes one of the workers that wait, if any does.
Wakes(w) == IF \E v \in Workers : worker[v] = "waiting"
            THEN worker[w] = "waiting" /\ worker' = [worker EXCEPT ![w] = "locking"]
            ELSE UNCHANGED worker

Notify(c) == /\ call[c] = "notifying"
             /\ \E w \in Workers : Wakes(w)
             /\ call' = [call EXCEPT ![c] = IF queued[c] < Width(c) THEN "queueing"
                                            ELSE IF c \in Waiting THEN "getting"
                                            ELSE "returned"]
             /\ UNCHANGED <<poolVars, holds, queued, failed, ready, threw, watcher>>

\* Mutant of Get: only the first future is waited for.
GetFirst(c) == /\ call[c] = "getting"
               /\ <<c, 1>> \in ready
               /\ call' = [call EXCEPT ![c] = "returned"]
               /\ UNCHANGED <<poolVars, workerVars, queued, failed, ready, threw, watcher>>

\* parallel_for gets the futures in order; the first exception ends it.
Ready(c, k) == \A i \in 1 .. k : <<c, i>> \in ready

Get(c) ==
    /\ call[c] = "getting"
    /\ \/ Ready(c, Width(c)) /\ {t \in threw : t[1] = c} = {} /\ UNCHANGED failed
       \/ /\ \E k \in 1 .. Width(c) : Ready(c, k) /\ <<c, k>> \in threw
          /\ failed' = failed \cup {c}
    /\ call' = [call EXCEPT ![c] = "returned"]
    /\ UNCHANGED <<poolVars, workerVars, queued, ready, threw, watcher>>

------------------------------------------------------------------------------
\* Mutant of Take: the task is counted only when it is done with.
TakeUncounted(w) == /\ worker[w] = "locking"
                    /\ tasks # <<>>
                    /\ holds' = [holds EXCEPT ![w] = Head(tasks)]
                    /\ tasks' = Tail(tasks)
                    /\ worker' = [worker EXCEPT ![w] = "running"]
                    /\ UNCHANGED <<active, stop, callVars, watcher>>

\* worker_loop: with the mutex held, take a task, leave, or wait.
Take(w) == /\ worker[w] = "locking"
           /\ tasks # <<>>
           /\ holds' = [holds EXCEPT ![w] = Head(tasks)]
           /\ tasks' = Tail(tasks)
           /\ active' = active + 1
           /\ worker' = [worker EXCEPT ![w] = "running"]
           /\ UNCHANGED <<stop, callVars, watcher>>

\* Mutant of Exit: a stopped worker leaves the queue as it is.
ExitEarly(w) == /\ worker[w] = "locking"
                /\ stop
                /\ worker' = [worker EXCEPT ![w] = "exited"]
                /\ UNCHANGED <<poolVars, holds, callVars, watcher>>

Exit(w) == /\ worker[w] = "locking"
           /\ stop /\ tasks = <<>>
           /\ worker' = [worker EXCEPT ![w] = "exited"]
           /\ UNCHANGED <<poolVars, holds, callVars, watcher>>

Wait(w) == /\ worker[w] = "locking"
           /\ ~stop /\ tasks = <<>>
           /\ worker' = [worker EXCEPT ![w] = "waiting"]
           /\ UNCHANGED <<poolVars, holds, callVars, watcher>>

\* A wait may end without a notification.
WakeSpuriously(w) == /\ worker[w] = "waiting"
                     /\ worker' = [worker EXCEPT ![w] = "locking"]
                     /\ UNCHANGED <<poolVars, holds, callVars, watcher>>

\* The task runs to its end, after the calls it makes have returned; an
\* exception, its own or one of theirs, ends up in its future.
Made(t) == {c \in Calls : Parent(c) = t}

Run(w) ==
    /\ worker[w] = "running"
    /\ \A c \in Made(holds[w]) : call[c] = "returned"
    /\ ready' = ready \cup {holds[w]}
    /\ threw' = IF holds[w] \in Throwing \/ Made(holds[w]) \cap failed # {}
                THEN threw \cup {holds[w]} ELSE threw
    /\ worker' = [worker EXCEPT ![w] = "finishing"]
    /\ UNCHANGED <<poolVars, holds, call, queued, failed, watcher>>

\* Mutants of Finish: the count is not decremented; wait_all is not notified.
FinishUncounted(w) == /\ worker[w] = "finishing"
                      /\ holds' = [holds EXCEPT ![w] = Outside]
                      /\ worker' = [worker EXCEPT ![w] = "locking"]
                      /\ UNCHANGED <<poolVars, callVars, watcher>>

FinishSilently(w) == /\ worker[w] = "finishing"
                     /\ active' = active - 1
                     /\ holds' = [holds EXCEPT ![w] = Outside]
                     /\ worker' = [worker EXCEPT ![w] = "locking"]
                     /\ UNCHANGED <<tasks, stop, callVars, watcher>>

Finish(w) == /\ worker[w] = "finishing"
             /\ active' = active - 1
             /\ holds' = [holds EXCEPT ![w] = Outside]
             /\ worker' = [worker EXCEPT ![w] = "locking"]
             /\ watcher' = IF tasks = <<>> /\ active = 1 /\ watcher = "waiting"
                           THEN "woken" ELSE watcher
             /\ UNCHANGED <<tasks, stop, callVars>>

------------------------------------------------------------------------------
\* wait_all tests its condition with the mutex held, at first and whenever it
\* wakes, notified or not.
WaitAll == /\ watcher # "returned"
           /\ watcher = "idle" => ~stop
           /\ watcher' = IF tasks = <<>> /\ active = 0 THEN "returned" ELSE "waiting"
           /\ UNCHANGED <<poolVars, workerVars, callVars>>

\* Mutant of Destroy: the workers are not notified.
DestroySilently ==
    /\ ~stop
    /\ \A c \in Calls : Parent(c) = Outside => call[c] \in {"idle", "returned"}
    /\ watcher \in {"idle", "returned"}
    /\ stop' = TRUE
    /\ UNCHANGED <<tasks, active, workerVars, callVars, watcher>>

\* The destructor: the owner's threads are out of the pool by then.
Destroy == /\ ~stop
           /\ \A c \in Calls : Parent(c) = Outside => call[c] \in {"idle", "returned"}
           /\ watcher \in {"idle", "returned"}
           /\ stop' = TRUE
           /\ worker' = [w \in Workers |-> IF worker[w] = "waiting" THEN "locking"
                                                                    ELSE worker[w]]
           /\ UNCHANGED <<tasks, active, holds, callVars, watcher>>

WorkerStep(w) == Take(w) \/ Exit(w) \/ Wait(w) \/ Run(w) \/ Finish(w)
CallStep(c)   == Push(c) \/ PushRefused(c) \/ Notify(c) \/ Get(c)

Next == \/ \E w \in Workers : WorkerStep(w) \/ WakeSpuriously(w)
        \/ \E c \in Calls : Call(c) \/ CallStep(c)
        \/ WaitAll
        \/ Destroy

\* Every thread that can go on does.  Whether a call from outside is made,
\* and whether the pool is destroyed, is the program's choice; a task that
\* makes calls makes them.
Fairness == /\ \A w \in Workers : WF_vars(WorkerStep(w))
            /\ \A c \in Calls : WF_vars(CallStep(c))
            /\ \A c \in Calls : Parent(c) # Outside => WF_vars(Call(c))
            /\ WF_vars(watcher = "woken" /\ WaitAll)

Spec == Init /\ [][Next]_vars /\ Fairness

------------------------------------------------------------------------------
TypeOK == /\ tasks \in Seq(Tasks)
          /\ active \in 0 .. Cardinality(Workers)
          /\ stop \in BOOLEAN
          /\ worker \in [Workers -> {"locking", "waiting", "running", "finishing", "exited"}]
          /\ holds \in [Workers -> Tasks \cup {Outside}]
          /\ call \in [Calls -> {"idle", "queueing", "notifying", "getting", "returned"}]
          /\ queued \in [Calls -> 0 .. Cardinality(Workers)]
          /\ failed \subseteq Calls
          /\ ready \subseteq Tasks /\ threw \subseteq ready
          /\ watcher \in {"idle", "waiting", "woken", "returned"}

\* What wait_all and the workers' leaving test, an empty queue and no active
\* task, means that every task ever queued has run, although a task is in
\* neither place for a moment; and the destructor drops no task: once every
\* worker has left, all have run.
NothingLost == (tasks = <<>> /\ active = 0) \/ (\A w \in Workers : worker[w] = "exited")
                   => Queued \subseteq ready

\* The chunks of parallel_for hold a reference to its caller's function: none
\* is queued or running when the call has returned, unless the pool refused one
\* of them, or one before the last threw.
CutShort(c) == /\ c \in failed
               /\ queued[c] < Width(c) \/ \E k \in 1 .. Width(c) - 1 : <<c, k>> \in threw

FunctionOutlives ==
    \A c \in Waiting : call[c] = "returned" =>
        CutShort(c) \/ Queued \cap ({c} \X Nat) \subseteq ready

\* No lost wakeup: a queued task is run, whoever submitted it and whatever the
\* workers were doing when it was notified.
TasksRun == \A t \in Tasks : t \in Queued ~> t \in ready

\* A parallel_for made by a task returns too, as long as some worker is not
\* held up in such a call.
CallsReturn == \A c \in Calls : call[c] = "queueing" ~> call[c] = "returned"

\* Whatever is submitted meanwhile, wait_all returns, and so do the destructor's joins.
BlockersReturn == /\ watcher = "waiting" ~> watcher = "returned"
                  /\ stop ~> \A w \in Workers : worker[w] = "exited"
==============================================================================
