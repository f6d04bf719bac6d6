------------------------------ MODULE TaskQueue ------------------------------
(***************************************************************************)
(* TaskQueue and ThreadPool of server_phase5.cpp: a mutex, a condition     *)
(* variable and a queue of tasks between the thread that runs main() and   *)
(* the worker threads.                                                     *)
(*                                                                         *)
(* A critical section that does not wait is one step, taken when no thread *)
(* holds mtx_.  cv_.wait is two: a worker that finds its predicate false   *)
(* keeps mtx_ until the step in which it is put to sleep, which is what    *)
(* keeps a concurrent push or stop from slipping in between.  The notify   *)
(* that follows a critical section is a step of its own.                   *)
(***************************************************************************)
EXTENDS Integers, Sequences, FiniteSets

CONSTANTS
    Workers,      \* the threads of the pool
    MaxTasks,     \* bound: tasks main() pushes before it stops
    MaxSpurious,  \* bound: wakeups of cv_.wait that nobody caused
    NoOne,        \* mtx_ is free
    NoTask        \* the worker runs no task

ASSUME WorkersAssumption ==
    IsFiniteSet(Workers) /\ Workers # {} /\ NoOne \notin Workers
ASSUME BoundAssumption == MaxTasks \in Nat /\ MaxSpurious \in Nat
ASSUME NoTaskAssumption == NoTask \notin Nat

VARIABLES
    tasks_,       \* the queue; a task is the number of its push
    mtx_,         \* the worker that holds the mutex across a step, or NoOne
    shutdown_,
    high_water_,
    mainpc,       \* where main() is
    wpc,          \* where each worker is
    cur,          \* the task each worker runs
    pushed,       \* history: number of tasks queued so far
    started,      \* history: tasks in the order they were dequeued
    finished,     \* history: tasks whose function returned
    spurious      \* spurious wakeups so far

qvars == <<tasks_, shutdown_, high_water_>>
hist == <<pushed, started, finished>>
vars == <<tasks_, mtx_, shutdown_, high_water_, mainpc, wpc, cur,
          pushed, started, finished, spurious>>

MainPC == {"loop", "notify", "stop", "notifyAll", "join", "joined"}
WorkerPC == {"pop", "block", "waiting", "run", "exited"}

At(pc) == {w \in Workers : wpc[w] = pc}

Init ==
    /\ tasks_ = <<>>
    /\ mtx_ = NoOne
    /\ shutdown_ = FALSE
    /\ high_water_ = 0
    /\ mainpc = "loop"
    /\ wpc = [w \in Workers |-> "pop"]
    /\ cur = [w \in Workers |-> NoTask]
    /\ pushed = 0
    /\ started = <<>>
    /\ finished = {}
    /\ spurious = 0

------------------------------------------------------------------------------
(* main(): push for every readiness event, then stop() and join().         *)

\* Mutant: the task goes to the front of the queue.
EnqueueFront(task) == <<task>> \o tasks_

\* The queue after tasks_.push.
Enqueue(task) == Append(tasks_, task)

\* high_water_ once the queue is q.
HighWaterAfter(q) == IF Len(q) > high_water_ THEN Len(q) ELSE high_water_

\* push, its locked part: nothing is queued once shutdown_ is set.
Push ==
    /\ mainpc = "loop"
    /\ pushed < MaxTasks
    /\ mtx_ = NoOne
    /\ IF shutdown_
       THEN UNCHANGED <<tasks_, high_water_, pushed, mainpc>>
       ELSE /\ tasks_' = Enqueue(pushed + 1)
            /\ high_water_' = HighWaterAfter(tasks_')
            /\ pushed' = pushed + 1
            /\ mainpc' = "notify"
    /\ UNCHANGED <<mtx_, shutdown_, wpc, cur, started, finished, spurious>>

\* Mutant: push returns without the notification.
NotifyNobody ==
    /\ mainpc = "notify"
    /\ mainpc' = "loop"
    /\ UNCHANGED <<tasks_, mtx_, shutdown_, high_water_, wpc, cur, pushed,
                   started, finished, spurious>>

\* push, cv_.notify_one(): one of the waiting workers, if there is one.
NotifyOne ==
    /\ mainpc = "notify"
    /\ mainpc' = "loop"
    /\ IF At("waiting") = {}
       THEN UNCHANGED wpc
       ELSE \E w \in At("waiting") : wpc' = [wpc EXCEPT ![w] = "pop"]
    /\ UNCHANGED <<tasks_, mtx_, shutdown_, high_water_, cur, pushed,
                   started, finished, spurious>>

\* The event loop is left (epoll_wait failed) and stop() is called.
LeaveLoop ==
    /\ mainpc = "loop"
    /\ mainpc' = "stop"
    /\ UNCHANGED <<tasks_, mtx_, shutdown_, high_water_, wpc, cur, pushed,
                   started, finished, spurious>>

\* Mutant: the flag is set without the mutex.
StopUnlocked ==
    /\ mainpc = "stop"
    /\ shutdown_' = TRUE
    /\ mainpc' = "notifyAll"
    /\ UNCHANGED <<tasks_, mtx_, high_water_, wpc, cur, pushed, started,
                   finished, spurious>>

\* stop, its locked part.
Stop ==
    /\ mainpc = "stop"
    /\ mtx_ = NoOne
    /\ shutdown_' = TRUE
    /\ mainpc' = "notifyAll"
    /\ UNCHANGED <<tasks_, mtx_, high_water_, wpc, cur, pushed, started,
                   finished, spurious>>

\* stop, cv_.notify_all().
NotifyAll ==
    /\ mainpc = "notifyAll"
    /\ mainpc' = "join"
    /\ wpc' = [w \in Workers |-> IF wpc[w] = "waiting" THEN "pop" ELSE wpc[w]]
    /\ UNCHANGED <<tasks_, mtx_, shutdown_, high_water_, cur, pushed,
                   started, finished, spurious>>

\* ThreadPool::join returns when every worker's thread has ended.
Join ==
    /\ mainpc = "join"
    /\ At("exited") = Workers
    /\ mainpc' = "joined"
    /\ UNCHANGED <<tasks_, mtx_, shutdown_, high_water_, wpc, cur, pushed,
                   started, finished, spurious>>

Main == Push \/ NotifyOne \/ LeaveLoop \/ Stop \/ NotifyAll \/ Join

------------------------------------------------------------------------------
(* A worker: pop() and then the task, until pop() returns nullptr.         *)

\* Mutant: shutdown is looked at before the queue is.
PopShutdownFirst(w) ==
    /\ wpc[w] = "pop"
    /\ mtx_ = NoOne
    /\ tasks_ = <<>> \/ shutdown_
    /\ IF shutdown_
       THEN wpc' = [wpc EXCEPT ![w] = "exited"] /\ UNCHANGED mtx_
       ELSE wpc' = [wpc EXCEPT ![w] = "block"] /\ mtx_' = w
    /\ UNCHANGED <<tasks_, shutdown_, high_water_, mainpc, cur, pushed,
                   started, finished, spurious>>

\* pop with the predicate of cv_.wait true for a task: it is dequeued, mtx_ is
\* released and the task's function is entered.
PopTask(w) ==
    /\ wpc[w] = "pop"
    /\ mtx_ = NoOne
    /\ tasks_ # <<>>
    /\ tasks_' = Tail(tasks_)
    /\ cur' = [cur EXCEPT ![w] = Head(tasks_)]
    /\ started' = Append(started, Head(tasks_))
    /\ wpc' = [wpc EXCEPT ![w] = "run"]
    /\ UNCHANGED <<mtx_, shutdown_, high_water_, mainpc, pushed, finished,
                   spurious>>

\* pop with an empty queue: nullptr on shutdown (the worker's loop breaks),
\* otherwise the predicate is false and wait is about to sleep, mtx_ held.
PopEmpty(w) ==
    /\ wpc[w] = "pop"
    /\ mtx_ = NoOne
    /\ tasks_ = <<>>
    /\ IF shutdown_
       THEN wpc' = [wpc EXCEPT ![w] = "exited"] /\ UNCHANGED mtx_
       ELSE wpc' = [wpc EXCEPT ![w] = "block"] /\ mtx_' = w
    /\ UNCHANGED <<tasks_, shutdown_, high_water_, mainpc, cur, pushed,
                   started, finished, spurious>>

\* Inside wait: the mutex is released and the worker sleeps, in one step.
Block(w) ==
    /\ wpc[w] = "block"
    /\ mtx_' = NoOne
    /\ wpc' = [wpc EXCEPT ![w] = "waiting"]
    /\ UNCHANGED <<tasks_, shutdown_, high_water_, mainpc, cur, pushed,
                   started, finished, spurious>>

\* A spurious wakeup: the predicate is evaluated again.
Spurious(w) ==
    /\ wpc[w] = "waiting"
    /\ spurious < MaxSpurious
    /\ spurious' = spurious + 1
    /\ wpc' = [wpc EXCEPT ![w] = "pop"]
    /\ UNCHANGED <<tasks_, mtx_, shutdown_, high_water_, mainpc, cur, pushed,
                   started, finished>>

\* task() returns and the worker pops again.
RunTask(w) ==
    /\ wpc[w] = "run"
    /\ finished' = finished \cup {cur[w]}
    /\ cur' = [cur EXCEPT ![w] = NoTask]
    /\ wpc' = [wpc EXCEPT ![w] = "pop"]
    /\ UNCHANGED <<tasks_, mtx_, shutdown_, high_water_, mainpc, pushed,
                   started, spurious>>

Worker(w) == PopTask(w) \/ PopEmpty(w) \/ Block(w) \/ RunTask(w)

\* main() has returned from join: nothing happens any more.
Done == mainpc = "joined" /\ UNCHANGED vars

Next ==
    \/ Main
    \/ \E w \in Workers : Worker(w) \/ Spurious(w)
    \/ Done

\* Every thread that can step does, eventually; only whether main() pushes or
\* leaves its loop is its own choice.  Pushes and spurious wakeups are bounded,
\* so weak fairness is enough for a thread that waits for mtx_.
Fairness ==
    /\ WF_vars(NotifyOne) /\ WF_vars(Stop) /\ WF_vars(NotifyAll) /\ WF_vars(Join)
    /\ \A w \in Workers : WF_vars(Worker(w))

SafetySpec == Init /\ [][Next]_vars

Spec == SafetySpec /\ Fairness

------------------------------------------------------------------------------
(* Properties.                                                             *)

\* Types; the mutex is held across a step exactly by a worker about to sleep.
TypeOK ==
    /\ tasks_ \in Seq(Nat)
    /\ mtx_ \in Workers \cup {NoOne}
    /\ shutdown_ \in BOOLEAN
    /\ high_water_ \in Nat
    /\ mainpc \in MainPC
    /\ wpc \in [Workers -> WorkerPC]
    /\ cur \in [Workers -> Nat \cup {NoTask}]
    /\ pushed \in Nat
    /\ started \in Seq(Nat)
    /\ finished \in SUBSET Nat
    /\ spurious \in Nat

\* The tasks dequeued so far followed by the tasks still queued are the tasks
\* pushed, in the order of the pushes: none is lost, repeated or overtaken.
FifoOnce ==
    /\ Len(started) + Len(tasks_) = pushed
    /\ \A i \in 1..Len(started) : started[i] = i
    /\ \A i \in 1..Len(tasks_) : tasks_[i] = Len(started) + i

\* A worker sleeps in pop() only when the other workers on their way to the
\* queue, and the notification still to come, suffice for what is queued.
WorkConserving ==
    At("waiting") # {} =>
        Len(tasks_) <= Cardinality(At("pop")) + (IF mainpc = "notify" THEN 1 ELSE 0)

\* After notify_all of stop() nobody is asleep, or on the way to sleep, in
\* pop(): join() waits for no worker that nobody will wake.
NoneAsleepAfterStop ==
    mainpc \in {"join", "joined"} => At("waiting") = {} /\ At("block") = {}

\* When join() returns, every task ever queued has run to its end ("shutting
\* down and drained").
DrainedAtJoin ==
    mainpc = "joined" => tasks_ = <<>> /\ finished = 1..pushed

------------------------------------------------------------------------------
(* The inductive invariant the proofs of TaskQueueProofs rest on.          *)

\* mtx_ is held across a step by the one worker about to sleep, which saw an
\* empty queue and no shutdown.
MutexInv ==
    \A w \in Workers :
        /\ wpc[w] = "block" <=> mtx_ = w
        /\ wpc[w] = "block" => tasks_ = <<>> /\ ~shutdown_

\* A dequeued task is running or finished.
Accounted ==
    /\ \A w \in Workers : wpc[w] = "run" <=> cur[w] # NoTask
    /\ \A w \in Workers : wpc[w] = "run" => cur[w] \in 1..Len(started)
    /\ finished \subseteq 1..Len(started)
    /\ \A t \in 1..Len(started) : t \in finished \/ \E w \in Workers : cur[w] = t

\* How far the shutdown has come, on both sides.
ShutdownInv ==
    /\ shutdown_ <=> mainpc \in {"notifyAll", "join", "joined"}
    /\ \A w \in Workers : wpc[w] = "exited" => shutdown_ /\ tasks_ = <<>>
    /\ mainpc = "joined" => At("exited") = Workers

\* What one step from the next needs: the conjunction is inductive.
IndInv ==
    TypeOK /\ MutexInv /\ FifoOnce /\ Accounted /\ ShutdownInv /\ NoneAsleepAfterStop

------------------------------------------------------------------------------
(* Liveness and implementation.                                            *)

\* A queued task is eventually run.
EveryTaskRuns == \A t \in 1..MaxTasks : (pushed >= t) ~> (t \in finished)

\* Once main() has left its loop, join() eventually returns.
ShutdownTerminates == (mainpc = "stop") ~> (mainpc = "joined")

\* The abstract work queue this implements.
Abstract == INSTANCE WorkQueue WITH
    Idle <- NoTask,
    pending <- tasks_, added <- pushed, closed <- shutdown_, held <- cur,
    finished <- finished, left <- At("exited")

\* Every behaviour of the queue and its pool, fairness included, is one of the
\* abstract work queue.
ImplementsWorkQueue == Abstract!Spec
==============================================================================
