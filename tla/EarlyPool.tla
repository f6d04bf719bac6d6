------------------------------ MODULE EarlyPool ------------------------------
(***************************************************************************)
(* TaskQueue and ThreadPool of server_phase3.cpp (server_phase4.cpp has    *)
(* the same code): the ancestor of the pool that TaskQueue models.  It     *)
(* differs in shutdown: stop() sets an atomic flag without the mutex, and  *)
(* workers also look at the pool's own flag before every pop.              *)
(*                                                                         *)
(* main() builds the pool first.  If the listening socket cannot be set up *)
(* it returns, and the destructor of the pool shuts it down; otherwise it  *)
(* pushes tasks for ever.                                                  *)
(***************************************************************************)
EXTENDS Naturals, FiniteSets

CONSTANTS
    Workers,
    MaxTasks,  \* bound: tasks main() pushes
    NoOne      \* mtx is free

VARIABLES
    tasks,     \* how many tasks are queued
    pushed,    \* how many were pushed
    mtx,       \* the worker that holds the mutex across a step, or NoOne
    shutdown,  \* TaskQueue::shutdown
    running,   \* ThreadPool::running
    mainpc, wpc

vars == <<tasks, pushed, mtx, shutdown, running, mainpc, wpc>>

At(pc) == {w \in Workers : wpc[w] = pc}

Init ==
    /\ tasks = 0
    /\ pushed = 0
    /\ mtx = NoOne
    /\ shutdown = FALSE
    /\ running = TRUE
    /\ mainpc = "setup"
    /\ wpc = [w \in Workers |-> "check"]

------------------------------------------------------------------------------
(* main()                                                                  *)

\* The listener is up, or socket, bind, listen or epoll_create1 failed.
Setup ==
    /\ mainpc = "setup"
    /\ mainpc' \in {"loop", "return"}
    /\ UNCHANGED <<tasks, pushed, mtx, shutdown, running, wpc>>

Push ==
    /\ mainpc = "loop"
    /\ pushed < MaxTasks
    /\ mtx = NoOne
    /\ tasks' = tasks + 1
    /\ pushed' = pushed + 1
    /\ mainpc' = "notify"
    /\ UNCHANGED <<mtx, shutdown, running, wpc>>

NotifyOne ==
    /\ mainpc = "notify"
    /\ mainpc' = "loop"
    /\ IF At("waiting") = {}
       THEN UNCHANGED wpc
       ELSE \E w \in At("waiting") : wpc' = [wpc EXCEPT ![w] = "pop"]
    /\ UNCHANGED <<tasks, pushed, mtx, shutdown, running>>

\* ~ThreadPool: running = false, then queue.stop(), which takes no lock.
ClearRunning ==
    /\ mainpc = "return"
    /\ running' = FALSE
    /\ mainpc' = "stop"
    /\ UNCHANGED <<tasks, pushed, mtx, shutdown, wpc>>

Stop ==
    /\ mainpc = "stop"
    /\ shutdown' = TRUE
    /\ mainpc' = "notifyAll"
    /\ UNCHANGED <<tasks, pushed, mtx, running, wpc>>

NotifyAll ==
    /\ mainpc = "notifyAll"
    /\ mainpc' = "join"
    /\ wpc' = [w \in Workers |-> IF wpc[w] = "waiting" THEN "pop" ELSE wpc[w]]
    /\ UNCHANGED <<tasks, pushed, mtx, shutdown, running>>

Join ==
    /\ mainpc = "join"
    /\ At("exited") = Workers
    /\ mainpc' = "joined"
    /\ UNCHANGED <<tasks, pushed, mtx, shutdown, running, wpc>>

------------------------------------------------------------------------------
(* A worker                                                                *)

\* while (running)
Check(w) ==
    /\ wpc[w] = "check"
    /\ wpc' = [wpc EXCEPT ![w] = IF running THEN "pop" ELSE "exited"]
    /\ UNCHANGED <<tasks, pushed, mtx, shutdown, running, mainpc>>

\* pop: the lock and the predicate of wait, evaluated once.
Pop(w) ==
    /\ wpc[w] = "pop"
    /\ mtx = NoOne
    /\ IF tasks > 0
       THEN /\ tasks' = tasks - 1
            /\ wpc' = [wpc EXCEPT ![w] = "run"]
            /\ UNCHANGED mtx
       ELSE /\ IF shutdown
               THEN wpc' = [wpc EXCEPT ![w] = "exited"] /\ UNCHANGED mtx
               ELSE wpc' = [wpc EXCEPT ![w] = "block"] /\ mtx' = w
            /\ UNCHANGED tasks
    /\ UNCHANGED <<pushed, shutdown, running, mainpc>>

\* The rest of wait: release and sleep.
Block(w) ==
    /\ wpc[w] = "block"
    /\ mtx' = NoOne
    /\ wpc' = [wpc EXCEPT ![w] = "waiting"]
    /\ UNCHANGED <<tasks, pushed, shutdown, running, mainpc>>

Run(w) ==
    /\ wpc[w] = "run"
    /\ wpc' = [wpc EXCEPT ![w] = "check"]
    /\ UNCHANGED <<tasks, pushed, mtx, shutdown, running, mainpc>>

Main == Setup \/ Push \/ NotifyOne \/ ClearRunning \/ Stop \/ NotifyAll \/ Join

Worker(w) == Check(w) \/ Pop(w) \/ Block(w) \/ Run(w)

Next == Main \/ \E w \in Workers : Worker(w)

Spec == Init /\ [][Next]_vars /\ WF_vars(Main) /\ \A w \in Workers : WF_vars(Worker(w))

\* stop() wakes all workers so that they can exit: the destructor returns.
ShutdownReturns == (mainpc = "return") ~> (mainpc = "joined")
==============================================================================
