--------------------------- MODULE TaskQueueProofs ---------------------------
(***************************************************************************)
(* Proofs about TaskQueue, for every finite pool, every number of tasks    *)
(* and every number of spurious wakeups: the type invariant, the order and *)
(* completeness of execution, the absence of a lost wakeup at shutdown,    *)
(* the wakeup accounting of notify_one, and the implementation of the      *)
(* abstract work queue (without its fairness).                             *)
(***************************************************************************)
EXTENDS TaskQueue, FiniteSetTheorems, TLAPS

\* The invariant holds of an empty queue whose workers all enter pop().
LEMMA InitInv == Init => IndInv
<1> SUFFICES ASSUME Init PROVE IndInv
  OBVIOUS
<1> USE DEF Init
<1>1. tasks_ \in Seq(Nat) /\ started \in Seq(Nat)
  OBVIOUS
<1>2. wpc \in [Workers -> WorkerPC] /\ cur \in [Workers -> Nat \cup {NoTask}]
  BY DEF WorkerPC
<1>3. TypeOK
  BY <1>1, <1>2 DEF TypeOK, MainPC
<1>4. MutexInv
  BY WorkersAssumption DEF MutexInv
<1>5. FifoOnce
  BY DEF FifoOnce
<1>6. Accounted
  BY DEF Accounted
<1>7. ShutdownInv /\ NoneAsleepAfterStop
  BY DEF ShutdownInv, NoneAsleepAfterStop
<1> QED
  BY <1>3, <1>4, <1>5, <1>6, <1>7 DEF IndInv

\* push keeps the invariant.
LEMMA PushInv == IndInv /\ Push => IndInv'
<1> SUFFICES ASSUME IndInv, Push PROVE IndInv'
  OBVIOUS
<1> USE DEF IndInv, Push, Enqueue
<1>1. ~shutdown_
  BY DEF ShutdownInv
<1>2. /\ tasks_' = Append(tasks_, pushed + 1)
      /\ pushed' = pushed + 1 /\ mainpc' = "notify"
      /\ UNCHANGED <<mtx_, shutdown_, wpc, cur, started, finished, spurious>>
  BY <1>1
<1>3. /\ tasks_' \in Seq(Nat) /\ Len(tasks_') = Len(tasks_) + 1
      /\ \A i \in 1..Len(tasks_) : tasks_'[i] = tasks_[i]
      /\ tasks_'[Len(tasks_) + 1] = pushed + 1
  BY <1>2 DEF TypeOK
<1>4. high_water_' \in Nat
  BY <1>1, <1>3 DEF HighWaterAfter, TypeOK
<1>5. TypeOK'
  BY <1>2, <1>3, <1>4 DEF TypeOK, MainPC
<1>6. MutexInv'
  BY <1>2, WorkersAssumption DEF MutexInv
<1>7. FifoOnce'
  <2>1. Len(tasks_) \in Nat /\ Len(started) \in Nat /\ pushed \in Nat
    BY DEF TypeOK
  <2>0. Len(started) + Len(tasks_) = pushed
    BY DEF FifoOnce
  <2>2. Len(started') + Len(tasks_') = pushed'
    <3> HIDE DEF IndInv, Push
    <3> QED
      BY <1>2, <1>3, <2>0, <2>1
  <2>3. ASSUME NEW i \in 1..Len(tasks_') PROVE tasks_'[i] = Len(started') + i
    <3>1. CASE i = Len(tasks_) + 1
      <4> HIDE DEF IndInv, Push
      <4> QED
        BY <1>2, <1>3, <2>0, <2>1, <3>1
    <3>2. CASE i # Len(tasks_) + 1
      <4>1. i \in 1..Len(tasks_)
        BY <1>3, <2>1, <3>2
      <4> QED
        BY <1>2, <1>3, <4>1 DEF FifoOnce
    <3> QED
      BY <3>1, <3>2
  <2>4. \A i \in 1..Len(started') : started'[i] = i
    BY <1>2 DEF FifoOnce
  <2> QED
    BY <2>2, <2>3, <2>4 DEF FifoOnce
<1>8. Accounted'
  BY <1>2 DEF Accounted
<1>9. ShutdownInv' /\ NoneAsleepAfterStop'
  BY <1>1, <1>2 DEF ShutdownInv, NoneAsleepAfterStop, At
<1> QED
  BY <1>5, <1>6, <1>7, <1>8, <1>9

\* notify_one, notify_all and a spurious wakeup move workers from waiting to
\* pop and change nothing else the invariant looks at.
LEMMA WakeInv ==
    ASSUME IndInv, mainpc' \in MainPC, spurious' \in Nat,
           wpc' \in [Workers -> WorkerPC],
           \A v \in Workers : wpc'[v] = wpc[v] \/ (wpc[v] = "waiting" /\ wpc'[v] = "pop"),
           UNCHANGED <<tasks_, mtx_, shutdown_, high_water_, cur, pushed, started, finished>>,
           mainpc' \in {"notifyAll", "join", "joined"} <=>
               mainpc \in {"notifyAll", "join", "joined"},
           mainpc' = "joined" <=> mainpc = "joined",
           mainpc' \in {"join", "joined"} => \A v \in Workers : wpc'[v] # "waiting"
    PROVE  IndInv'
<1> USE DEF IndInv
<1>1. TypeOK'
  BY DEF TypeOK
<1>2. \A v \in Workers : /\ wpc'[v] = "block" <=> wpc[v] = "block"
                         /\ wpc'[v] = "run" <=> wpc[v] = "run"
                         /\ wpc'[v] = "exited" <=> wpc[v] = "exited"
  OBVIOUS
<1>3. MutexInv'
  BY <1>2 DEF MutexInv
<1>4. FifoOnce'
  BY DEF FifoOnce
<1>5. Accounted'
  BY <1>2 DEF Accounted
<1>6. ShutdownInv'
  BY <1>2 DEF ShutdownInv, At
<1>7. NoneAsleepAfterStop'
  <2>1. mainpc' \in {"join", "joined"} => shutdown_
    BY DEF ShutdownInv
  <2> QED
    BY <1>2, <2>1 DEF NoneAsleepAfterStop, At, MutexInv
<1> QED
  BY <1>1, <1>3, <1>4, <1>5, <1>6, <1>7

\* A worker's dequeue keeps the invariant.
LEMMA PopTaskInv == ASSUME NEW w \in Workers, IndInv, PopTask(w) PROVE IndInv'
<1> USE DEF IndInv, PopTask
<1>1. Len(tasks_) \in Nat /\ Len(tasks_) > 0 /\ Head(tasks_) = tasks_[1]
  BY DEF TypeOK
<1>2. Head(tasks_) = Len(started) + 1 /\ Head(tasks_) \in Nat
  BY <1>1 DEF TypeOK, FifoOnce
<1>3. /\ tasks_' \in Seq(Nat) /\ Len(tasks_') = Len(tasks_) - 1
      /\ \A i \in 1..Len(tasks_') : tasks_'[i] = tasks_[i + 1]
  BY <1>1 DEF TypeOK
<1>4. /\ started' \in Seq(Nat) /\ Len(started') = Len(started) + 1
      /\ \A i \in 1..Len(started) : started'[i] = started[i]
      /\ started'[Len(started) + 1] = Head(tasks_)
  BY <1>2 DEF TypeOK
<1>5. TypeOK'
  BY <1>2, <1>3, <1>4 DEF TypeOK, WorkerPC
<1>6. MutexInv'
  BY WorkersAssumption DEF MutexInv, TypeOK
<1>7. FifoOnce'
  <2>1. Len(tasks_) \in Nat /\ Len(started) \in Nat /\ pushed \in Nat
    BY DEF TypeOK
  <2>0. Len(started) + Len(tasks_) = pushed /\ pushed' = pushed
    BY DEF FifoOnce
  <2>2. Len(started') + Len(tasks_') = pushed'
    <3>1. Len(tasks_') = Len(tasks_) - 1 /\ Len(started') = Len(started) + 1
      BY <1>3, <1>4
    <3> HIDE DEF IndInv, PopTask
    <3> QED
      BY <2>0, <2>1, <3>1
  <2>3. ASSUME NEW i \in 1..Len(tasks_') PROVE tasks_'[i] = Len(started') + i
    <3>1. i + 1 \in 1..Len(tasks_) /\ i \in Nat
      BY <1>3, <2>1
    <3>2. tasks_[i + 1] = Len(started) + (i + 1)
      BY <3>1 DEF FifoOnce
    <3> QED
      BY <1>3, <1>4, <2>1, <3>1, <3>2
  <2>4. ASSUME NEW i \in 1..Len(started') PROVE started'[i] = i
    <3>1. CASE i = Len(started) + 1
      BY <1>2, <1>4, <3>1
    <3>2. CASE i # Len(started) + 1
      <4>1. i \in 1..Len(started)
        BY <1>4, <2>1, <3>2
      <4> QED
        BY <1>4, <4>1 DEF FifoOnce
    <3> QED
      BY <3>1, <3>2
  <2> QED
    BY <2>2, <2>3, <2>4 DEF FifoOnce
<1>8. Accounted'
  <2>1. cur[w] = NoTask /\ cur'[w] = Len(started) + 1 /\ wpc'[w] = "run"
    BY <1>2 DEF Accounted, TypeOK
  <2>2. \A v \in Workers \ {w} : cur'[v] = cur[v] /\ wpc'[v] = wpc[v]
    BY DEF TypeOK
  <2>3. Len(started) \in Nat
    BY DEF TypeOK
  <2>4. \A v \in Workers : wpc'[v] = "run" <=> cur'[v] # NoTask
    BY <2>1, <2>2, <2>3, NoTaskAssumption DEF Accounted
  <2>5. \A v \in Workers : wpc'[v] = "run" => cur'[v] \in 1..Len(started')
    BY <1>4, <2>1, <2>2, <2>3 DEF Accounted
  <2>6. finished' \subseteq 1..Len(started')
    BY <1>4, <2>3 DEF Accounted
  <2>7. ASSUME NEW t \in 1..Len(started')
        PROVE  t \in finished' \/ \E v \in Workers : cur'[v] = t
    <3>1. CASE t = Len(started) + 1
      BY <2>1, <3>1
    <3>2. CASE t # Len(started) + 1
      <4>1. t \in 1..Len(started)
        BY <1>4, <2>3, <3>2
      <4>2. CASE t \in finished
        BY <4>2
      <4>3. CASE \E v \in Workers : cur[v] = t
        <5>1. PICK v \in Workers : cur[v] = t
          BY <4>3
        <5>2. v # w
          BY <2>1, <5>1, NoTaskAssumption
        <5> QED
          BY <2>2, <5>1, <5>2
      <4> QED
        BY <4>1, <4>2, <4>3 DEF Accounted
    <3> QED
      BY <3>1, <3>2
  <2> QED
    BY <2>4, <2>5, <2>6, <2>7 DEF Accounted
<1>9. ShutdownInv' /\ NoneAsleepAfterStop'
  BY DEF ShutdownInv, NoneAsleepAfterStop, At, TypeOK
<1> QED
  BY <1>5, <1>6, <1>7, <1>8, <1>9

\* A worker that finds the queue empty leaves, or is about to sleep.
LEMMA PopEmptyInv == ASSUME NEW w \in Workers, IndInv, PopEmpty(w) PROVE IndInv'
<1> USE DEF IndInv, PopEmpty
<1>1. TypeOK'
  BY DEF TypeOK, WorkerPC
<1>2. MutexInv'
  BY WorkersAssumption DEF MutexInv, TypeOK
<1>3. FifoOnce'
  BY DEF FifoOnce
<1>4. Accounted'
  BY DEF Accounted, TypeOK
<1>5. ShutdownInv' /\ NoneAsleepAfterStop'
  BY DEF ShutdownInv, NoneAsleepAfterStop, At, TypeOK
<1> QED
  BY <1>1, <1>2, <1>3, <1>4, <1>5

\* Going to sleep keeps the invariant: the shutdown cannot have begun.
LEMMA BlockInv == ASSUME NEW w \in Workers, IndInv, Block(w) PROVE IndInv'
<1> USE DEF IndInv, Block
<1>1. TypeOK'
  BY DEF TypeOK, WorkerPC
<1>2. MutexInv'
  BY WorkersAssumption DEF MutexInv, TypeOK
<1>3. FifoOnce'
  BY DEF FifoOnce
<1>4. Accounted'
  BY DEF Accounted, TypeOK
<1>5. ShutdownInv' /\ NoneAsleepAfterStop'
  BY DEF ShutdownInv, NoneAsleepAfterStop, At, TypeOK, MutexInv
<1> QED
  BY <1>1, <1>2, <1>3, <1>4, <1>5

\* The end of a task keeps the invariant: the task moves to finished.
LEMMA RunTaskInv == ASSUME NEW w \in Workers, IndInv, RunTask(w) PROVE IndInv'
<1> USE DEF IndInv, RunTask
<1>0. cur[w] \in 1..Len(started) /\ Len(started) \in Nat
  BY DEF Accounted, TypeOK
<1>1. TypeOK'
  <2>0. finished \in SUBSET Nat /\ finished' = finished \cup {cur[w]}
    BY DEF TypeOK
  <2>1. finished' \in SUBSET Nat
    <3>1. cur[w] \in Nat
      BY <1>0
    <3> HIDE DEF IndInv, RunTask
    <3> QED
      BY <2>0, <3>1
  <2>2. wpc' \in [Workers -> WorkerPC] /\ cur' \in [Workers -> Nat \cup {NoTask}]
    BY DEF TypeOK, WorkerPC
  <2> QED
    BY <2>1, <2>2 DEF TypeOK
<1>2. MutexInv'
  BY DEF MutexInv, TypeOK
<1>3. FifoOnce'
  BY DEF FifoOnce
<1>4. Accounted'
  <2>1. \A v \in Workers \ {w} : cur'[v] = cur[v] /\ wpc'[v] = wpc[v]
    BY DEF TypeOK
  <2>2. cur'[w] = NoTask /\ wpc'[w] = "pop"
    BY DEF TypeOK
  <2>3. finished' \subseteq 1..Len(started')
    BY <1>0 DEF Accounted
  <2>4. \A t \in 1..Len(started') : t \in finished' \/ \E v \in Workers : cur'[v] = t
    BY <2>1 DEF Accounted
  <2> QED
    BY <2>1, <2>2, <2>3, <2>4 DEF Accounted
<1>5. ShutdownInv' /\ NoneAsleepAfterStop'
  BY DEF ShutdownInv, NoneAsleepAfterStop, At, TypeOK
<1> QED
  BY <1>1, <1>2, <1>3, <1>4, <1>5

\* main() leaving its loop, setting the flag and returning from join().
LEMMA MainInv == IndInv /\ (LeaveLoop \/ Stop \/ Join) => IndInv'
<1> SUFFICES ASSUME IndInv, LeaveLoop \/ Stop \/ Join PROVE IndInv'
  OBVIOUS
<1> USE DEF IndInv
<1>0. /\ UNCHANGED <<tasks_, mtx_, high_water_, wpc, cur, pushed, started, finished, spurious>>
      /\ mainpc' \in MainPC /\ shutdown_' \in BOOLEAN
      /\ shutdown_' = shutdown_ \/ (mtx_ = NoOne /\ shutdown_')
  BY DEF LeaveLoop, Stop, Join, MainPC, TypeOK
<1>1. TypeOK'
  <2>1. shutdown_' \in BOOLEAN /\ mainpc' \in MainPC
    BY <1>0
  <2>2. /\ tasks_' \in Seq(Nat) /\ started' \in Seq(Nat)
        /\ mtx_' \in Workers \cup {NoOne}
    BY <1>0 DEF TypeOK
  <2>3. /\ wpc' \in [Workers -> WorkerPC]
        /\ cur' \in [Workers -> Nat \cup {NoTask}]
    BY <1>0 DEF TypeOK
  <2>4. /\ high_water_' \in Nat /\ pushed' \in Nat /\ spurious' \in Nat
        /\ finished' \in SUBSET Nat
    BY <1>0 DEF TypeOK
  <2> QED
    BY <2>1, <2>2, <2>3, <2>4 DEF TypeOK
<1>2. MutexInv'
  BY <1>0, WorkersAssumption DEF MutexInv
<1>3. FifoOnce' /\ Accounted'
  BY <1>0 DEF FifoOnce, Accounted
<1>4. ShutdownInv' /\ NoneAsleepAfterStop'
  BY DEF ShutdownInv, NoneAsleepAfterStop, At, LeaveLoop, Stop, Join, TypeOK
<1> QED
  BY <1>1, <1>2, <1>3, <1>4

\* Every step of the program keeps the invariant.
LEMMA NextInv == IndInv /\ [Next]_vars => IndInv'
<1> SUFFICES ASSUME IndInv, [Next]_vars PROVE IndInv'
  OBVIOUS
<1>1. CASE Push
  BY <1>1, PushInv
<1>2. CASE NotifyOne
  <2> USE <1>2 DEF NotifyOne
  <2>1. /\ wpc' \in [Workers -> WorkerPC]
        /\ \A v \in Workers : wpc'[v] = wpc[v] \/ (wpc[v] = "waiting" /\ wpc'[v] = "pop")
    BY DEF IndInv, TypeOK, At, WorkerPC
  <2>2. mainpc' \in MainPC /\ spurious' \in Nat
    BY DEF IndInv, TypeOK, MainPC
  <2> QED
    BY <2>1, <2>2, WakeInv
<1>3. CASE NotifyAll
  <2> USE <1>3 DEF NotifyAll
  <2>1. /\ wpc' \in [Workers -> WorkerPC]
        /\ \A v \in Workers : wpc'[v] = wpc[v] \/ (wpc[v] = "waiting" /\ wpc'[v] = "pop")
        /\ \A v \in Workers : wpc'[v] # "waiting"
    BY DEF IndInv, TypeOK, WorkerPC
  <2>2. mainpc' \in MainPC /\ spurious' \in Nat
    BY DEF IndInv, TypeOK, MainPC
  <2> QED
    BY <2>1, <2>2, WakeInv
<1>4. CASE LeaveLoop \/ Stop \/ Join
  BY <1>4, MainInv
<1>5. ASSUME NEW w \in Workers, Worker(w) PROVE IndInv'
  BY <1>5, PopTaskInv, PopEmptyInv, BlockInv, RunTaskInv DEF Worker
<1>6. ASSUME NEW w \in Workers, Spurious(w) PROVE IndInv'
  <2> USE <1>6 DEF Spurious
  <2>1. /\ wpc' \in [Workers -> WorkerPC]
        /\ \A v \in Workers : wpc'[v] = wpc[v] \/ (wpc[v] = "waiting" /\ wpc'[v] = "pop")
    BY DEF IndInv, TypeOK, WorkerPC
  <2>2. mainpc' \in MainPC /\ spurious' \in Nat
    BY DEF IndInv, TypeOK
  <2>3. mainpc' \in {"join", "joined"} => \A v \in Workers : wpc'[v] # "waiting"
    BY <2>1 DEF IndInv, NoneAsleepAfterStop, At
  <2> QED
    BY <2>1, <2>2, <2>3, WakeInv
<1>7. CASE UNCHANGED vars
  BY <1>7 DEF vars, IndInv, TypeOK, MutexInv, FifoOnce, Accounted, ShutdownInv,
              NoneAsleepAfterStop, At
<1> QED
  BY <1>1, <1>2, <1>3, <1>4, <1>5, <1>6, <1>7 DEF Next, Main, Done

\* The inductive invariant holds in every reachable state.
THEOREM Invariance == SafetySpec => []IndInv
  BY InitInv, NextInv, PTL DEF SafetySpec

\* Every variable of the queue and the pool keeps its type.
THEOREM TypeCorrect == SafetySpec => []TypeOK
<1>1. IndInv => TypeOK
  BY DEF IndInv
<1> QED
  BY <1>1, Invariance, PTL

\* Tasks are dequeued in the order of their pushes, none lost or repeated.
THEOREM FifoOnceCorrect == SafetySpec => []FifoOnce
<1>1. IndInv => FifoOnce
  BY DEF IndInv
<1> QED
  BY <1>1, Invariance, PTL

\* No worker is left asleep in pop() once stop() has notified.
THEOREM NoLostWakeupAtStop == SafetySpec => []NoneAsleepAfterStop
<1>1. IndInv => NoneAsleepAfterStop
  BY DEF IndInv
<1> QED
  BY <1>1, Invariance, PTL

\* When join() returns every queued task has run to its end.
THEOREM JoinDrains == SafetySpec => []DrainedAtJoin
<1>1. IndInv => DrainedAtJoin
  <2> SUFFICES ASSUME IndInv, mainpc = "joined"
               PROVE  tasks_ = <<>> /\ finished = 1..pushed
    BY DEF DrainedAtJoin
  <2> USE DEF IndInv
  <2>1. \A w \in Workers : wpc[w] = "exited"
    BY DEF ShutdownInv, At
  <2>2. tasks_ = <<>>
    BY <2>1, WorkersAssumption DEF ShutdownInv
  <2>3. Len(started) = pushed
    BY <2>2 DEF FifoOnce, TypeOK
  <2>4. ASSUME NEW t \in 1..Len(started) PROVE t \in finished
    <3>1. \A w \in Workers : cur[w] = NoTask
      BY <2>1 DEF Accounted
    <3>2. t \in Nat
      BY DEF TypeOK
    <3> QED
      BY <3>1, <3>2, NoTaskAssumption DEF Accounted
  <2> QED
    BY <2>2, <2>3, <2>4 DEF Accounted
<1> QED
  BY <1>1, Invariance, PTL

------------------------------------------------------------------------------
(* Wakeup accounting.                                                      *)

\* One more, one fewer worker on its way to the queue.
LEMMA PopCount ==
    ASSUME wpc \in [Workers -> WorkerPC], NEW w \in Workers
    PROVE  /\ Cardinality(At("pop")) \in Nat
           /\ wpc[w] # "pop" =>
                Cardinality(At("pop") \cup {w}) = Cardinality(At("pop")) + 1
           /\ wpc[w] = "pop" =>
                Cardinality(At("pop") \ {w}) = Cardinality(At("pop")) - 1
<1>1. IsFiniteSet(At("pop"))
  BY FS_Subset, WorkersAssumption DEF At
<1>2. wpc[w] # "pop" => w \notin At("pop")
  BY DEF At
<1>3. wpc[w] = "pop" => w \in At("pop")
  BY DEF At
<1> QED
  BY <1>1, <1>2, <1>3, FS_CardinalityType, FS_AddElement, FS_RemoveElement

\* Every step keeps the accounting: a sleeping worker is never needed.
LEMMA NextWorkConserving ==
    ASSUME IndInv, WorkConserving, [Next]_vars PROVE WorkConserving'
<1> USE DEF WorkConserving
<1>1. /\ wpc \in [Workers -> WorkerPC] /\ tasks_ \in Seq(Nat) /\ Len(tasks_) \in Nat
  BY DEF IndInv, TypeOK
<1>2. IsFiniteSet(At("pop")) /\ Cardinality(At("pop")) \in Nat
  BY FS_Subset, FS_CardinalityType, WorkersAssumption DEF At
<1>3. IsFiniteSet(At("pop")') /\ Cardinality(At("pop")') \in Nat
  BY FS_Subset, FS_CardinalityType, WorkersAssumption DEF At
<1>4. CASE Push
  <2>1. /\ UNCHANGED wpc /\ mainpc = "loop" /\ mainpc' = "notify"
        /\ tasks_' = Append(tasks_, pushed + 1)
    BY <1>4 DEF Push, Enqueue, IndInv, ShutdownInv
  <2>2. Len(tasks_') = Len(tasks_) + 1
    BY <1>1, <2>1 DEF IndInv, TypeOK
  <2>3. At("pop")' = At("pop") /\ At("waiting")' = At("waiting")
    BY <2>1 DEF At
  <2> QED
    BY <1>1, <1>2, <2>1, <2>2, <2>3
<1>5. CASE NotifyOne
  <2>1. tasks_' = tasks_ /\ mainpc = "notify" /\ mainpc' = "loop"
    BY <1>5 DEF NotifyOne
  <2>2. CASE At("waiting") = {}
    BY <1>5, <2>2 DEF NotifyOne, At
  <2>3. CASE At("waiting") # {}
    <3>1. PICK w \in At("waiting") : wpc' = [wpc EXCEPT ![w] = "pop"]
      BY <1>5, <2>3 DEF NotifyOne
    <3>2. w \in Workers /\ wpc[w] = "waiting"
      BY DEF At
    <3>3. At("pop")' = At("pop") \cup {w}
      BY <1>1, <3>1, <3>2 DEF At
    <3>4. Cardinality(At("pop")') = Cardinality(At("pop")) + 1
      BY <1>1, <3>2, <3>3, PopCount
    <3> QED
      BY <1>1, <1>2, <2>1, <2>3, <3>4
  <2> QED
    BY <2>2, <2>3
<1>6. CASE LeaveLoop \/ Stop \/ Join \/ UNCHANGED vars
  <2>1. UNCHANGED <<wpc, tasks_>> /\ (mainpc' = "notify" <=> mainpc = "notify")
    BY <1>6 DEF LeaveLoop, Stop, Join, vars
  <2>2. At("pop")' = At("pop") /\ At("waiting")' = At("waiting")
    BY <2>1 DEF At
  <2> QED
    BY <2>1, <2>2
<1>7. CASE NotifyAll
  <2>1. At("waiting")' = {}
    BY <1>7, <1>1 DEF NotifyAll, At
  <2> QED
    BY <2>1
<1>8. ASSUME NEW w \in Workers, PopTask(w) PROVE WorkConserving'
  <2>1. /\ wpc[w] = "pop" /\ wpc' = [wpc EXCEPT ![w] = "run"] /\ mainpc' = mainpc
        /\ Len(tasks_') = Len(tasks_) - 1
    BY <1>8, <1>1 DEF PopTask
  <2>2. At("pop")' = At("pop") \ {w} /\ At("waiting")' = At("waiting")
    BY <1>1, <2>1 DEF At
  <2>3. Cardinality(At("pop")') = Cardinality(At("pop")) - 1
    BY <1>1, <2>1, <2>2, PopCount
  <2> QED
    BY <1>1, <1>2, <2>1, <2>2, <2>3
<1>9. ASSUME NEW w \in Workers, PopEmpty(w) \/ Block(w) PROVE WorkConserving'
  <2>1. tasks_' = <<>>
    BY <1>9 DEF PopEmpty, Block, IndInv, MutexInv
  <2>2. Len(tasks_') = 0
    BY <2>1
  <2> QED
    BY <1>3, <2>2
<1>10. ASSUME NEW w \in Workers, RunTask(w) \/ Spurious(w) PROVE WorkConserving'
  <2>1. /\ wpc[w] \in {"run", "waiting"} /\ wpc' = [wpc EXCEPT ![w] = "pop"]
        /\ UNCHANGED <<mainpc, tasks_>>
    BY <1>10 DEF RunTask, Spurious
  <2>2. At("pop")' = At("pop") \cup {w} /\ At("waiting")' \subseteq At("waiting")
    BY <1>1, <2>1 DEF At
  <2>3. Cardinality(At("pop")') = Cardinality(At("pop")) + 1
    BY <1>1, <2>1, <2>2, PopCount
  <2> QED
    BY <1>1, <1>2, <2>1, <2>2, <2>3
<1> QED
  BY <1>4, <1>5, <1>6, <1>7, <1>8, <1>9, <1>10 DEF Next, Main, Worker, Done

\* notify_one after every push is enough: a worker sleeps only while those on
\* their way to the queue suffice for what is queued.
THEOREM NoNeededWorkerSleeps == SafetySpec => []WorkConserving
<1>1. Init => WorkConserving
  BY DEF Init, WorkConserving, At
<1> QED
  BY <1>1, NextWorkConserving, Invariance, PTL DEF SafetySpec

------------------------------------------------------------------------------
(* The abstract work queue.                                                *)

\* Every step of the program is a step of the abstract queue, or none of it.
LEMMA StepRefines ==
    ASSUME IndInv, [Next]_vars PROVE [Abstract!Next]_(Abstract!vars)
<1>0. wpc \in [Workers -> WorkerPC] /\ cur \in [Workers -> Nat \cup {NoTask}]
  BY DEF IndInv, TypeOK
<1>1. CASE Push
  <2>1. ~shutdown_ /\ At("exited")' = At("exited")
    BY <1>1 DEF Push, IndInv, ShutdownInv, At
  <2>2. Abstract!Add
    BY <1>1, <2>1 DEF Push, Enqueue, Abstract!Add
  <2> QED
    BY <2>2 DEF Abstract!Next
<1>2. CASE NotifyOne \/ NotifyAll \/ LeaveLoop \/ Join \/ UNCHANGED vars
  <2>1. UNCHANGED <<tasks_, pushed, shutdown_, cur, finished>>
    BY <1>2 DEF NotifyOne, NotifyAll, LeaveLoop, Join, vars
  <2>2. \A v \in Workers : wpc'[v] = "exited" <=> wpc[v] = "exited"
    BY <1>0, <1>2 DEF NotifyOne, NotifyAll, LeaveLoop, Join, vars, At
  <2>3. At("exited")' = At("exited")
    BY <2>2 DEF At
  <2> QED
    BY <2>1, <2>3 DEF Abstract!vars
<1>3. CASE Stop
  <2>1. ~shutdown_ /\ At("exited")' = At("exited")
    BY <1>3 DEF Stop, IndInv, ShutdownInv, At
  <2>2. Abstract!Close
    BY <1>3, <2>1 DEF Stop, Abstract!Close
  <2> QED
    BY <2>2 DEF Abstract!Next
<1>4. ASSUME NEW w \in Workers, PopTask(w) PROVE Abstract!Next
  <2>1. w \notin At("exited") /\ cur[w] = NoTask
    BY <1>4 DEF PopTask, IndInv, Accounted, At
  <2>2. At("exited")' = At("exited")
    BY <1>0, <1>4 DEF PopTask, At
  <2>3. Abstract!Take(w)
    BY <1>4, <2>1, <2>2 DEF PopTask, Abstract!Take
  <2> QED
    BY <2>3 DEF Abstract!Next
<1>5. ASSUME NEW w \in Workers, PopEmpty(w) PROVE [Abstract!Next]_(Abstract!vars)
  <2>1. CASE shutdown_
    <3>1. cur[w] = NoTask /\ w \notin At("exited")
      BY <1>5 DEF PopEmpty, IndInv, Accounted, At
    <3>2. At("exited")' = At("exited") \cup {w}
      BY <1>0, <1>5, <2>1 DEF PopEmpty, At
    <3>3. Abstract!Leave(w)
      BY <1>5, <2>1, <3>1, <3>2 DEF PopEmpty, Abstract!Leave
    <3> QED
      BY <3>3 DEF Abstract!Next
  <2>2. CASE ~shutdown_
    <3>1. At("exited")' = At("exited")
      BY <1>0, <1>5, <2>2 DEF PopEmpty, At
    <3> QED
      BY <1>5, <3>1 DEF PopEmpty, Abstract!vars
  <2> QED
    BY <2>1, <2>2
<1>6. ASSUME NEW w \in Workers, Block(w) \/ Spurious(w) PROVE UNCHANGED Abstract!vars
  <2>1. At("exited")' = At("exited")
    BY <1>0, <1>6 DEF Block, Spurious, At
  <2> QED
    BY <1>6, <2>1 DEF Block, Spurious, Abstract!vars
<1>7. ASSUME NEW w \in Workers, RunTask(w) PROVE Abstract!Next
  <2>1. cur[w] # NoTask
    BY <1>7 DEF RunTask, IndInv, Accounted
  <2>2. At("exited")' = At("exited")
    BY <1>0, <1>7 DEF RunTask, At
  <2>3. Abstract!Finish(w)
    BY <1>7, <2>1, <2>2 DEF RunTask, Abstract!Finish
  <2> QED
    BY <2>3 DEF Abstract!Next
<1> QED
  BY <1>1, <1>2, <1>3, <1>4, <1>5, <1>6, <1>7 DEF Next, Main, Worker, Done

\* TaskQueue with its pool implements the abstract work queue (safety part).
THEOREM RefinesWorkQueue == SafetySpec => Abstract!SafetySpec
<1>1. Init => Abstract!Init
  BY DEF Init, Abstract!Init, At
<1> QED
  BY <1>1, StepRefines, Invariance, PTL DEF SafetySpec, Abstract!SafetySpec
==============================================================================
