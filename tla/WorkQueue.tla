------------------------------ MODULE WorkQueue ------------------------------
(***************************************************************************)
(* What TaskQueue and ThreadPool of server_phase5.cpp promise together,    *)
(* without mutex, condition variable or wakeups: work items are taken in   *)
(* the order they were added, each by one worker; closing the queue stops  *)
(* additions, and a worker leaves only when the closed queue is empty.     *)
(* Items are numbered in the order they were added.                        *)
(***************************************************************************)
EXTENDS Naturals, Sequences

CONSTANTS Workers, Idle

VARIABLES
    pending,   \* items added and not taken, oldest first
    added,     \* how many items were ever added
    closed,    \* no further additions
    held,      \* per worker: the item it works on, or Idle
    finished,  \* the items whose work is done
    left       \* the workers that have gone home

vars == <<pending, added, closed, held, finished, left>>

Init ==
    /\ pending = <<>>
    /\ added = 0
    /\ closed = FALSE
    /\ held = [w \in Workers |-> Idle]
    /\ finished = {}
    /\ left = {}

Add ==
    /\ ~closed
    /\ added' = added + 1
    /\ pending' = Append(pending, added + 1)
    /\ UNCHANGED <<closed, held, finished, left>>

Take(w) ==
    /\ w \notin left
    /\ held[w] = Idle
    /\ pending # <<>>
    /\ held' = [held EXCEPT ![w] = Head(pending)]
    /\ pending' = Tail(pending)
    /\ UNCHANGED <<added, closed, finished, left>>

Finish(w) ==
    /\ held[w] # Idle
    /\ finished' = finished \cup {held[w]}
    /\ held' = [held EXCEPT ![w] = Idle]
    /\ UNCHANGED <<pending, added, closed, left>>

Close ==
    /\ ~closed
    /\ closed' = TRUE
    /\ UNCHANGED <<pending, added, held, finished, left>>

Leave(w) ==
    /\ closed
    /\ pending = <<>>
    /\ held[w] = Idle
    /\ w \notin left
    /\ left' = left \cup {w}
    /\ UNCHANGED <<pending, added, closed, held, finished>>

Next ==
    \/ Add
    \/ Close
    \/ \E w \in Workers : Take(w) \/ Finish(w) \/ Leave(w)

\* Work is not left lying while somebody is idle, and nobody works forever.
Fairness ==
    /\ WF_vars(\E w \in Workers : Take(w))
    /\ \A w \in Workers : WF_vars(Finish(w)) /\ WF_vars(Leave(w))

SafetySpec == Init /\ [][Next]_vars

Spec == SafetySpec /\ Fairness
==============================================================================
