------------------------------- MODULE Harness -------------------------------
(***************************************************************************)
(* The load generator run against the test origin.                         *)
(***************************************************************************)
EXTENDS LoadGenerator, OriginServer

vars == <<net, faults, origin, generator>>

Init == NetInit /\ OriginInit /\ GenInit

Origin == \E k \in Conns : Accept(k) \/ Dispatch(k)

Next ==
    \/ \E t \in Threads : worker(t) /\ UNCHANGED origin
    \/ (Origin \/ \E w \in Workers : handle(w)) /\ UNCHANGED generator
    \/ (\E k \in Conns : Break(k)) /\ UNCHANGED <<origin, generator>>

SafetySpec == Init /\ [][Next]_vars

Spec ==
    /\ SafetySpec
    /\ \A t \in Threads : WF_vars(worker(t) /\ UNCHANGED origin)
    /\ \A k \in Conns : WF_vars((Accept(k) \/ Dispatch(k)) /\ UNCHANGED generator)
    /\ \A w \in Workers : WF_vars(handle(w) /\ UNCHANGED generator)

------------------------------------------------------------------------------
(* Properties                                                              *)

\* A response that read_one_response() counts as ok is whole, and is the answer
\* to the request just sent: a reused connection never gets out of step.
OwnResponse ==
    \A t \in Threads : last[t] # <<>> =>
        last[t][2] = << [kind |-> "head", path |-> last[t][1]],
                        [kind |-> "body", path |-> last[t][1]] >>

AllDone == \A t \in Threads : at[t] = "done"

\* When the threads have ended every request has been counted once.  A failure
\* is a fault of the network, or comes of -k against an origin that closes:
\* worker() does not look at "Connection: close", and loses the request after
\* each ok at most.
Tallied ==
    /\ AllDone => ok + failed = Requests * Cardinality(Threads)
    /\ failed <= faults + (IF keep_alive /\ ~g_keep_alive THEN ok ELSE 0)

\* The benchmark ends, with its counters right and every connection closed by
\* the origin too.
BenchmarkSettles ==
    <>[](/\ AllDone
         /\ Tallied
         /\ \A k \in Conns : net[k].server \in {"none", "closed"})
==============================================================================
