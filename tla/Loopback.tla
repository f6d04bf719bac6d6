------------------------------ MODULE Loopback ------------------------------
(***************************************************************************)
(* The TCP connections between the load generator and the test origin, as  *)
(* the socket calls of benchmark.cpp and origin_server.cpp see them: two   *)
(* streams, each end closed by its owner, and resets.                      *)
(***************************************************************************)
EXTENDS Naturals, Sequences, FiniteSets

CONSTANTS
    Threads,    \* client threads of the load generator
    Requests,   \* requests each of them makes (-n)
    MaxFaults   \* bound: connections that cannot be made or break

ASSUME LoadAssumption ==
    IsFiniteSet(Threads) /\ Requests \in Nat /\ MaxFaults \in Nat

VARIABLES
    net,        \* the connections
    faults      \* how many faults there were

\* A thread opens at most one connection for each of its requests.
Conns == Threads \X (1..Requests)

Unused == [up |-> <<>>, down |-> <<>>, client |-> "none", server |-> "none",
           broken |-> FALSE]

NetInit == net = [k \in Conns |-> Unused] /\ faults = 0

\* A reset: what was not read is lost, and both ends see an error.
Break(k) ==
    /\ faults < MaxFaults
    /\ faults' = faults + 1
    /\ net[k].client = "open" /\ ~net[k].broken
    /\ net' = [net EXCEPT ![k].broken = TRUE, ![k].up = <<>>, ![k].down = <<>>]
=============================================================================
