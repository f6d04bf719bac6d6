---------------------------- MODULE LoadGenerator ----------------------------
(***************************************************************************)
(* benchmark.cpp: every thread makes its requests one after the other, on  *)
(* one connection (-k) or on a new one each time, and counts a request as  *)
(* ok when one whole response was read, as failed otherwise.  Status codes *)
(* and byte counts are left out: this origin only says 200, and it always  *)
(* gives a Content-Length.  The connections counted are those in net.      *)
(***************************************************************************)
EXTENDS Loopback

CONSTANTS NoSock

ASSUME NoSockAssumption == NoSock \notin Conns

VARIABLES
    keep_alive, \* Config::keep_alive (-k)
    at,         \* per thread: where it is in worker()
    i,          \* per thread: requests it has finished
    sock,       \* per thread: its connection, or NoSock
    rbuf,       \* per thread: read from the connection and not yet consumed
    last,       \* per thread: the response that was last counted as ok
    ok, failed

generator == <<keep_alive, at, i, sock, rbuf, last, ok, failed>>

GenInit ==
    /\ keep_alive \in BOOLEAN
    /\ at = [t \in Threads |-> IF Requests = 0 THEN "end" ELSE "start"]
    /\ i = [t \in Threads |-> 0]
    /\ sock = [t \in Threads |-> NoSock]
    /\ rbuf = [t \in Threads |-> <<>>]
    /\ last = [t \in Threads |-> <<>>]
    /\ ok = 0 /\ failed = 0

\* The URLs are drawn at random; a path of its own for every request tells the
\* most apart.
Path(t) == i[t] + 1

\* The thread goes on with its next request, or closes its socket and ends.
GoOn(t) ==
    /\ i' = [i EXCEPT ![t] = @ + 1]
    /\ at' = [at EXCEPT ![t] = IF i[t] + 1 = Requests THEN "end" ELSE "start"]

\* connect_to(): a new connection waits in the origin's backlog.
connect_to(t) ==
    LET k == <<t, i[t] + 1>>
    IN /\ at[t] = "start"
       /\ sock[t] = NoSock
       /\ net' = [net EXCEPT ![k].client = "open", ![k].server = "backlog"]
       /\ sock' = [sock EXCEPT ![t] = k]
       /\ rbuf' = [rbuf EXCEPT ![t] = <<>>]
       /\ UNCHANGED <<faults, keep_alive, at, i, last, ok, failed>>

\* No port is left, or the connection is refused.
ConnectFails(t) ==
    /\ at[t] = "start"
    /\ sock[t] = NoSock
    /\ faults < MaxFaults
    /\ faults' = faults + 1
    /\ failed' = failed + 1
    /\ GoOn(t)
    /\ UNCHANGED <<net, keep_alive, sock, rbuf, last, ok>>

\* The request fails, and the next one starts with a new connection.
Fail(t) ==
    /\ failed' = failed + 1
    /\ net' = [net EXCEPT ![sock[t]].client = "closed"]
    /\ sock' = [sock EXCEPT ![t] = NoSock]
    /\ GoOn(t)
    /\ UNCHANGED <<faults, keep_alive, rbuf, last, ok>>

\* send_all(): the two pieces of a request.  After the origin has closed, a
\* send may still succeed.
SendPiece(t, from, to, piece) ==
    /\ at[t] = from
    /\ sock[t] # NoSock
    /\ ~net[sock[t]].broken
    /\ net' = [net EXCEPT ![sock[t]].up = Append(@, piece)]
    /\ at' = [at EXCEPT ![t] = to]
    /\ UNCHANGED <<faults, keep_alive, i, sock, rbuf, last, ok, failed>>

send_all(t) ==
    \/ SendPiece(t, "start", "rest", [kind |-> "part", path |-> Path(t), close |-> FALSE])
    \/ SendPiece(t, "rest", "read", [kind |-> "req", path |-> Path(t), close |-> ~keep_alive])

SendFails(t) ==
    /\ at[t] \in {"start", "rest"}
    /\ sock[t] # NoSock
    /\ net[sock[t]].broken \/ net[sock[t]].server = "closed"
    /\ Fail(t)

\* Mutant: whatever the first recv() returned is taken for the response.
ResponseAtOnce(t) == Len(rbuf[t])

\* Where the first response in rbuf ends: headers, then Content-Length bytes.
\* 0 if it is not whole.
ResponseEnd(t) ==
    LET heads == {n \in 1..Len(rbuf[t]) : rbuf[t][n].kind = "head"}
        h == CHOOSE n \in heads : \A m \in heads : n <= m
    IN IF heads = {} \/ Len(rbuf[t]) < h + 1 THEN 0 ELSE h + 1

\* read_one_response(): recv() what has come, up to any point.
RecvSome(t) ==
    /\ at[t] = "read"
    /\ ResponseEnd(t) = 0
    /\ \E n \in 1..Len(net[sock[t]].down) :
        /\ rbuf' = [rbuf EXCEPT ![t] = @ \o SubSeq(net[sock[t]].down, 1, n)]
        /\ net' = [net EXCEPT ![sock[t]].down = SubSeq(@, n + 1, Len(@))]
    /\ UNCHANGED <<faults, keep_alive, at, i, sock, last, ok, failed>>

\* End of file or an error in the middle of a response.
RecvFails(t) ==
    /\ at[t] = "read"
    /\ ResponseEnd(t) = 0
    /\ net[sock[t]].down = <<>>
    /\ net[sock[t]].broken \/ net[sock[t]].server = "closed"
    /\ Fail(t)

\* One whole response was read; without -k the connection is closed.
Ok(t) ==
    LET n == ResponseEnd(t)
    IN /\ at[t] = "read"
       /\ n > 0
       /\ last' = [last EXCEPT ![t] = <<Path(t), SubSeq(rbuf[t], 1, n)>>]
       /\ rbuf' = [rbuf EXCEPT ![t] = SubSeq(@, n + 1, Len(@))]
       /\ ok' = ok + 1
       /\ GoOn(t)
       /\ IF keep_alive
          THEN UNCHANGED <<net, sock>>
          ELSE /\ net' = [net EXCEPT ![sock[t]].client = "closed"]
               /\ sock' = [sock EXCEPT ![t] = NoSock]
       /\ UNCHANGED <<faults, keep_alive, failed>>

\* worker() closes its socket when it is through.
End(t) ==
    /\ at[t] = "end"
    /\ at' = [at EXCEPT ![t] = "done"]
    /\ net' = IF sock[t] = NoSock THEN net ELSE [net EXCEPT ![sock[t]].client = "closed"]
    /\ sock' = [sock EXCEPT ![t] = NoSock]
    /\ UNCHANGED <<faults, keep_alive, i, rbuf, last, ok, failed>>

worker(t) ==
    \/ connect_to(t) \/ ConnectFails(t)
    \/ send_all(t) \/ SendFails(t)
    \/ RecvSome(t) \/ RecvFails(t) \/ Ok(t)
    \/ End(t)
==============================================================================
