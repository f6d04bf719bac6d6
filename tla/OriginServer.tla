---------------------------- MODULE OriginServer ----------------------------
(***************************************************************************)
(* origin_server.cpp: the HTTP origin of the benchmarks.  One thread polls *)
(* and accepts, a pool of workers runs handle() on connections armed with  *)
(* EPOLLONESHOT.  A request arrives in two pieces ("part", then "req"); a  *)
(* response is written in two ("head", then "body").                       *)
(***************************************************************************)
EXTENDS Loopback

CONSTANTS Workers, None

VARIABLES
    g_keep_alive, \* FALSE after --close
    inbuf,        \* per connection: Conn::inbuf
    armed,        \* the connections epoll may report
    tasks,        \* TaskQueue::tasks_
    hand          \* per worker: where it is in handle(), and its locals

origin == <<g_keep_alive, inbuf, armed, tasks, hand>>

Free == [pc |-> "pop", conn |-> None, peer_closed |-> FALSE,
         wants_close |-> FALSE, path |-> None]

OriginInit ==
    /\ g_keep_alive \in BOOLEAN
    /\ inbuf = [k \in Conns |-> <<>>]
    /\ armed = {}
    /\ tasks = <<>>
    /\ hand = [w \in Workers |-> Free]

\* The listener is level-triggered: a connection left by a failed accept() is
\* reported again.
Accept(k) ==
    /\ net[k].server = "backlog"
    /\ net' = [net EXCEPT ![k].server = "open"]
    /\ armed' = armed \cup {k}
    /\ UNCHANGED <<faults, g_keep_alive, inbuf, tasks, hand>>

\* An event disarms the connection and becomes a task.
Dispatch(k) ==
    /\ k \in armed
    /\ net[k].up # <<>> \/ net[k].client = "closed" \/ net[k].broken
    /\ armed' = armed \ {k}
    /\ tasks' = Append(tasks, k)
    /\ UNCHANGED <<net, faults, g_keep_alive, inbuf, hand>>

close_conn(w, k) ==
    /\ net' = [net EXCEPT ![k].server = "closed"]
    /\ hand' = [hand EXCEPT ![w] = Free]

\* pop(), and handle()'s loop of recv() until EAGAIN, end of file or an error.
Recv(w) ==
    /\ hand[w].pc = "pop"
    /\ tasks # <<>>
    /\ LET k == Head(tasks)
       IN IF net[k].broken
          THEN close_conn(w, k) /\ UNCHANGED inbuf
          ELSE /\ inbuf' = [inbuf EXCEPT ![k] = @ \o net[k].up]
               /\ net' = [net EXCEPT ![k].up = <<>>]
               /\ hand' = [hand EXCEPT ![w] =
                      [pc |-> "parse", conn |-> k,
                       peer_closed |-> net[k].client = "closed",
                       wants_close |-> FALSE, path |-> None]]
    /\ tasks' = Tail(tasks)
    /\ UNCHANGED <<faults, g_keep_alive, armed>>

Whole(k) == {i \in 1..Len(inbuf[k]) : inbuf[k][i].kind = "req"}

\* The next request in the buffer: the head of its response goes out.
Head200(w) ==
    /\ hand[w].pc = "parse"
    /\ LET k == hand[w].conn
       IN /\ Whole(k) # {}
          /\ LET i == CHOOSE n \in Whole(k) : \A m \in Whole(k) : n <= m
                 r == inbuf[k][i]
             IN /\ inbuf' = [inbuf EXCEPT ![k] = SubSeq(@, i + 1, Len(@))]
                /\ IF net[k].broken
                   THEN close_conn(w, k)
                   ELSE /\ net' = [net EXCEPT ![k].down =
                                      Append(@, [kind |-> "head", path |-> r.path])]
                        /\ hand' = [hand EXCEPT ![w].pc = "body", ![w].path = r.path,
                                                ![w].wants_close = @ \/ r.close]
    /\ UNCHANGED <<faults, g_keep_alive, armed, tasks>>

\* The rest of send_all(); the connection is closed if the client or this
\* server does not keep it.
Body(w) ==
    /\ hand[w].pc = "body"
    /\ LET k == hand[w].conn
           keep == g_keep_alive /\ ~hand[w].wants_close
           sent == [net EXCEPT ![k].down = Append(@, [kind |-> "body",
                                                      path |-> hand[w].path])]
       IN \/ net[k].broken /\ close_conn(w, k)
          \/ /\ ~net[k].broken /\ keep
             /\ net' = sent
             /\ hand' = [hand EXCEPT ![w].pc = "parse"]
          \/ /\ ~net[k].broken /\ ~keep
             /\ net' = [sent EXCEPT ![k].server = "closed"]
             /\ hand' = [hand EXCEPT ![w] = Free]
    /\ UNCHANGED <<faults, g_keep_alive, inbuf, armed, tasks>>

\* Mutant: the connection is armed again only if nothing is left in its buffer.
RearmIfEmpty(w) ==
    /\ hand[w].pc = "parse"
    /\ LET k == hand[w].conn
       IN /\ Whole(k) = {}
          /\ IF hand[w].peer_closed
             THEN close_conn(w, k) /\ UNCHANGED armed
             ELSE /\ armed' = IF inbuf[k] = <<>> THEN armed \cup {k} ELSE armed
                  /\ hand' = [hand EXCEPT ![w] = Free]
                  /\ UNCHANGED net
    /\ UNCHANGED <<faults, g_keep_alive, inbuf, tasks>>

\* No whole request is left: close after end of file, otherwise arm again.
Rearm(w) ==
    /\ hand[w].pc = "parse"
    /\ LET k == hand[w].conn
       IN /\ Whole(k) = {}
          /\ IF hand[w].peer_closed
             THEN close_conn(w, k) /\ UNCHANGED armed
             ELSE /\ armed' = armed \cup {k}
                  /\ hand' = [hand EXCEPT ![w] = Free]
                  /\ UNCHANGED net
    /\ UNCHANGED <<faults, g_keep_alive, inbuf, tasks>>

handle(w) == Recv(w) \/ Head200(w) \/ Body(w) \/ Rearm(w)
=============================================================================
