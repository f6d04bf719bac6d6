------------------------------ MODULE EventLoop ------------------------------
(***************************************************************************)
(* The life of client connections in server_phase5.cpp: main() accepts     *)
(* them and turns epoll events into tasks, workers run handle_ready, and   *)
(* close_conn ends them.                                                   *)
(*                                                                         *)
(* A client sends a stream of pieces, whatever one recv may return:        *)
(*   "data"  bytes that end no header block                                *)
(*   "get"   bytes that end the header block of a request without a body   *)
(*   "post"  the same, with a body of one further piece                    *)
(*   "last"  as "get", with Connection: close                              *)
(*   "bad"   bytes that end a header block parse_request refuses           *)
(*   "bareget", "barepost"  as "get" and "post" of a client whose lines    *)
(*           end in a bare LF; the others end in CRLF                      *)
(* What serve_one_request does between parsing and answering is a step     *)
(* with any outcome it can have; the task queue is the FIFO that TaskQueue *)
(* is shown to implement.  The kernel (sockets, descriptors, epoll) is     *)
(* external: a descriptor is registered with a Conn and, with ONESHOT, a   *)
(* delivered event disarms it until the next MOD.  ADD and MOD look at the *)
(* socket, and new input is reported while armed, so a registered          *)
(* descriptor is ready exactly when it is armed and has input or an end.   *)
(* Counters that are only ever incremented for the statistics line         *)
(* (total_connections, bad_requests, requests_served) are left out.        *)
(***************************************************************************)
EXTENDS Integers, Sequences, FiniteSets

CONSTANTS
    Clients,    \* each connects once; its Conn is named after it
    Workers,
    Fds,        \* descriptors accept can return: a set of numbers
    Scripts,    \* what clients may send: per client a sequence of pieces, or
                \* None for a client that never comes
    MaxHeader,  \* max_header_bytes, in pieces
    MaxBody,    \* max_body_bytes, in pieces
    MaxFaults,  \* bound: system calls that fail, peers that stall
    None

ASSUME NoneAssumption ==
    None \notin Clients /\ None \notin Fds /\ "listener" \notin Clients
ASSUME FdAssumption == Fds \subseteq Nat
ASSUME LimitAssumption == MaxHeader \in Nat /\ MaxBody \in Nat /\ MaxFaults \in Nat

Crlf == {"get", "post", "last", "bad"}
Bare == {"bareget", "barepost"}
Piece == {"data"} \cup Crlf \cup Bare
WithBody == {"post", "barepost"}
Reply == Crlf \cup Bare \cup {"400", "413", "431", "502"}

ASSUME PlaceAssumption ==
    {"main", "epoll", "batch", "queue"} \cap Workers = {} /\ None \notin Workers

ASSUME ScriptAssumption == Scripts \subseteq [Clients -> Seq(Piece) \cup {None}]

VARIABLES
    \* clients and kernel
    script,    \* per client: all it will ever send
    unsent,    \* per client: what it has not sent yet
    rx,        \* per client: received by the kernel, not read
    fin,       \* the clients that closed their side
    rst,       \* the clients that reset the connection
    sock,      \* per descriptor: the client whose socket it is, or None
    regc,      \* per descriptor: data.ptr of its epoll registration, or None
    armed,     \* descriptors whose registration is armed
    \* Conn objects
    conn,      \* per client: "none", "queued" (not accepted), "live", "gone"
    fd, inbuf, \* fields of the client's Conn
    \* main()
    mainpc, batch, adding, tasks,
    \* workers
    wpc, wconn, peer_closed, served_any,
    \* g_stats
    active, peak,
    \* bookkeeping
    replies,   \* history, per client: responses sent
    faults     \* failures so far

kernel == <<script, unsent, rx, fin, rst, sock, regc, armed>>
objects == <<conn, fd, inbuf>>
loop == <<mainpc, batch, adding, tasks>>
pool == <<wpc, wconn, peer_closed, served_any>>
stats == <<active, peak>>
vars == <<script, unsent, rx, fin, rst, sock, regc, armed, conn, fd, inbuf,
          mainpc, batch, adding, tasks, wpc, wconn, peer_closed, served_any,
          active, peak, replies, faults>>

Listener == "listener"

------------------------------------------------------------------------------
(* Parsing a buffer of pieces.                                             *)

\* Where header blocks end in q, in CRLF CRLF only or in either way.
CrlfEnds(q) == {i \in 1..Len(q) : q[i] \in Crlf}
Ends(q) == {i \in 1..Len(q) : q[i] # "data"}

Least(S) == CHOOSE i \in S : \A j \in S : i <= j

\* find_header_end found one.
HasHeader(q) == Ends(q) # {}

\* find_header_end looks for CRLF CRLF in all of the buffer, and only then for
\* LF LF: a block that ends in LF LF is taken to go on to a later CRLF CRLF.
HeaderEnd(q) == Least(IF CrlfEnds(q) # {} THEN CrlfEnds(q) ELSE Ends(q))

\* What parse_request reads: it stops at the first empty line.
Request(q) == q[Least(Ends(q))]

\* Mutant: the body is not counted.
NeedHeaderOnly(q) == HeaderEnd(q)

\* expected_request_bytes: header block and body.
Need(q) == HeaderEnd(q) + (IF Request(q) \in WithBody THEN 1 ELSE 0)

\* A whole, well-formed request is at the front of q.
HasRequest(q) ==
    HasHeader(q) /\ Request(q) # "bad" /\ Len(q) >= Need(q)

Drop(q, n) == SubSeq(q, n + 1, Len(q))

------------------------------------------------------------------------------

Init ==
    /\ script \in Scripts
    /\ unsent = [c \in Clients |-> IF script[c] = None THEN <<>> ELSE script[c]]
    /\ rx = [c \in Clients |-> <<>>]
    /\ fin = {}
    /\ rst = {}
    /\ sock = [f \in Fds |-> None]
    /\ regc = [f \in Fds |-> None]
    /\ armed = {}
    /\ conn = [c \in Clients |-> "none"]
    /\ fd = [c \in Clients |-> None]
    /\ inbuf = [c \in Clients |-> <<>>]
    /\ mainpc = "wait"
    /\ batch = {}
    /\ adding = None
    /\ tasks = <<>>
    /\ wpc = [w \in Workers |-> "idle"]
    /\ wconn = [w \in Workers |-> None]
    /\ peer_closed = [w \in Workers |-> FALSE]
    /\ served_any = [w \in Workers |-> FALSE]
    /\ active = 0
    /\ peak = 0
    /\ replies = [c \in Clients |-> <<>>]
    /\ faults = 0

------------------------------------------------------------------------------
(* Clients.                                                                *)

Connect(c) ==
    /\ script[c] # None
    /\ conn[c] = "none"
    /\ conn' = [conn EXCEPT ![c] = "queued"]
    /\ UNCHANGED <<kernel, fd, inbuf, loop, pool, stats, replies, faults>>

\* A client that can still send: connected, and not closed by either side.
Open(c) == conn[c] \in {"queued", "live"} /\ c \notin fin \cup rst

Send(c) ==
    /\ Open(c)
    /\ unsent[c] # <<>>
    /\ rx' = [rx EXCEPT ![c] = Append(@, Head(unsent[c]))]
    /\ unsent' = [unsent EXCEPT ![c] = Tail(@)]
    /\ UNCHANGED <<script, fin, rst, sock, regc, armed, objects, loop, pool,
                   stats, replies, faults>>

\* The client closes its side, or resets; what it sent can still be read.
HangUp(c) ==
    /\ Open(c)
    /\ \/ fin' = fin \cup {c} /\ UNCHANGED rst
       \/ rst' = rst \cup {c} /\ UNCHANGED fin
    /\ UNCHANGED <<script, unsent, rx, sock, regc, armed, objects, loop, pool,
                   stats, replies, faults>>

Client(c) == Connect(c) \/ Send(c) \/ HangUp(c)

------------------------------------------------------------------------------
(* main(): the event loop.                                                 *)

\* Descriptors epoll_wait reports.
Ready == {f \in armed : rx[sock[f]] # <<>> \/ sock[f] \in fin \cup rst}

Backlog == {c \in Clients : conn[c] = "queued"}

\* Mutant: the events are delivered without disarming (no EPOLLONESHOT).
DisarmNone(fs) == armed

\* EPOLLONESHOT: a delivered event disarms its descriptor.
Disarm(fs) == armed \ fs

\* epoll_wait returns everything that is ready (nothing, after its timeout).
EpollWait ==
    /\ mainpc = "wait"
    /\ batch' = {regc[f] : f \in Ready} \cup (IF Backlog = {} THEN {} ELSE {Listener})
    /\ armed' = Disarm(Ready)
    /\ mainpc' = IF batch' = {} THEN "wait" ELSE "batch"
    /\ UNCHANGED <<script, unsent, rx, fin, rst, sock, regc, objects, adding,
                   tasks, pool, stats, replies, faults>>

\* epoll_wait fails: the loop is left and the queue stopped.
EpollFail ==
    /\ mainpc = "wait"
    /\ faults < MaxFaults
    /\ faults' = faults + 1
    /\ mainpc' = "stopping"
    /\ UNCHANGED <<kernel, objects, batch, adding, tasks, pool, stats, replies>>

\* main() goes on to the next event, or back to epoll_wait.
EventDone(e) ==
    /\ batch' = batch \ {e}
    /\ mainpc' = IF batch = {e} THEN "wait" ELSE "batch"

\* The event of a connection: handle_ready(c) is pushed.
Dispatch(c) ==
    /\ mainpc = "batch"
    /\ c \in batch \cap Clients
    /\ tasks' = Append(tasks, c)
    /\ EventDone(c)
    /\ UNCHANGED <<kernel, objects, adding, pool, stats, replies, faults>>

\* The event of the listener: the accept loop is entered.
AcceptBegin ==
    /\ mainpc = "batch"
    /\ Listener \in batch
    /\ mainpc' = "accept"
    /\ UNCHANGED <<kernel, objects, batch, adding, tasks, pool, stats, replies, faults>>

FreeFds == {f \in Fds : sock[f] = None}

\* accept returns the lowest free descriptor.
LowestFd == CHOOSE f \in FreeFds : \A g \in FreeFds : f <= g

\* accept has nothing more (EAGAIN), or no descriptor is free (EMFILE).
AcceptEnd ==
    /\ mainpc = "accept"
    /\ Backlog = {} \/ FreeFds = {}
    /\ EventDone(Listener)
    /\ UNCHANGED <<kernel, objects, adding, tasks, pool, stats, replies, faults>>

\* A connection is accepted and its Conn made.
Accept(c) ==
    /\ mainpc = "accept"
    /\ c \in Backlog
    /\ FreeFds # {}
    /\ sock' = [sock EXCEPT ![LowestFd] = c]
    /\ conn' = [conn EXCEPT ![c] = "live"]
    /\ fd' = [fd EXCEPT ![c] = LowestFd]
    /\ active' = active + 1
    /\ peak' = IF active' > peak THEN active' ELSE peak
    /\ adding' = c
    /\ mainpc' = "add"
    /\ UNCHANGED <<script, unsent, rx, fin, rst, regc, armed, inbuf, batch,
                   tasks, pool, replies, faults>>

\* set_nonblocking fails: the descriptor is closed again, no Conn is made.
AcceptRefused(c) ==
    /\ mainpc = "accept"
    /\ c \in Backlog
    /\ FreeFds # {}
    /\ faults < MaxFaults
    /\ faults' = faults + 1
    /\ conn' = [conn EXCEPT ![c] = "gone"]
    /\ UNCHANGED <<kernel, fd, inbuf, loop, pool, stats, replies>>

\* EPOLL_CTL_ADD of the new connection.
Add ==
    /\ mainpc = "add"
    /\ regc' = [regc EXCEPT ![fd[adding]] = adding]
    /\ armed' = armed \cup {fd[adding]}
    /\ adding' = None
    /\ mainpc' = "accept"
    /\ UNCHANGED <<script, unsent, rx, fin, rst, sock, objects, batch, tasks,
                   pool, stats, replies, faults>>

\* Mutant: the connection that could not be added is still counted.
AddFailedCounts ==
    /\ mainpc = "add"
    /\ faults < MaxFaults
    /\ faults' = faults + 1
    /\ sock' = [sock EXCEPT ![fd[adding]] = None]
    /\ conn' = [conn EXCEPT ![adding] = "gone"]
    /\ adding' = None
    /\ mainpc' = "accept"
    /\ UNCHANGED <<script, unsent, rx, fin, rst, regc, armed, fd, inbuf, batch,
                   tasks, pool, stats, replies>>

\* EPOLL_CTL_ADD fails: close, uncount, delete.
AddFailed ==
    /\ mainpc = "add"
    /\ faults < MaxFaults
    /\ faults' = faults + 1
    /\ sock' = [sock EXCEPT ![fd[adding]] = None]
    /\ active' = active - 1
    /\ conn' = [conn EXCEPT ![adding] = "gone"]
    /\ adding' = None
    /\ mainpc' = "accept"
    /\ UNCHANGED <<script, unsent, rx, fin, rst, regc, armed, fd, inbuf, batch,
                   tasks, pool, peak, replies>>

\* tasks.stop() was called and pool.join() returns: main() ends.
Join ==
    /\ mainpc = "stopping"
    /\ \A w \in Workers : wpc[w] = "exited"
    /\ mainpc' = "stopped"
    /\ UNCHANGED <<kernel, objects, batch, adding, tasks, pool, stats, replies, faults>>

Main ==
    \/ EpollWait \/ AcceptBegin \/ AcceptEnd \/ Add \/ Join
    \/ \E c \in Clients : Dispatch(c) \/ Accept(c)

MainFault == EpollFail \/ AddFailed \/ \E c \in Clients : AcceptRefused(c)

------------------------------------------------------------------------------
(* A worker: pop and handle_ready(c).                                      *)

\* The worker goes to pc, nothing else of its own changing.
Goto(w, pc) == wpc' = [wpc EXCEPT ![w] = pc]

Take(w) ==
    /\ wpc[w] = "idle"
    /\ tasks # <<>>
    /\ tasks' = Tail(tasks)
    /\ wconn' = [wconn EXCEPT ![w] = Head(tasks)]
    /\ peer_closed' = [peer_closed EXCEPT ![w] = FALSE]
    /\ served_any' = [served_any EXCEPT ![w] = FALSE]
    /\ Goto(w, "recv")
    /\ UNCHANGED <<kernel, objects, mainpc, batch, adding, stats, replies, faults>>

\* pop returns nullptr: the queue is stopped and drained.
Exit(w) ==
    /\ wpc[w] = "idle"
    /\ tasks = <<>>
    /\ mainpc = "stopping"
    /\ Goto(w, "exited")
    /\ UNCHANGED <<kernel, objects, loop, wconn, peer_closed, served_any, stats,
                   replies, faults>>

\* A response of kind r reaches client c, unless it has reset the connection.
Answer(c, r) ==
    replies' = IF c \in rst THEN replies ELSE [replies EXCEPT ![c] = Append(@, r)]

\* Draining: one recv on c->fd.  Bytes are appended, an oversized buffer is
\* answered with 413; then an error closes, an end is remembered, and with
\* nothing to read (EAGAIN) the drain is over.
Recv(w) ==
    LET c == wconn[w]
        s == sock[fd[c]]
    IN
    /\ wpc[w] = "recv"
    /\ IF rx[s] # <<>>
       THEN /\ inbuf' = [inbuf EXCEPT ![c] = Append(@, Head(rx[s]))]
            /\ rx' = [rx EXCEPT ![s] = Tail(@)]
            /\ IF Len(inbuf[c]) + 1 > MaxHeader + MaxBody
               THEN Goto(w, "del") /\ Answer(c, "413")
               ELSE UNCHANGED <<wpc, replies>>
            /\ UNCHANGED peer_closed
       ELSE /\ Goto(w, IF s \in rst THEN "del" ELSE "serve")
            /\ peer_closed' = [peer_closed EXCEPT ![w] = s \in fin \ rst]
            /\ UNCHANGED <<inbuf, rx, replies>>
    /\ UNCHANGED <<script, unsent, fin, rst, sock, regc, armed, conn, fd, loop,
                   wconn, served_any, stats, faults>>

\* The serve loop looks at the buffer: no complete header block, one that is
\* refused, a body still arriving, or a request to serve.
Parse(w) ==
    LET c == wconn[w]
        q == inbuf[c]
    IN
    /\ wpc[w] = "serve"
    /\ IF ~HasHeader(q)
       THEN IF Len(q) > MaxHeader
            THEN Goto(w, "del") /\ Answer(c, "431")
            ELSE Goto(w, "after") /\ UNCHANGED replies
       ELSE IF Request(q) = "bad"
            THEN Goto(w, "del") /\ Answer(c, "400")
            ELSE /\ Goto(w, IF Len(q) < Need(q) THEN "after" ELSE "busy")
                 /\ UNCHANGED replies
    /\ UNCHANGED <<kernel, objects, loop, wconn, peer_closed, served_any, stats,
                   faults>>

\* serve_one_request returned: the request's bytes leave the buffer.  It keeps
\* the connection if the request does and the whole response was sent.
Served(w, keep) ==
    LET c == wconn[w]
        q == inbuf[c]
    IN
    /\ inbuf' = [inbuf EXCEPT ![c] = Drop(q, Need(q))]
    /\ served_any' = [served_any EXCEPT ![w] = TRUE]
    /\ Goto(w, IF keep THEN "serve" ELSE "del")

\* It answered, with the response or a refusal (403).
ServeOK(w) ==
    LET c == wconn[w]
        r == Request(inbuf[c])
    IN
    /\ wpc[w] = "busy"
    /\ Served(w, r # "last" /\ c \notin rst)
    /\ Answer(c, r)
    /\ UNCHANGED <<kernel, conn, fd, loop, wconn, peer_closed, stats, faults>>

\* The upstream failed: 502, and the connection is closed.
Serve502(w) ==
    /\ wpc[w] = "busy"
    /\ Served(w, FALSE)
    /\ Answer(wconn[w], "502")
    /\ UNCHANGED <<kernel, conn, fd, loop, wconn, peer_closed, stats, faults>>

\* send_all gave up on a stalled peer.
ServeStalled(w) ==
    /\ wpc[w] = "busy"
    /\ faults < MaxFaults
    /\ faults' = faults + 1
    /\ Served(w, FALSE)
    /\ UNCHANGED <<kernel, conn, fd, loop, wconn, peer_closed, stats, replies>>

\* Mutant: the end of the client's stream is not acted on.
AfterIgnoresEnd(w) ==
    /\ wpc[w] = "after"
    /\ Goto(w, IF served_any[w] THEN "recv" ELSE "rearm")
    /\ served_any' = [served_any EXCEPT ![w] = FALSE]
    /\ UNCHANGED <<kernel, objects, loop, wconn, peer_closed, stats, replies, faults>>

\* After the serve loop: close for a peer that is gone, drain again if
\* something was served, otherwise re-arm.
After(w) ==
    /\ wpc[w] = "after"
    /\ Goto(w, IF peer_closed[w] THEN "del"
               ELSE IF served_any[w] THEN "recv" ELSE "rearm")
    /\ served_any' = [served_any EXCEPT ![w] = FALSE]
    /\ UNCHANGED <<kernel, objects, loop, wconn, peer_closed, stats, replies, faults>>

\* Mutant: the handler returns without EPOLL_CTL_MOD.
RearmForgotten(w) ==
    /\ wpc[w] = "rearm"
    /\ wconn' = [wconn EXCEPT ![w] = None]
    /\ Goto(w, "idle")
    /\ UNCHANGED <<kernel, objects, loop, peer_closed, served_any, stats,
                   replies, faults>>

\* EPOLL_CTL_MOD: from here on the connection is no longer this worker's.
Rearm(w) ==
    LET c == wconn[w] IN
    /\ wpc[w] = "rearm"
    /\ armed' = armed \cup {fd[c]}
    /\ regc' = [regc EXCEPT ![fd[c]] = c]
    /\ wconn' = [wconn EXCEPT ![w] = None]
    /\ Goto(w, "idle")
    /\ UNCHANGED <<script, unsent, rx, fin, rst, sock, objects, loop,
                   peer_closed, served_any, stats, replies, faults>>

\* EPOLL_CTL_MOD fails: close_conn.
RearmFailed(w) ==
    /\ wpc[w] = "rearm"
    /\ faults < MaxFaults
    /\ faults' = faults + 1
    /\ Goto(w, "del")
    /\ UNCHANGED <<kernel, objects, loop, wconn, peer_closed, served_any, stats,
                   replies>>

\* Mutant: the descriptor is closed where it should leave the epoll set.
DelCloses(w) ==
    LET f == fd[wconn[w]] IN
    /\ wpc[w] = "del"
    /\ sock' = [sock EXCEPT ![f] = None]
    /\ regc' = [regc EXCEPT ![f] = None]
    /\ armed' = armed \ {f}
    /\ Goto(w, "close")
    /\ UNCHANGED <<script, unsent, rx, fin, rst, objects, loop, wconn,
                   peer_closed, served_any, stats, replies, faults>>

\* close_conn, EPOLL_CTL_DEL.
Del(w) ==
    LET f == fd[wconn[w]] IN
    /\ wpc[w] = "del"
    /\ regc' = [regc EXCEPT ![f] = None]
    /\ armed' = armed \ {f}
    /\ Goto(w, "close")
    /\ UNCHANGED <<script, unsent, rx, fin, rst, sock, objects, loop, wconn,
                   peer_closed, served_any, stats, replies, faults>>

\* Mutant: the descriptor is not closed.
CloseFdLeaks(w) ==
    /\ wpc[w] = "close"
    /\ Goto(w, "free")
    /\ UNCHANGED <<kernel, objects, loop, wconn, peer_closed, served_any, stats,
                   replies, faults>>

\* close_conn, close(c->fd): the number is free for the next accept, and a
\* registration it still had is gone.
CloseFd(w) ==
    LET f == fd[wconn[w]] IN
    /\ wpc[w] = "close"
    /\ sock' = [sock EXCEPT ![f] = None]
    /\ regc' = [regc EXCEPT ![f] = None]
    /\ armed' = armed \ {f}
    /\ Goto(w, "free")
    /\ UNCHANGED <<script, unsent, rx, fin, rst, objects, loop, wconn,
                   peer_closed, served_any, stats, replies, faults>>

\* close_conn, the count and delete.
Free(w) ==
    /\ wpc[w] = "free"
    /\ conn' = [conn EXCEPT ![wconn[w]] = "gone"]
    /\ active' = active - 1
    /\ wconn' = [wconn EXCEPT ![w] = None]
    /\ Goto(w, "idle")
    /\ UNCHANGED <<kernel, fd, inbuf, loop, peer_closed, served_any, peak,
                   replies, faults>>

Worker(w) ==
    \/ Take(w) \/ Exit(w) \/ Recv(w) \/ Parse(w) \/ ServeOK(w) \/ Serve502(w)
    \/ After(w) \/ Rearm(w) \/ Del(w) \/ CloseFd(w) \/ Free(w)

WorkerFault(w) == ServeStalled(w) \/ RearmFailed(w)

\* main() has returned: the process is gone.
Done == mainpc = "stopped" /\ UNCHANGED vars

Next ==
    \/ Main \/ MainFault \/ Done
    \/ \E c \in Clients : Client(c)
    \/ \E w \in Workers : Worker(w) \/ WorkerFault(w)

\* Threads run; clients may stop at any point, and failures need not happen.
Fairness ==
    /\ WF_vars(Main)
    /\ \A w \in Workers : WF_vars(Worker(w))

SafetySpec == Init /\ [][Next]_vars

Spec == SafetySpec /\ Fairness

------------------------------------------------------------------------------
(* Properties.                                                             *)

\* Who may touch a Conn: the thread or structure it is with.
Places == Workers \cup {"main", "epoll", "batch", "queue"}

Holds(p, c) ==
    \/ p = "main" /\ adding = c
    \/ p = "epoll" /\ \E f \in armed : regc[f] = c
    \/ p = "batch" /\ c \in batch
    \/ p = "queue" /\ \E i \in 1..Len(tasks) : tasks[i] = c
    \/ p \in Workers /\ wconn[p] = c

\* A Conn is never with two holders at once, nor twice in the queue: the
\* ownership rule that lets its fields go without a lock.
SingleOwner ==
    /\ \A c \in Clients : \A p, q \in Places : Holds(p, c) /\ Holds(q, c) => p = q
    /\ \A i, j \in 1..Len(tasks) : tasks[i] = tasks[j] => i = j

\* A Conn that is held exists, and one that exists is held: no pointer
\* outlives delete, no connection is forgotten.
HeldIffLive ==
    \A c \in Clients : (\E p \in Places : Holds(p, c)) <=> conn[c] = "live"

\* The descriptor of a Conn is the socket of its client until close_conn has
\* closed it, and its registration carries this Conn from ADD until DEL.
OwnDescriptor ==
    \A c \in Clients : conn[c] = "live" =>
        /\ (\A w \in Workers : wconn[w] = c => wpc[w] # "free") => sock[fd[c]] = c
        /\ (adding # c /\ \A w \in Workers : wconn[w] = c => wpc[w] \notin {"close", "free"})
              => regc[fd[c]] = c

\* active_connections counts the connections that exist: the open descriptors,
\* and those close_conn has closed but not uncounted yet (while another thread
\* may already have been given the number).  peak_connections is at least that.
ActiveCounts ==
    /\ active = Cardinality({c \in Clients : conn[c] = "live"})
    /\ active = Cardinality({f \in Fds : sock[f] # None})
                + Cardinality({w \in Workers : wpc[w] = "free"})
    /\ active <= peak

\* The responses that the pieces of q from each one on call for, however they
\* are cut by recv: bytes that end no header block call for nothing, a request
\* without its body for nothing yet, and nothing follows a refused one or a last.
Calls(q) ==
    LET from[i \in 1..(Len(q) + 1)] ==
            IF i > Len(q) THEN <<>>
            ELSE IF q[i] = "data" THEN from[i + 1]
            ELSE IF q[i] = "bad" THEN <<"400">>
            ELSE IF q[i] = "last" THEN <<"last">>
            ELSE IF q[i] \notin WithBody THEN <<q[i]>> \o from[i + 1]
            ELSE IF i = Len(q) THEN <<>>
            ELSE <<q[i]>> \o from[i + 2]
    IN  from

\* The responses of c so far are those its stream calls for, in order and once
\* each; only the last may be a refusal instead.
InOrder(c) ==
    LET e == Calls(script[c])[1]
        r == replies[c]
    IN  \A i \in 1..Len(r) :
          \/ i <= Len(e) /\ r[i] = e[i]
          \/ i = Len(r) /\ r[i] \in {"413", "431", "502"}

\* No CRLF CRLF follows a block that ends in LF LF, in a body neither.
OneLineEnd(q) == \A i, j \in 1..Len(q) : i < j /\ q[i] \in Bare => q[j] \notin Crlf

\* serve loop of handle_ready: "Serve every complete request sitting in the
\* buffer".  The responses of a client that keeps to one kind of line end are
\* those its stream calls for, in order and once each, whatever arrived in one
\* drain and whatever in the next.
AnswersInOrder ==
    \A c \in Clients : script[c] # None /\ OneLineEnd(script[c]) => InOrder(c)

\* A request that has arrived is eventually taken out of the buffers (or taken
\* for a part of a longer one, see HeaderEnd) or its connection ends, unless the
\* server does.
RequestsServed ==
    \A c \in Clients :
        (conn[c] = "live" /\ HasRequest(inbuf[c] \o rx[c]))
            ~> (conn[c] # "live" \/ ~HasRequest(inbuf[c] \o rx[c]) \/ mainpc = "stopped")

\* A connection whose client has hung up is eventually closed and deleted,
\* unless the server ends first: no descriptor leaks.
HungUpClosed ==
    \A c \in Clients :
        (conn[c] = "live" /\ c \in fin \cup rst) ~> (conn[c] = "gone" \/ mainpc = "stopped")

\* With no descriptor free a connection waits in the backlog; once the other
\* clients have hung up it is accepted (the listener is level-triggered).
BacklogAccepted ==
    \A c \in Clients :
        (conn[c] = "queued" /\ \A d \in Clients \ {c} :
                                script[d] = None \/ (conn[d] # "none" /\ ~Open(d)))
            ~> (conn[c] # "queued" \/ mainpc = "stopped")
==============================================================================
