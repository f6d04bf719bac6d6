---------------------------- MODULE CachingServer ----------------------------
(***************************************************************************)
(* server_phase4.cpp: an epoll loop that hands each readable connection to *)
(* a pool of workers and serves it once, through an LRU cache guarded by a *)
(* reader-writer lock.  EarlyPool models the shutdown of its pool; here    *)
(* the queue only hands tasks over.                                        *)
(*                                                                         *)
(* A request arrives in two pieces, and its request line is whole only in  *)
(* both.  The body made for a path is represented by the path.  A client   *)
(* that hangs up and then resets its connection makes send() raise SIGPIPE *)
(* (after a reset alone send() fails with ECONNRESET): nothing here        *)
(* ignores that signal, so the process dies.                               *)
(***************************************************************************)
EXTENDS Naturals, FiniteSets, SequencesExt

CONSTANTS
    Clients, Workers,
    Fds,       \* descriptors the process may have for clients
    Paths,
    Asks,      \* what the clients may ask for: functions from Clients to Paths
    Splits,    \* the clients whose request may come in two pieces
    Root,      \* the path of a request line that is cut
    Capacity,  \* of the cache
    MaxFaults, \* bound: clients that leave early
    Listen, None

ASSUME ServerAssumption ==
    /\ Root \in Paths
    /\ Asks \subseteq [Clients -> Paths]
    /\ Capacity \in Nat \ {0}
    /\ IsFiniteSet(Clients) /\ IsFiniteSet(Workers)
    /\ Listen \notin Fds
    /\ None \notin Clients \cup Fds \cup [path : Paths, hit : BOOLEAN]

VARIABLES
    link,      \* per client: "new", "backlog", "open" or "closed"
    peer,      \* per client: "up", "fin" (hung up), "rst" or "pipe" (both)
    path,      \* per client: what it asks for
    sent,      \* per client: pieces sent
    unread,    \* per client: pieces in the socket's buffer
    served,    \* per client: the answer, or None
    backlog,   \* the listener's queue of connections
    conn,      \* per descriptor: its client, or None
    watched,   \* descriptors in the epoll set
    ready,     \* those with an edge that was not yet reported
    batch,     \* what is left of the events epoll_wait() returned
    accepting, \* main() is in its accept loop
    tasks,     \* TaskQueue::tasks
    worker,    \* per worker: where it is in handle_request() and its locals
    items,     \* LRUCache::items, most recent first; the index is its keys
    hits, misses,
    alive      \* the process runs

net == <<path, sent, peer, unread>>
conns == <<link, served, backlog, conn, watched, ready>>
loop == <<batch, accepting>>
cache == <<items, hits, misses>>
vars == <<net, conns, loop, tasks, worker, cache, alive>>

Idle == [pc |-> "pop", fd |-> None, path |-> None, hit |-> FALSE]

Init ==
    /\ link = [c \in Clients |-> "new"]
    /\ peer = [c \in Clients |-> "up"]
    /\ path \in Asks
    /\ sent = [c \in Clients |-> 0]
    /\ unread = [c \in Clients |-> 0]
    /\ served = [c \in Clients |-> None]
    /\ backlog = <<>>
    /\ conn = [f \in Fds |-> None]
    /\ watched = {} /\ ready = {} /\ batch = {}
    /\ accepting = FALSE
    /\ tasks = <<>>
    /\ worker = [w \in Workers |-> Idle]
    /\ items = <<>> /\ hits = 0 /\ misses = 0
    /\ alive = TRUE

------------------------------------------------------------------------------
(* Clients                                                                 *)

Connect(c) ==
    /\ link[c] = "new"
    /\ link' = [link EXCEPT ![c] = "backlog"]
    /\ backlog' = Append(backlog, c)
    /\ UNCHANGED <<net, served, conn, watched, ready, loop, tasks, worker, cache, alive>>

\* Bytes, a FIN and a reset each raise an edge on a watched connection.
Edge(c) == ready' = ready \cup {f \in watched : conn[f] = c}

Send(c) ==
    /\ link[c] \in {"backlog", "open"}
    /\ peer[c] = "up"
    /\ \E n \in (IF c \in Splits THEN 1..(2 - sent[c]) ELSE {2 - sent[c]} \ {0}) :
        /\ sent' = [sent EXCEPT ![c] = @ + n]
        /\ unread' = [unread EXCEPT ![c] = @ + n]
    /\ Edge(c)
    /\ UNCHANGED <<path, peer, link, served, backlog, conn, watched, loop,
                   tasks, worker, cache, alive>>

Leave(c) ==
    /\ link[c] = "open"
    /\ peer[c] = "up"
    /\ Cardinality({d \in Clients : peer[d] # "up"}) < MaxFaults
    /\ \E how \in {"fin", "rst", "pipe"} : peer' = [peer EXCEPT ![c] = how]
    /\ Edge(c)
    /\ UNCHANGED <<path, sent, unread, link, served, backlog, conn, watched,
                   loop, tasks, worker, cache, alive>>

------------------------------------------------------------------------------
(* main(): one batch of events, in any order                               *)

Wait ==
    /\ batch = {} /\ ~accepting
    /\ batch' = ready \cup (IF backlog = <<>> THEN {} ELSE {Listen})
    /\ batch' # {}
    /\ ready' = {}
    /\ UNCHANGED <<net, link, served, backlog, conn, watched, accepting, tasks,
                   worker, cache, alive>>

\* The listener's event: accept until EAGAIN.
Listener ==
    /\ ~accepting
    /\ Listen \in batch
    /\ batch' = batch \ {Listen}
    /\ accepting' = TRUE
    /\ UNCHANGED <<net, conns, tasks, worker, cache, alive>>

\* accept() reserves a descriptor before it looks at the queue.
FdFree == \E f \in Fds : conn[f] = None

\* On an error other than EAGAIN the loop goes round again: without a free
\* descriptor (EMFILE), whether or not anyone waits, main() spins here until a
\* worker closes one.
Accept ==
    /\ accepting
    /\ backlog # <<>>
    /\ FdFree
    /\ LET f == CHOOSE g \in Fds : conn[g] = None
           c == Head(backlog)
       IN /\ conn' = [conn EXCEPT ![f] = c]
          /\ link' = [link EXCEPT ![c] = "open"]
          /\ watched' = watched \cup {f}
          /\ ready' = IF unread[c] > 0 THEN ready \cup {f} ELSE ready
    /\ backlog' = Tail(backlog)
    /\ UNCHANGED <<net, served, loop, tasks, worker, cache, alive>>

\* EAGAIN.
AcceptDone ==
    /\ accepting
    /\ backlog = <<>>
    /\ FdFree
    /\ accepting' = FALSE
    /\ UNCHANGED <<net, conns, batch, tasks, worker, cache, alive>>

\* Mutant: the descriptor stays in the epoll set, as in server_phase3.cpp.
DispatchWatched(f) ==
    /\ ~accepting
    /\ f \in batch
    /\ batch' = batch \ {f}
    /\ tasks' = Append(tasks, f)
    /\ UNCHANGED <<net, conns, accepting, worker, cache, alive>>

\* EPOLL_CTL_DEL, then push.
Dispatch(f) ==
    /\ ~accepting
    /\ f \in batch
    /\ batch' = batch \ {f}
    /\ watched' = watched \ {f}
    /\ ready' = ready \ {f}
    /\ tasks' = Append(tasks, f)
    /\ UNCHANGED <<net, link, served, backlog, conn, accepting, worker, cache, alive>>

------------------------------------------------------------------------------
(* A worker: pop(), then handle_request()                                  *)

\* close(f): the connection of f, if it has one, is gone.
Close(f) ==
    /\ conn' = [conn EXCEPT ![f] = None]
    /\ link' = [c \in Clients |-> IF conn[f] = c THEN "closed" ELSE link[c]]
    /\ watched' = watched \ {f}
    /\ ready' = ready \ {f}

\* The path is read from what one recv() returned.
extract_path(c) == IF unread[c] = 2 THEN path[c] ELSE Root

\* Nothing to read (end of file, an error, EAGAIN): the descriptor is closed.
RecvNothing(w) ==
    /\ worker[w] = Idle
    /\ tasks # <<>>
    /\ LET c == conn[Head(tasks)]
       IN c = None \/ unread[c] = 0
    /\ Close(Head(tasks))
    /\ tasks' = Tail(tasks)
    /\ UNCHANGED <<net, served, backlog, loop, worker, cache, alive>>

\* Bytes that came before a reset can still be read.  The recv() and the lookup
\* of LRUCache::get under the read lock share no state and are one step.
RecvAndGet(w) ==
    /\ worker[w] = Idle
    /\ tasks # <<>>
    /\ LET f == Head(tasks)
           c == conn[f]
           p == extract_path(c)
           found == p \in Range(items)
       IN /\ c # None
          /\ unread[c] > 0
          /\ unread' = [unread EXCEPT ![c] = 0]
          /\ misses' = IF found THEN misses ELSE misses + 1
          /\ worker' = [worker EXCEPT ![w] =
                 [pc |-> IF found THEN "splice" ELSE "fetch",
                  fd |-> f, path |-> p, hit |-> FALSE]]
    /\ tasks' = Tail(tasks)
    /\ UNCHANGED <<path, sent, peer, conns, loop, items, hits, alive>>

\* splice() of p's node to the front.
ToFront(p) ==
    LET i == CHOOSE i \in 1..Len(items) : items[i] = p
    IN  [j \in 1..Len(items) |->
            IF j = 1 THEN p ELSE IF j <= i THEN items[j - 1] ELSE items[j]]

\* Mutant: an entry evicted between the two locks is not counted.
SpliceUncounted(w) ==
    /\ worker[w].pc = "splice"
    /\ LET p == worker[w].path
       IN IF p \in Range(items)
          THEN /\ hits' = hits + 1
               /\ items' = ToFront(p)
               /\ worker' = [worker EXCEPT ![w].pc = "send", ![w].hit = TRUE]
          ELSE /\ worker' = [worker EXCEPT ![w].pc = "fetch"]
               /\ UNCHANGED <<hits, items>>
    /\ UNCHANGED <<net, conns, loop, tasks, misses, alive>>

\* The second half of get, under the write lock: the entry may be gone.
Splice(w) ==
    /\ worker[w].pc = "splice"
    /\ LET p == worker[w].path
       IN IF p \in Range(items)
          THEN /\ hits' = hits + 1
               /\ items' = ToFront(p)
               /\ worker' = [worker EXCEPT ![w].pc = "send", ![w].hit = TRUE]
               /\ UNCHANGED misses
          ELSE /\ misses' = misses + 1
               /\ worker' = [worker EXCEPT ![w].pc = "fetch"]
               /\ UNCHANGED <<hits, items>>
    /\ UNCHANGED <<net, conns, loop, tasks, alive>>

\* LRUCache::put: the items it leaves.
put(p) ==
    LET kept == IF Len(items) >= Capacity THEN Len(items) - 1 ELSE Len(items)
    IN  IF p \in Range(items) THEN ToFront(p)
        ELSE [j \in 1..(kept + 1) |-> IF j = 1 THEN p ELSE items[j - 1]]

\* fetch_from_upstream() sleeps; meanwhile others may store the same path.
FetchAndPut(w) ==
    /\ worker[w].pc = "fetch"
    /\ items' = put(worker[w].path)
    /\ worker' = [worker EXCEPT ![w].pc = "send"]
    /\ UNCHANGED <<net, conns, loop, tasks, hits, misses, alive>>

\* Mutant: the connection is kept open, as in server_phase3.cpp.
AnswerKeepsOpen(w) ==
    /\ worker[w].pc = "send"
    /\ served' = [served EXCEPT ![conn[worker[w].fd]] =
                    [path |-> worker[w].path, hit |-> worker[w].hit]]
    /\ worker' = [worker EXCEPT ![w] = Idle]
    /\ UNCHANGED <<net, link, backlog, conn, watched, ready, loop, tasks, cache, alive>>

\* send(), whose result is ignored, and close().
Answer(w) ==
    /\ worker[w].pc = "send"
    /\ LET f == worker[w].fd
           c == conn[f]
       IN IF c # None /\ peer[c] = "pipe"
          THEN alive' = FALSE /\ UNCHANGED <<conns, worker>>
          ELSE /\ served' = [d \in Clients |->
                     IF d = c THEN [path |-> worker[w].path, hit |-> worker[w].hit]
                              ELSE served[d]]
               /\ Close(f)
               /\ worker' = [worker EXCEPT ![w] = Idle]
               /\ UNCHANGED <<backlog, alive>>
    /\ UNCHANGED <<net, loop, tasks, cache>>

------------------------------------------------------------------------------

Main == Wait \/ Listener \/ Accept \/ AcceptDone \/ \E f \in Fds : Dispatch(f)

Work(w) ==
    \/ RecvNothing(w) \/ RecvAndGet(w)
    \/ Splice(w) \/ FetchAndPut(w) \/ Answer(w)

Next ==
    /\ alive
    /\ \/ \E c \in Clients : Connect(c) \/ Send(c) \/ Leave(c)
       \/ Main
       \/ \E w \in Workers : Work(w)

Spec ==
    /\ Init /\ [][Next]_vars
    /\ WF_vars(alive /\ Main)
    /\ \A w \in Workers : WF_vars(alive /\ Work(w))

------------------------------------------------------------------------------
(* Properties                                                              *)

\* No stray close: handle_request() closes only the connection it was pushed
\* for, so a client that did not leave gets an answer before its connection is
\* closed: for its own path, or, only if its request line came in pieces, for
\* "/".  Because main() takes a descriptor out of the epoll set before it pushes
\* it, no second task is left to read the descriptor's next owner.
ClosedAnswered ==
    \A c \in Clients :
        link[c] = "closed" /\ peer[c] = "up" =>
            /\ served[c] # None
            /\ \/ served[c].path = path[c]
               \/ served[c].path = Root /\ c \in Splits

Serving(h) ==
    Cardinality({c \in Clients : served[c] # None /\ served[c].hit = h})

\* The cache's accounts: every lookup is a hit or a miss exactly once, also when
\* the entry goes between the two locks of get(); and put() after a fetch that
\* several workers made for one path leaves one entry, within the capacity.
CacheAccounts ==
    /\ hits = Serving(TRUE)
                + Cardinality({w \in Workers : worker[w].pc = "send" /\ worker[w].hit})
    /\ misses = Serving(FALSE)
                  + Cardinality({w \in Workers : ~worker[w].hit /\
                                                 worker[w].pc \in {"fetch", "send"}})
    /\ IsInjective(items) /\ Len(items) <= Capacity

\* main() spins in its accept loop at the descriptor limit, and only main() could
\* dispatch what would free one: all of them are in the epoll set.
Wedged == accepting /\ watched = Fds

\* A connection with bytes to read is served and closed.  Two things the code
\* does not prevent are excepted, and no other: a main() that is wedged at the
\* descriptor limit, and a process that SIGPIPE has ended.
RequestAnswered ==
    \A c \in Clients :
        (link[c] = "open" /\ unread[c] > 0) ~> (link[c] = "closed" \/ Wedged \/ ~alive)
==============================================================================
