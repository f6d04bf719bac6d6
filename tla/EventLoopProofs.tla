--------------------------- MODULE EventLoopProofs ---------------------------
(***************************************************************************)
(* Proofs about EventLoop, for any clients, workers, descriptors, scripts  *)
(* and limits: a Conn has one owner at a time, it exists exactly while it  *)
(* has one, its descriptor stays its own until close_conn has closed it,   *)
(* active_connections counts the connections that exist, and the answers   *)
(* of a connection are those its stream calls for, in order.               *)
(***************************************************************************)
EXTENDS EventLoop, FiniteSetTheorems, WellFoundedInduction, TLAPS

------------------------------------------------------------------------------
(* The inductive invariant.                                                *)

MainPC == {"wait", "batch", "accept", "add", "stopping", "stopped"}
WorkerPC == {"idle", "recv", "serve", "busy", "after", "rearm", "del", "close",
             "free", "exited"}

\* The types of what ownership is made of.
OwnersType ==
    /\ sock \in [Fds -> Clients \cup {None}]
    /\ regc \in [Fds -> Clients \cup {None}]
    /\ armed \subseteq Fds
    /\ conn \in [Clients -> {"none", "queued", "live", "gone"}]
    /\ fd \in [Clients -> Fds \cup {None}]
    /\ mainpc \in MainPC
    /\ batch \subseteq Clients \cup {Listener}
    /\ adding \in Clients \cup {None}
    /\ tasks \in Seq(Clients)
    /\ wpc \in [Workers -> WorkerPC]
    /\ wconn \in [Workers -> Clients \cup {None}]

\* What the program counters say: main() has a Conn in hand while it adds it and
\* no event left when it waits; a worker has one from pop to delete.
Control ==
    /\ mainpc = "add" <=> adding # None
    /\ mainpc \in {"wait", "stopping", "stopped"} => batch = {}
    /\ \A w \in Workers : wpc[w] \in {"idle", "exited"} <=> wconn[w] = None

\* c is registered and armed; in the queue; with a worker.
Watched(c) == \E f \in armed : regc[f] = c
Queued(c) == \E i \in 1..Len(tasks) : tasks[i] = c
Worked(c) == \E w \in Workers : wconn[w] = c

\* The holders of a Conn exclude each other.
Exclusive ==
    \A c \in Clients :
        /\ adding = c => c \notin batch /\ ~Watched(c) /\ ~Queued(c) /\ ~Worked(c)
        /\ c \in batch => ~Watched(c) /\ ~Queued(c) /\ ~Worked(c)
        /\ Watched(c) => ~Queued(c) /\ ~Worked(c)
        /\ Queued(c) => ~Worked(c)

\* It is in the queue once and with one worker.
Once ==
    /\ \A i, j \in 1..Len(tasks) : tasks[i] = tasks[j] => i = j
    /\ \A v, w \in Workers : wconn[v] = wconn[w] /\ wconn[v] # None => v = w

\* A Conn lives as long as somebody holds it.
Held ==
    \A c \in Clients :
        conn[c] = "live" <=>
            adding = c \/ c \in batch \/ Watched(c) \/ Queued(c) \/ Worked(c)

\* close_conn has deregistered c; has closed its descriptor.
Deregistered(c) == \E w \in Workers : wconn[w] = c /\ wpc[w] \in {"close", "free"}
Closed(c) == \E w \in Workers : wconn[w] = c /\ wpc[w] = "free"

\* Descriptors, seen from the kernel and from the Conn: an open descriptor is
\* the one of its Conn, a registration that of the socket it is for.
Descriptors ==
    /\ \A f \in Fds, c \in Clients : sock[f] = c =>
          conn[c] = "live" /\ fd[c] = f /\ ~Closed(c)
    /\ \A f \in Fds, c \in Clients : regc[f] = c =>
          sock[f] = c /\ adding # c /\ ~Deregistered(c)
    /\ \A f \in armed : regc[f] # None
    /\ \A c \in Clients : conn[c] = "live" =>
          /\ fd[c] \in Fds
          /\ ~Closed(c) => sock[fd[c]] = c
          /\ adding # c /\ ~Deregistered(c) => regc[fd[c]] = c

Live == {c \in Clients : conn[c] = "live"}
OpenFds == {f \in Fds : sock[f] # None}
Freeing == {w \in Workers : wpc[w] = "free"}

\* The counter, the connections and the descriptors.
Counts ==
    /\ IsFiniteSet(Live) /\ IsFiniteSet(OpenFds) /\ IsFiniteSet(Freeing)
    /\ active = Cardinality(Live)
    /\ active = Cardinality(OpenFds) + Cardinality(Freeing)
    /\ peak \in Nat
    /\ active <= peak

IndInv ==
    OwnersType /\ Control /\ Exclusive /\ Once /\ Held /\ Descriptors /\ Counts

------------------------------------------------------------------------------
(* Lemmas about the operators.                                             *)

\* A nonempty set of naturals has a least element.
LEMMA LeastNatural ==
    ASSUME NEW T, T \subseteq Nat, T # {}
    PROVE  \E x \in T : \A y \in T : x <= y
<1>1. IsWellFoundedOn({ss \in Nat \X Nat : ss[1] < ss[2]}, Nat)
  BY NatLessThanWellFounded, Zenon DEF OpToRel
<1>2. PICK x \in T : \A y \in T : ~ (<<y, x>> \in {ss \in Nat \X Nat : ss[1] < ss[2]})
  BY <1>1, WFMin, Zenon
<1>3. ASSUME NEW y \in T PROVE x <= y
  <2>1. x \in Nat /\ y \in Nat
    OBVIOUS
  <2>2. ~ (y < x)
    BY <1>2, <2>1
  <2> QED
    BY <2>1, <2>2
<1> QED
  BY <1>3

\* accept returns a descriptor that is free.
LEMMA LowestIsFree == FreeFds # {} => LowestFd \in FreeFds
<1>1. FreeFds \subseteq Nat
  BY FdAssumption DEF FreeFds
<1>2. FreeFds # {} => \E f \in FreeFds : \A g \in FreeFds : f <= g
  BY <1>1, LeastNatural
<1> QED
  BY <1>2, Zenon DEF LowestFd

\* A registration belongs to one descriptor.
LEMMA OneRegistration ==
    ASSUME IndInv, NEW f \in Fds, NEW g \in Fds, regc[f] = regc[g], regc[f] # None
    PROVE  f = g
  BY DEF IndInv, Descriptors, OwnersType

\* A step that changes no owner keeps the invariant: Conns come and go only
\* where nobody holds them, the workers stay where they are or move about
\* between recv and EPOLL_CTL_DEL, and main() between its events.
LEMMA QuietInv ==
    ASSUME IndInv,
           UNCHANGED <<sock, regc, armed, fd, adding, tasks, wconn, active, peak>>,
           conn' \in [Clients -> {"none", "queued", "live", "gone"}],
           \A c \in Clients : conn'[c] = "live" <=> conn[c] = "live",
           batch' \subseteq Clients \cup {Listener},
           \A c \in Clients : c \in batch' <=> c \in batch,
           mainpc' \in MainPC,
           mainpc' = "add" <=> mainpc = "add",
           mainpc' \in {"wait", "stopping", "stopped"} => batch' = {},
           wpc' \in [Workers -> WorkerPC],
           \A w \in Workers :
               /\ wpc'[w] \in {"idle", "exited"} <=> wpc[w] \in {"idle", "exited"}
               /\ wpc'[w] = "close" <=> wpc[w] = "close"
               /\ wpc'[w] = "free" <=> wpc[w] = "free"
    PROVE  IndInv'
<1> USE DEF IndInv
<1>1. OwnersType'
  BY DEF OwnersType
<1>2. Control'
  BY DEF Control
<1>3. \A c \in Clients : /\ Watched(c)' <=> Watched(c)
                         /\ Queued(c)' <=> Queued(c)
                         /\ Worked(c)' <=> Worked(c)
                         /\ Deregistered(c)' <=> Deregistered(c)
                         /\ Closed(c)' <=> Closed(c)
  BY DEF Watched, Queued, Worked, Deregistered, Closed
<1>4. Exclusive'
  BY <1>3 DEF Exclusive
<1>5. Once'
  BY DEF Once
<1>6. Held'
  BY <1>3 DEF Held
<1>7. Descriptors'
  BY <1>3 DEF Descriptors, OwnersType
<1>8. Live' = Live /\ OpenFds' = OpenFds /\ Freeing' = Freeing
  BY DEF Live, OpenFds, Freeing
<1>9. Counts'
  BY <1>8 DEF Counts
<1> QED
  BY <1>1, <1>2, <1>4, <1>5, <1>6, <1>7, <1>9

------------------------------------------------------------------------------
(* Initial states.                                                         *)

\* Nobody holds anything before the first client comes.
LEMMA InitInv == Init => IndInv
<1> SUFFICES ASSUME Init PROVE IndInv
  OBVIOUS
<1> USE DEF Init
<1>1. OwnersType
  BY DEF OwnersType, MainPC, WorkerPC
<1>2. Control
  BY DEF Control
<1>3. \A c \in Clients : ~Watched(c) /\ ~Queued(c) /\ ~Worked(c)
  BY NoneAssumption DEF Watched, Queued, Worked
<1>4. Exclusive /\ Held
  BY <1>3, NoneAssumption DEF Exclusive, Held
<1>5. Once
  BY DEF Once
<1>6. Descriptors
  BY NoneAssumption DEF Descriptors
<1>7. Live = {} /\ OpenFds = {} /\ Freeing = {}
  BY DEF Live, OpenFds, Freeing
<1>8. Counts
  BY <1>7, FS_EmptySet DEF Counts
<1> QED
  BY <1>1, <1>2, <1>4, <1>5, <1>6, <1>8 DEF IndInv

------------------------------------------------------------------------------
(* Steps of clients and of main().                                         *)

\* What clients do changes no owner.
LEMMA ClientInv == ASSUME IndInv, NEW c \in Clients, Client(c) PROVE IndInv'
<1> USE DEF kernel, objects, loop, pool, stats
<1>1. /\ UNCHANGED <<sock, regc, armed, fd, loop, wpc, wconn, active, peak>>
      /\ conn' \in [Clients -> {"none", "queued", "live", "gone"}]
      /\ \A d \in Clients : conn'[d] = "live" <=> conn[d] = "live"
  BY DEF Client, Connect, Send, HangUp, IndInv, OwnersType
<1> QED
  BY <1>1, QuietInv DEF IndInv, OwnersType, Control

\* epoll_wait moves the Conns of ready descriptors from the epoll set to the
\* batch: ONESHOT disarms exactly those.
LEMMA EpollWaitInv == ASSUME IndInv, EpollWait PROVE IndInv'
<1> USE DEF IndInv
<1>0. /\ mainpc = "wait" /\ batch = {} /\ adding = None
      /\ UNCHANGED <<sock, regc, conn, fd, adding, tasks, wpc, wconn, active, peak>>
      /\ armed' = armed \ Ready
      /\ Ready \subseteq armed
      /\ mainpc' = IF batch' = {} THEN "wait" ELSE "batch"
  BY DEF EpollWait, Control, objects, pool, stats, Disarm, Ready
<1>1. \A f \in armed : f \in Fds /\ regc[f] \in Clients
  BY DEF OwnersType, Descriptors
<1>2. \A c \in Clients : c \in batch' <=> \E f \in Ready : regc[f] = c
  BY NoneAssumption DEF EpollWait, Listener
<1>3. batch' \subseteq Clients \cup {Listener}
  BY <1>0, <1>1 DEF EpollWait
<1>4. OwnersType'
  BY <1>0, <1>3 DEF OwnersType, MainPC
<1>5. Control'
  BY <1>0 DEF Control
<1>6. \A c \in Clients : /\ Queued(c)' <=> Queued(c)
                         /\ Worked(c)' <=> Worked(c)
                         /\ Deregistered(c)' <=> Deregistered(c)
                         /\ Closed(c)' <=> Closed(c)
  BY <1>0 DEF Queued, Worked, Deregistered, Closed
<1>7. \A c \in Clients : Watched(c) <=> Watched(c)' \/ c \in batch'
  BY <1>0, <1>2 DEF Watched
<1>8. \A c \in Clients : ~(Watched(c)' /\ c \in batch')
  <2> SUFFICES ASSUME NEW c \in Clients, NEW f \in armed \ Ready, NEW g \in Ready,
                      regc[f] = c, regc[g] = c
               PROVE  FALSE
    BY <1>0, <1>2 DEF Watched
  <2> QED
    BY <1>0, <1>1, OneRegistration, NoneAssumption
<1>9. Exclusive'
  BY <1>0, <1>6, <1>7, <1>8, NoneAssumption DEF Exclusive
<1>10. Once'
  BY <1>0 DEF Once
<1>11. Held'
  BY <1>0, <1>6, <1>7 DEF Held
<1>12. Descriptors'
  BY <1>0, <1>6 DEF Descriptors, OwnersType
<1>13. Live' = Live /\ OpenFds' = OpenFds /\ Freeing' = Freeing
  BY <1>0 DEF Live, OpenFds, Freeing
<1>14. Counts'
  BY <1>0, <1>13 DEF Counts
<1> QED
  BY <1>4, <1>5, <1>9, <1>10, <1>11, <1>12, <1>14

\* Dispatch moves a Conn from the batch to the queue.
LEMMA DispatchInv == ASSUME IndInv, NEW c \in Clients, Dispatch(c) PROVE IndInv'
<1> USE DEF IndInv
<1>0. /\ mainpc = "batch" /\ c \in batch
      /\ UNCHANGED <<sock, regc, armed, conn, fd, adding, wpc, wconn, active, peak>>
      /\ tasks' = Append(tasks, c)
      /\ batch' = batch \ {c}
      /\ mainpc' = IF batch = {c} THEN "wait" ELSE "batch"
  BY DEF Dispatch, EventDone, kernel, objects, pool, stats
<1>1. /\ tasks' \in Seq(Clients) /\ Len(tasks) \in Nat
      /\ Len(tasks') = Len(tasks) + 1
      /\ \A i \in 1..Len(tasks) : tasks'[i] = tasks[i]
      /\ tasks'[Len(tasks) + 1] = c
  BY <1>0 DEF OwnersType
<1>2. OwnersType'
  BY <1>0, <1>1 DEF OwnersType, MainPC
<1>3. Control'
  BY <1>0 DEF Control
<1>4. \A d \in Clients : /\ Watched(d)' <=> Watched(d)
                         /\ Worked(d)' <=> Worked(d)
                         /\ Deregistered(d)' <=> Deregistered(d)
                         /\ Closed(d)' <=> Closed(d)
  BY <1>0 DEF Watched, Worked, Deregistered, Closed
<1>5. \A d \in Clients : Queued(d)' <=> Queued(d) \/ d = c
  BY <1>1 DEF Queued
<1>6. Exclusive'
  BY <1>0, <1>4, <1>5 DEF Exclusive
<1>7. Once'
  <2>1. ~Queued(c)
    BY <1>0 DEF Exclusive
  <2> QED
    BY <1>0, <1>1, <2>1 DEF Once, Queued
<1>8. Held'
  BY <1>0, <1>4, <1>5 DEF Held
<1>9. Descriptors'
  BY <1>0, <1>4 DEF Descriptors, OwnersType
<1>10. Live' = Live /\ OpenFds' = OpenFds /\ Freeing' = Freeing
  BY <1>0 DEF Live, OpenFds, Freeing
<1>11. Counts'
  BY <1>0, <1>10 DEF Counts
<1> QED
  BY <1>2, <1>3, <1>6, <1>7, <1>8, <1>9, <1>11

\* accept gives a Conn to main(), on a descriptor nobody has.
LEMMA AcceptInv == ASSUME IndInv, NEW c \in Clients, Accept(c) PROVE IndInv'
<1> USE DEF IndInv
<1> DEFINE f == LowestFd
<1>0. /\ mainpc = "accept" /\ adding = None /\ conn[c] = "queued"
      /\ UNCHANGED <<regc, armed, batch, tasks, wpc, wconn>>
      /\ conn' = [conn EXCEPT ![c] = "live"]
      /\ sock' = [sock EXCEPT ![f] = c]
      /\ fd' = [fd EXCEPT ![c] = f]
      /\ active' = active + 1
      /\ peak' = IF active' > peak THEN active' ELSE peak
      /\ adding' = c /\ mainpc' = "add"
  BY DEF Accept, Control, Backlog, pool
<1>1. f \in Fds /\ sock[f] = None
  BY LowestIsFree DEF Accept, FreeFds
<1> HIDE DEF f
<1>2. OwnersType'
  BY <1>0, <1>1 DEF OwnersType, MainPC
<1>3. Control'
  BY <1>0, NoneAssumption DEF Control
<1>4. \A d \in Clients : /\ Watched(d)' <=> Watched(d)
                         /\ Queued(d)' <=> Queued(d)
                         /\ Worked(d)' <=> Worked(d)
                         /\ Deregistered(d)' <=> Deregistered(d)
                         /\ Closed(d)' <=> Closed(d)
  BY <1>0 DEF Watched, Queued, Worked, Deregistered, Closed
<1>5. c \notin batch /\ ~Watched(c) /\ ~Queued(c) /\ ~Worked(c)
  BY <1>0 DEF Held
<1>6. Exclusive'
  BY <1>0, <1>4, <1>5 DEF Exclusive
<1>7. Once'
  BY <1>0 DEF Once
<1>8. Held'
  BY <1>0, <1>4, NoneAssumption DEF Held, OwnersType
<1>9. Descriptors'
  <2>1. ~Closed(c) /\ ~Deregistered(c)
    BY <1>5 DEF Worked, Closed, Deregistered
  <2>2. regc[f] = None /\ \A g \in Fds : regc[g] # c /\ sock[g] # c
    BY <1>0, <1>1, NoneAssumption DEF Descriptors, OwnersType
  <2>3. \A d \in Clients : conn[d] = "live" /\ ~Closed(d) => fd[d] # f
    BY <1>0, <1>1, NoneAssumption DEF Descriptors, OwnersType
  <2>4. \A d \in Clients : conn[d] = "live" /\ adding # d /\ ~Deregistered(d) => fd[d] # f
    BY <2>2, NoneAssumption DEF Descriptors, OwnersType
  <2>5. \A g \in Fds, d \in Clients : sock'[g] = d =>
            conn'[d] = "live" /\ fd'[d] = g /\ ~Closed(d)'
    BY <1>0, <1>1, <1>4, <2>1, <2>2 DEF Descriptors, OwnersType
  <2>6. \A g \in Fds, d \in Clients : regc'[g] = d =>
            sock'[g] = d /\ adding' # d /\ ~Deregistered(d)'
    BY <1>0, <1>1, <1>4, <2>2 DEF Descriptors, OwnersType
  <2>7. \A d \in Clients : conn'[d] = "live" =>
            /\ fd'[d] \in Fds
            /\ ~Closed(d)' => sock'[fd'[d]] = d
            /\ adding' # d /\ ~Deregistered(d)' => regc'[fd'[d]] = d
    BY <1>0, <1>1, <1>4, <2>1, <2>3, <2>4, NoneAssumption DEF Descriptors, OwnersType
  <2> QED
    BY <1>0, <2>5, <2>6, <2>7 DEF Descriptors
<1>10. Counts'
  <2>1. Live' = Live \cup {c} /\ c \notin Live
    BY <1>0 DEF Live, OwnersType
  <2>2. OpenFds' = OpenFds \cup {f} /\ f \notin OpenFds
    BY <1>0, <1>1, NoneAssumption DEF OpenFds, OwnersType
  <2>3. Freeing' = Freeing
    BY <1>0 DEF Freeing
  <2>4. /\ IsFiniteSet(Live') /\ Cardinality(Live') = Cardinality(Live) + 1
        /\ IsFiniteSet(OpenFds') /\ Cardinality(OpenFds') = Cardinality(OpenFds) + 1
    BY <2>1, <2>2, FS_AddElement DEF Counts
  <2>5. /\ Cardinality(Live) \in Nat /\ Cardinality(OpenFds) \in Nat
        /\ Cardinality(Freeing) \in Nat
    BY FS_CardinalityType DEF Counts
  <2>6. /\ active = Cardinality(Live) /\ active <= peak /\ peak \in Nat
        /\ active = Cardinality(OpenFds) + Cardinality(Freeing)
        /\ IsFiniteSet(Freeing)
    BY DEF Counts
  <2> HIDE DEF IndInv
  <2> QED
    BY <1>0, <2>3, <2>4, <2>5, <2>6 DEF Counts
<1> QED
  BY <1>2, <1>3, <1>6, <1>7, <1>8, <1>9, <1>10

\* ADD hands the Conn from main() to the epoll set.
LEMMA AddInv == ASSUME IndInv, Add PROVE IndInv'
<1> USE DEF IndInv
<1> DEFINE c == adding
           f == fd[c]
<1>0. /\ mainpc = "add" /\ c \in Clients
      /\ UNCHANGED <<sock, conn, fd, batch, tasks, wpc, wconn, active, peak>>
      /\ regc' = [regc EXCEPT ![f] = c]
      /\ armed' = armed \cup {f}
      /\ adding' = None /\ mainpc' = "accept"
  BY DEF Add, Control, OwnersType, objects, pool, stats
<1>1. /\ conn[c] = "live" /\ c \notin batch
      /\ ~Watched(c) /\ ~Queued(c) /\ ~Worked(c)
  BY <1>0 DEF Held, Exclusive
<1>2. ~Closed(c) /\ ~Deregistered(c)
  BY <1>1 DEF Worked, Closed, Deregistered
<1>3. f \in Fds /\ sock[f] = c /\ regc[f] = None
  BY <1>0, <1>1, <1>2 DEF Descriptors, OwnersType
<1> HIDE DEF f
<1>4. OwnersType'
  BY <1>0, <1>3 DEF OwnersType, MainPC
<1>5. Control'
  BY <1>0 DEF Control
<1>6. \A d \in Clients : /\ Queued(d)' <=> Queued(d)
                         /\ Worked(d)' <=> Worked(d)
                         /\ Deregistered(d)' <=> Deregistered(d)
                         /\ Closed(d)' <=> Closed(d)
  BY <1>0 DEF Queued, Worked, Deregistered, Closed
<1>7. \A d \in Clients : Watched(d)' <=> Watched(d) \/ d = c
  BY <1>0, <1>3, NoneAssumption DEF Watched, OwnersType
<1>8. Exclusive'
  BY <1>0, <1>1, <1>6, <1>7, NoneAssumption DEF Exclusive
<1>9. Once'
  BY <1>0 DEF Once
<1>10. Held'
  BY <1>0, <1>1, <1>6, <1>7, NoneAssumption DEF Held
<1>11. Descriptors'
  BY <1>0, <1>2, <1>3, <1>6, NoneAssumption DEF Descriptors, OwnersType
<1>12. Live' = Live /\ OpenFds' = OpenFds /\ Freeing' = Freeing
  BY <1>0 DEF Live, OpenFds, Freeing
<1>13. Counts'
  BY <1>0, <1>12 DEF Counts
<1> QED
  BY <1>4, <1>5, <1>8, <1>9, <1>10, <1>11, <1>13

\* When ADD fails main() closes the descriptor, uncounts and deletes the Conn.
LEMMA AddFailedInv == ASSUME IndInv, AddFailed PROVE IndInv'
<1> USE DEF IndInv
<1> DEFINE c == adding
           f == fd[c]
<1>0. /\ mainpc = "add" /\ c \in Clients
      /\ UNCHANGED <<regc, armed, fd, batch, tasks, wpc, wconn, peak>>
      /\ sock' = [sock EXCEPT ![f] = None]
      /\ conn' = [conn EXCEPT ![c] = "gone"]
      /\ active' = active - 1
      /\ adding' = None /\ mainpc' = "accept"
  BY DEF AddFailed, Control, OwnersType, pool
<1>1. /\ conn[c] = "live" /\ c \notin batch
      /\ ~Watched(c) /\ ~Queued(c) /\ ~Worked(c)
  BY <1>0 DEF Held, Exclusive
<1>2. ~Closed(c) /\ ~Deregistered(c)
  BY <1>1 DEF Worked, Closed, Deregistered
<1>3. f \in Fds /\ sock[f] = c /\ regc[f] = None
  BY <1>0, <1>1, <1>2 DEF Descriptors, OwnersType
<1> HIDE DEF f
<1>4. OwnersType'
  BY <1>0, <1>3 DEF OwnersType, MainPC
<1>5. Control'
  BY <1>0 DEF Control
<1>6. \A d \in Clients : /\ Watched(d)' <=> Watched(d)
                         /\ Queued(d)' <=> Queued(d)
                         /\ Worked(d)' <=> Worked(d)
                         /\ Deregistered(d)' <=> Deregistered(d)
                         /\ Closed(d)' <=> Closed(d)
  BY <1>0 DEF Watched, Queued, Worked, Deregistered, Closed
<1>7. Exclusive'
  BY <1>0, <1>6, NoneAssumption DEF Exclusive
<1>8. Once'
  BY <1>0 DEF Once
<1>9. Held'
  BY <1>0, <1>1, <1>6, NoneAssumption DEF Held, OwnersType
<1>10. Descriptors'
  <2>1. \A g \in Fds : sock[g] = c => g = f
    BY <1>0, <1>3, NoneAssumption DEF Descriptors, OwnersType, f
  <2>2. \A d \in Clients : d # c /\ conn[d] = "live" /\ ~Closed(d) => fd[d] # f
    BY <1>3 DEF Descriptors, OwnersType
  <2> QED
    BY <1>0, <1>1, <1>3, <1>6, <2>1, <2>2, NoneAssumption DEF Descriptors, OwnersType
<1>11. Counts'
  <2>1. Live' = Live \ {c} /\ c \in Live
    BY <1>0, <1>1 DEF Live, OwnersType
  <2>2. OpenFds' = OpenFds \ {f} /\ f \in OpenFds
    BY <1>0, <1>3, NoneAssumption DEF OpenFds, OwnersType
  <2>3. Freeing' = Freeing
    BY <1>0 DEF Freeing
  <2>4. /\ IsFiniteSet(Live') /\ Cardinality(Live') = Cardinality(Live) - 1
        /\ IsFiniteSet(OpenFds') /\ Cardinality(OpenFds') = Cardinality(OpenFds) - 1
    BY <2>1, <2>2, FS_RemoveElement DEF Counts
  <2>5. /\ Cardinality(Live) \in Nat /\ Cardinality(OpenFds) \in Nat
        /\ Cardinality(Freeing) \in Nat
    BY FS_CardinalityType DEF Counts
  <2>6. /\ active = Cardinality(Live) /\ active <= peak /\ peak \in Nat
        /\ active = Cardinality(OpenFds) + Cardinality(Freeing)
        /\ IsFiniteSet(Freeing)
    BY DEF Counts
  <2> HIDE DEF IndInv
  <2> QED
    BY <1>0, <2>3, <2>4, <2>5, <2>6 DEF Counts
<1> QED
  BY <1>4, <1>5, <1>7, <1>8, <1>9, <1>10, <1>11

\* The other steps of main() change no owner.
LEMMA MainQuietInv ==
    ASSUME IndInv,
           \/ EpollFail \/ AcceptBegin \/ AcceptEnd \/ Join
           \/ \E c \in Clients : AcceptRefused(c)
    PROVE  IndInv'
<1> USE DEF kernel, objects, loop, pool, stats
<1>1. /\ UNCHANGED <<sock, regc, armed, fd, adding, tasks, wpc, wconn, active, peak>>
      /\ conn' \in [Clients -> {"none", "queued", "live", "gone"}]
      /\ \A d \in Clients : conn'[d] = "live" <=> conn[d] = "live"
  BY DEF EpollFail, AcceptBegin, AcceptEnd, Join, AcceptRefused, Backlog, IndInv, OwnersType
<1>2. /\ batch' \subseteq Clients \cup {Listener}
      /\ \A d \in Clients : d \in batch' <=> d \in batch
  BY NoneAssumption DEF EpollFail, AcceptBegin, AcceptEnd, EventDone, Join, AcceptRefused,
                        IndInv, OwnersType, Listener
<1>3. /\ mainpc' \in MainPC
      /\ mainpc' = "add" <=> mainpc = "add"
      /\ mainpc' \in {"wait", "stopping", "stopped"} => batch' = {}
  BY DEF EpollFail, AcceptBegin, AcceptEnd, EventDone, Join, AcceptRefused,
         IndInv, OwnersType, Control, MainPC
<1> QED
  BY <1>1, <1>2, <1>3, QuietInv DEF IndInv, OwnersType

------------------------------------------------------------------------------
(* Steps of a worker.                                                      *)

\* Between recv and EPOLL_CTL_DEL a worker changes no owner, nor when it exits.
LEMMA WorkerQuietInv ==
    ASSUME IndInv, NEW w \in Workers,
           \/ Exit(w) \/ Recv(w) \/ Parse(w) \/ ServeOK(w) \/ Serve502(w)
           \/ After(w) \/ WorkerFault(w)
    PROVE  IndInv'
<1> USE DEF kernel, objects, loop, pool, stats
<1>1. UNCHANGED <<sock, regc, armed, conn, fd, adding, tasks, batch, mainpc, wconn,
                  active, peak>>
  BY DEF Exit, Recv, Parse, ServeOK, Serve502, After, WorkerFault, ServeStalled, RearmFailed
<1>2. \/ wpc' = wpc
      \/ wpc[w] = "idle" /\ wpc' = [wpc EXCEPT ![w] = "exited"]
      \/ /\ wpc[w] \in {"recv", "serve", "busy", "after", "rearm", "del"}
         /\ \E p \in {"recv", "serve", "busy", "after", "rearm", "del"} :
                wpc' = [wpc EXCEPT ![w] = p]
  <2>1. CASE Exit(w) \/ After(w) \/ WorkerFault(w)
    BY <2>1 DEF Exit, After, WorkerFault, ServeStalled, RearmFailed, Served, Goto
  <2>2. CASE Recv(w)
    BY <2>2 DEF Recv, Goto
  <2>3. CASE Parse(w)
    BY <2>3 DEF Parse, Goto
  <2>4. CASE ServeOK(w) \/ Serve502(w)
    BY <2>4 DEF ServeOK, Serve502, Served, Goto
  <2> QED
    BY <2>1, <2>2, <2>3, <2>4
<1>3. /\ wpc' \in [Workers -> WorkerPC]
      /\ \A v \in Workers :
           /\ wpc'[v] \in {"idle", "exited"} <=> wpc[v] \in {"idle", "exited"}
           /\ wpc'[v] = "close" <=> wpc[v] = "close"
           /\ wpc'[v] = "free" <=> wpc[v] = "free"
  BY <1>2 DEF IndInv, OwnersType, WorkerPC
<1> QED
  BY <1>1, <1>3, QuietInv DEF IndInv, OwnersType, Control

\* pop hands a Conn from the queue to the worker.
LEMMA TakeInv == ASSUME IndInv, NEW w \in Workers, Take(w) PROVE IndInv'
<1> USE DEF IndInv
<1> DEFINE c == Head(tasks)
<1>0. /\ wpc[w] = "idle" /\ wconn[w] = None /\ tasks # <<>>
      /\ UNCHANGED <<sock, regc, armed, conn, fd, mainpc, batch, adding, active, peak>>
      /\ tasks' = Tail(tasks)
      /\ wconn' = [wconn EXCEPT ![w] = c]
      /\ wpc' = [wpc EXCEPT ![w] = "recv"]
  BY DEF Take, Goto, Control, kernel, objects, stats
<1>1. /\ c \in Clients /\ c = tasks[1]
      /\ tasks' \in Seq(Clients) /\ Len(tasks) \in Nat /\ Len(tasks) > 0
      /\ Len(tasks') = Len(tasks) - 1
      /\ \A i \in 1..Len(tasks') : tasks'[i] = tasks[i + 1]
  BY <1>0 DEF OwnersType
<1> HIDE DEF c
<1>2. OwnersType'
  BY <1>0, <1>1 DEF OwnersType, WorkerPC
<1>3. Control'
  BY <1>0, <1>1, NoneAssumption DEF Control, OwnersType
<1>4. \A d \in Clients : Queued(d)' <=> Queued(d) /\ d # c
  <2>1. \A d \in Clients : Queued(d)' => Queued(d) /\ d # c
    <3> SUFFICES ASSUME NEW d \in Clients, NEW i \in 1..Len(tasks'), tasks'[i] = d
                 PROVE  Queued(d) /\ d # c
      BY DEF Queued
    <3>1. i + 1 \in 1..Len(tasks) /\ 1 \in 1..Len(tasks) /\ i + 1 # 1
      BY <1>1
    <3> QED
      BY <1>1, <3>1 DEF Queued, Once
  <2>2. \A d \in Clients : Queued(d) /\ d # c => Queued(d)'
    <3> SUFFICES ASSUME NEW d \in Clients, NEW i \in 1..Len(tasks), tasks[i] = d, d # c
                 PROVE  \E j \in 1..Len(tasks') : tasks'[j] = d
      BY DEF Queued
    <3>1. i - 1 \in 1..Len(tasks') /\ (i - 1) + 1 = i
      BY <1>1
    <3> QED
      BY <1>1, <3>1
  <2> QED
    BY <2>1, <2>2
<1>5. \A d \in Clients : /\ Watched(d)' <=> Watched(d)
                         /\ Worked(d)' <=> Worked(d) \/ d = c
                         /\ Deregistered(d)' <=> Deregistered(d)
                         /\ Closed(d)' <=> Closed(d)
  BY <1>0, <1>1, NoneAssumption
     DEF Watched, Worked, Deregistered, Closed, OwnersType
<1>6. Queued(c)
  BY <1>1 DEF Queued
<1>7. Exclusive'
  BY <1>0, <1>1, <1>4, <1>5, <1>6 DEF Exclusive
<1>8. Once'
  <2>1. ~Worked(c)
    BY <1>1, <1>6 DEF Exclusive
  <2>2. \A v, x \in Workers : wconn'[v] = wconn'[x] /\ wconn'[v] # None => v = x
    BY <1>0, <1>1, <2>1 DEF Once, OwnersType, Worked
  <2>3. ASSUME NEW i \in 1..Len(tasks'), NEW j \in 1..Len(tasks'), tasks'[i] = tasks'[j]
        PROVE  i = j
    <3>1. i + 1 \in 1..Len(tasks) /\ j + 1 \in 1..Len(tasks)
      BY <1>1
    <3>2. i + 1 = j + 1
      BY <1>1, <2>3, <3>1 DEF Once
    <3> QED
      BY <3>2
  <2> QED
    BY <2>2, <2>3 DEF Once
<1>9. Held'
  BY <1>0, <1>1, <1>4, <1>5, <1>6 DEF Held
<1>10. Descriptors'
  BY <1>0, <1>5 DEF Descriptors, OwnersType
<1>11. Live' = Live /\ OpenFds' = OpenFds /\ Freeing' = Freeing
  BY <1>0 DEF Live, OpenFds, Freeing, OwnersType
<1>12. Counts'
  BY <1>0, <1>11 DEF Counts
<1> QED
  BY <1>2, <1>3, <1>7, <1>8, <1>9, <1>10, <1>12

\* What a worker holds in handle_ready: a live Conn that nobody else holds.
LEMMA WorkersConn ==
    ASSUME IndInv, NEW w \in Workers, wpc[w] \notin {"idle", "exited"}
    PROVE  /\ wconn[w] \in Clients
           /\ conn[wconn[w]] = "live" /\ fd[wconn[w]] \in Fds
           /\ adding # wconn[w] /\ wconn[w] \notin batch
           /\ ~Watched(wconn[w]) /\ ~Queued(wconn[w]) /\ Worked(wconn[w])
           /\ \A v \in Workers : wconn[v] = wconn[w] => v = w
<1> USE DEF IndInv
<1>1. wconn[w] \in Clients /\ wconn[w] # None
  BY NoneAssumption DEF Control, OwnersType
<1>2. Worked(wconn[w])
  BY DEF Worked
<1>3. \A v \in Workers : wconn[v] = wconn[w] => v = w
  BY <1>1 DEF Once
<1> QED
  BY <1>1, <1>2, <1>3 DEF Held, Exclusive, Descriptors

\* MOD hands the Conn from the worker back to the epoll set.
LEMMA RearmInv == ASSUME IndInv, NEW w \in Workers, Rearm(w) PROVE IndInv'
<1> USE DEF IndInv
<1> DEFINE c == wconn[w]
           f == fd[c]
<1>0. /\ wpc[w] = "rearm"
      /\ UNCHANGED <<sock, conn, fd, mainpc, batch, adding, tasks, active, peak>>
      /\ armed' = armed \cup {f}
      /\ regc' = [regc EXCEPT ![f] = c]
      /\ wconn' = [wconn EXCEPT ![w] = None]
      /\ wpc' = [wpc EXCEPT ![w] = "idle"]
  BY DEF Rearm, Goto, objects, loop, stats
<1>1. /\ c \in Clients /\ conn[c] = "live" /\ f \in Fds /\ adding # c /\ c \notin batch
      /\ ~Watched(c) /\ ~Queued(c) /\ Worked(c)
      /\ \A v \in Workers : wconn[v] = c => v = w
  BY <1>0, WorkersConn
<1>2. ~Deregistered(c) /\ ~Closed(c)
  BY <1>0, <1>1 DEF Deregistered, Closed
<1>3. sock[f] = c /\ regc[f] = c
  BY <1>1, <1>2 DEF Descriptors
<1> HIDE DEF c, f
<1>4. regc' = regc
  BY <1>0, <1>1, <1>3 DEF OwnersType
<1>5. OwnersType'
  BY <1>0, <1>1, <1>4 DEF OwnersType, WorkerPC
<1>6. Control'
  BY <1>0 DEF Control, OwnersType
<1>7. \A d \in Clients : /\ Watched(d)' <=> Watched(d) \/ d = c
                         /\ Queued(d)' <=> Queued(d)
  BY <1>0, <1>1, <1>3, <1>4 DEF Watched, Queued
<1>8. \A d \in Clients : /\ Worked(d)' <=> Worked(d) /\ d # c
                         /\ Deregistered(d)' <=> Deregistered(d)
                         /\ Closed(d)' <=> Closed(d)
  BY <1>0, <1>1, NoneAssumption DEF Worked, Deregistered, Closed, OwnersType, c
<1>9. Exclusive'
  BY <1>0, <1>1, <1>7, <1>8 DEF Exclusive
<1>10. Once'
  BY <1>0 DEF Once, OwnersType
<1>11. Held'
  BY <1>0, <1>1, <1>7, <1>8 DEF Held
<1>12. Descriptors'
  BY <1>0, <1>1, <1>3, <1>4, <1>8, NoneAssumption DEF Descriptors, OwnersType
<1>13. Live' = Live /\ OpenFds' = OpenFds /\ Freeing' = Freeing
  BY <1>0 DEF Live, OpenFds, Freeing, OwnersType
<1>14. Counts'
  BY <1>0, <1>13 DEF Counts
<1> QED
  BY <1>5, <1>6, <1>9, <1>10, <1>11, <1>12, <1>14

\* DEL ends the registration; the descriptor stays the Conn's.
LEMMA DelInv == ASSUME IndInv, NEW w \in Workers, Del(w) PROVE IndInv'
<1> USE DEF IndInv
<1> DEFINE c == wconn[w]
           f == fd[c]
<1>0. /\ wpc[w] = "del"
      /\ UNCHANGED <<sock, conn, fd, mainpc, batch, adding, tasks, wconn, active, peak>>
      /\ armed' = armed \ {f}
      /\ regc' = [regc EXCEPT ![f] = None]
      /\ wpc' = [wpc EXCEPT ![w] = "close"]
  BY DEF Del, Goto, objects, loop, stats
<1>1. /\ c \in Clients /\ conn[c] = "live" /\ f \in Fds /\ adding # c /\ c \notin batch
      /\ ~Watched(c) /\ ~Queued(c) /\ Worked(c)
      /\ \A v \in Workers : wconn[v] = c => v = w
  BY <1>0, WorkersConn
<1>2. ~Deregistered(c) /\ ~Closed(c)
  BY <1>0, <1>1 DEF Deregistered, Closed
<1>3. sock[f] = c /\ regc[f] = c
  BY <1>1, <1>2 DEF Descriptors
<1> HIDE DEF f
<1>4. OwnersType'
  BY <1>0, <1>1 DEF OwnersType, WorkerPC
<1>5. Control'
  BY <1>0 DEF Control, OwnersType
<1>6. f \notin armed
  BY <1>1, <1>3 DEF Watched
<1>7. \A d \in Clients : /\ Watched(d)' <=> Watched(d)
                         /\ Queued(d)' <=> Queued(d)
                         /\ Worked(d)' <=> Worked(d)
  BY <1>0, <1>1, <1>6 DEF Watched, Queued, Worked, OwnersType
<1>8. \A d \in Clients : /\ Deregistered(d)' <=> Deregistered(d) \/ d = c
                         /\ Closed(d)' <=> Closed(d)
  BY <1>0, <1>1 DEF Deregistered, Closed, OwnersType
<1>9. Exclusive' /\ Held'
  BY <1>0, <1>7 DEF Exclusive, Held
<1>10. Once'
  BY <1>0 DEF Once
<1>11. Descriptors'
  <2>1. \A g \in Fds : regc[g] = c => g = f
    BY <1>1, <1>3 DEF Descriptors
  <2>2. \A d \in Clients : d # c /\ regc[fd[d]] = d => fd[d] # f
    BY <1>3
  <2> QED
    BY <1>0, <1>1, <1>3, <1>6, <1>8, <2>1, <2>2, NoneAssumption DEF Descriptors, OwnersType
<1>12. Live' = Live /\ OpenFds' = OpenFds /\ Freeing' = Freeing
  BY <1>0 DEF Live, OpenFds, Freeing, OwnersType
<1>13. Counts'
  BY <1>0, <1>12 DEF Counts
<1> QED
  BY <1>4, <1>5, <1>9, <1>10, <1>11, <1>13

\* close gives the number back while the Conn still exists.
LEMMA CloseFdInv == ASSUME IndInv, NEW w \in Workers, CloseFd(w) PROVE IndInv'
<1> USE DEF IndInv
<1> DEFINE c == wconn[w]
           f == fd[c]
<1>0. /\ wpc[w] = "close"
      /\ UNCHANGED <<conn, fd, mainpc, batch, adding, tasks, wconn, active, peak>>
      /\ sock' = [sock EXCEPT ![f] = None]
      /\ armed' = armed \ {f}
      /\ regc' = [regc EXCEPT ![f] = None]
      /\ wpc' = [wpc EXCEPT ![w] = "free"]
  BY DEF CloseFd, Goto, objects, loop, stats
<1>1. /\ c \in Clients /\ conn[c] = "live" /\ f \in Fds /\ adding # c /\ c \notin batch
      /\ ~Watched(c) /\ ~Queued(c) /\ Worked(c)
      /\ \A v \in Workers : wconn[v] = c => v = w
  BY <1>0, WorkersConn
<1>2. Deregistered(c) /\ ~Closed(c)
  BY <1>0, <1>1 DEF Deregistered, Closed
<1>3. sock[f] = c /\ regc[f] = None
  BY <1>1, <1>2 DEF Descriptors, OwnersType
<1> HIDE DEF f
<1>4. OwnersType'
  BY <1>0, <1>1 DEF OwnersType, WorkerPC
<1>5. Control'
  BY <1>0 DEF Control, OwnersType
<1>6. f \notin armed
  BY <1>1, <1>3 DEF Descriptors
<1>7. \A d \in Clients : /\ Watched(d)' <=> Watched(d)
                         /\ Queued(d)' <=> Queued(d)
                         /\ Worked(d)' <=> Worked(d)
  BY <1>0, <1>1, <1>6 DEF Watched, Queued, Worked, OwnersType
<1>8. \A d \in Clients : /\ Deregistered(d)' <=> Deregistered(d)
                         /\ Closed(d)' <=> Closed(d) \/ d = c
  BY <1>0, <1>1 DEF Deregistered, Closed, OwnersType
<1>9. Exclusive' /\ Held'
  BY <1>0, <1>7 DEF Exclusive, Held
<1>10. Once'
  BY <1>0 DEF Once
<1>11. Descriptors'
  <2>1. \A g \in Fds : sock[g] = c => g = f
    BY <1>1, <1>3 DEF Descriptors
  <2>2. \A d \in Clients : d # c /\ sock[fd[d]] = d => fd[d] # f
    BY <1>3
  <2> QED
    BY <1>0, <1>1, <1>2, <1>3, <1>6, <1>8, <2>1, <2>2, NoneAssumption
       DEF Descriptors, OwnersType
<1>12. Counts'
  <2>1. Live' = Live
    BY <1>0 DEF Live
  <2>2. OpenFds' = OpenFds \ {f} /\ f \in OpenFds
    BY <1>0, <1>1, <1>3, NoneAssumption DEF OpenFds, OwnersType
  <2>3. Freeing' = Freeing \cup {w} /\ w \notin Freeing
    BY <1>0 DEF Freeing, OwnersType
  <2>4. /\ IsFiniteSet(OpenFds') /\ Cardinality(OpenFds') = Cardinality(OpenFds) - 1
        /\ IsFiniteSet(Freeing') /\ Cardinality(Freeing') = Cardinality(Freeing) + 1
    BY <2>2, <2>3, FS_AddElement, FS_RemoveElement DEF Counts
  <2>5. /\ Cardinality(Live) \in Nat /\ Cardinality(OpenFds) \in Nat
        /\ Cardinality(Freeing) \in Nat
    BY FS_CardinalityType DEF Counts
  <2>6. /\ active = Cardinality(Live) /\ active <= peak /\ peak \in Nat
        /\ active = Cardinality(OpenFds) + Cardinality(Freeing)
        /\ IsFiniteSet(Live)
    BY DEF Counts
  <2> HIDE DEF IndInv
  <2> QED
    BY <1>0, <2>1, <2>4, <2>5, <2>6 DEF Counts
<1> QED
  BY <1>4, <1>5, <1>9, <1>10, <1>11, <1>12

\* delete ends the Conn and the worker's hold on it.
LEMMA FreeInv == ASSUME IndInv, NEW w \in Workers, Free(w) PROVE IndInv'
<1> USE DEF IndInv
<1> DEFINE c == wconn[w]
<1>0. /\ wpc[w] = "free"
      /\ UNCHANGED <<sock, regc, armed, fd, mainpc, batch, adding, tasks, peak>>
      /\ conn' = [conn EXCEPT ![c] = "gone"]
      /\ active' = active - 1
      /\ wconn' = [wconn EXCEPT ![w] = None]
      /\ wpc' = [wpc EXCEPT ![w] = "idle"]
  BY DEF Free, Goto, kernel, loop
<1>1. /\ c \in Clients /\ conn[c] = "live" /\ adding # c /\ c \notin batch
      /\ ~Watched(c) /\ ~Queued(c) /\ Worked(c)
      /\ \A v \in Workers : wconn[v] = c => v = w
  BY <1>0, WorkersConn
<1>2. Deregistered(c) /\ Closed(c)
  BY <1>0, <1>1 DEF Deregistered, Closed
<1>3. OwnersType'
  BY <1>0, <1>1 DEF OwnersType, WorkerPC
<1>4. Control'
  BY <1>0 DEF Control, OwnersType
<1>5. \A d \in Clients : /\ Watched(d)' <=> Watched(d)
                         /\ Queued(d)' <=> Queued(d)
  BY <1>0 DEF Watched, Queued
<1>6. \A d \in Clients : /\ Worked(d)' <=> Worked(d) /\ d # c
                         /\ Deregistered(d)' <=> Deregistered(d) /\ d # c
                         /\ Closed(d)' <=> Closed(d) /\ d # c
  BY <1>0, <1>1, NoneAssumption DEF Worked, Deregistered, Closed, OwnersType
<1>7. Exclusive'
  BY <1>0, <1>5, <1>6 DEF Exclusive
<1>8. Once'
  BY <1>0 DEF Once, OwnersType
<1>9. Held'
  BY <1>0, <1>1, <1>5, <1>6 DEF Held, OwnersType
<1>10. Descriptors'
  BY <1>0, <1>1, <1>2, <1>6 DEF Descriptors, OwnersType
<1>11. Counts'
  <2>1. Live' = Live \ {c} /\ c \in Live
    BY <1>0, <1>1 DEF Live, OwnersType
  <2>2. OpenFds' = OpenFds
    BY <1>0 DEF OpenFds
  <2>3. Freeing' = Freeing \ {w} /\ w \in Freeing
    BY <1>0 DEF Freeing, OwnersType
  <2>4. /\ IsFiniteSet(Live') /\ Cardinality(Live') = Cardinality(Live) - 1
        /\ IsFiniteSet(Freeing') /\ Cardinality(Freeing') = Cardinality(Freeing) - 1
    BY <2>1, <2>3, FS_RemoveElement DEF Counts
  <2>5. /\ Cardinality(Live) \in Nat /\ Cardinality(OpenFds) \in Nat
        /\ Cardinality(Freeing) \in Nat
    BY FS_CardinalityType DEF Counts
  <2>6. /\ active = Cardinality(Live) /\ active <= peak /\ peak \in Nat
        /\ active = Cardinality(OpenFds) + Cardinality(Freeing)
        /\ IsFiniteSet(OpenFds)
    BY DEF Counts
  <2> HIDE DEF IndInv
  <2> QED
    BY <1>0, <2>2, <2>4, <2>5, <2>6 DEF Counts
<1> QED
  BY <1>3, <1>4, <1>7, <1>8, <1>9, <1>10, <1>11

------------------------------------------------------------------------------
(* The theorems.                                                           *)

\* Every step of the specification keeps the invariant.
LEMMA NextInv == IndInv /\ [Next]_vars => IndInv'
<1> SUFFICES ASSUME IndInv, [Next]_vars PROVE IndInv'
  OBVIOUS
<1>1. CASE UNCHANGED vars
  BY <1>1, QuietInv DEF vars, IndInv, OwnersType, Control
<1>2. ASSUME NEW c \in Clients, Client(c) PROVE IndInv'
  BY <1>2, ClientInv
<1>3. CASE Main
  BY <1>3, EpollWaitInv, DispatchInv, AcceptInv, AddInv, MainQuietInv DEF Main
<1>4. CASE MainFault
  BY <1>4, AddFailedInv, MainQuietInv DEF MainFault
<1>5. ASSUME NEW w \in Workers, Worker(w) \/ WorkerFault(w) PROVE IndInv'
  BY <1>5, TakeInv, RearmInv, DelInv, CloseFdInv, FreeInv, WorkerQuietInv DEF Worker
<1>6. CASE Done
  BY <1>1, <1>6 DEF Done
<1> QED
  BY <1>1, <1>2, <1>3, <1>4, <1>5, <1>6 DEF Next

\* The invariant the properties of ownership and counting follow from.
THEOREM Invariance == SafetySpec => []IndInv
  BY InitInv, NextInv, PTL DEF SafetySpec

\* A Conn is with one thread, event or queue entry at a time, for any number of
\* clients and workers: the ownership that EPOLLONESHOT is used for.
THEOREM OneOwner == SafetySpec => []SingleOwner
<1>1. IndInv => SingleOwner
  <2> SUFFICES ASSUME IndInv PROVE SingleOwner
    OBVIOUS
  <2>1. ASSUME NEW c \in Clients, NEW p \in Places, NEW q \in Places,
               Holds(p, c), Holds(q, c)
        PROVE  p = q
    <3>1. ASSUME NEW r \in Places, Holds(r, c)
          PROVE  \/ r = "main" /\ adding = c
                 \/ r = "epoll" /\ Watched(c)
                 \/ r = "batch" /\ c \in batch
                 \/ r = "queue" /\ Queued(c)
                 \/ r \in Workers /\ wconn[r] = c /\ Worked(c)
      BY <3>1 DEF Holds, Watched, Queued, Worked
    <3>2. \A v, w \in Workers : wconn[v] = c /\ wconn[w] = c => v = w
      BY NoneAssumption DEF IndInv, Once
    <3> QED
      BY <2>1, <3>1, <3>2 DEF IndInv, Exclusive
  <2> QED
    BY <2>1 DEF SingleOwner, IndInv, Once
<1> QED
  BY <1>1, Invariance, PTL

\* No pointer to a Conn outlives its delete, and no Conn is forgotten.
THEOREM HeldWhileLive == SafetySpec => []HeldIffLive
<1>1. IndInv => HeldIffLive
  <2> SUFFICES ASSUME IndInv, NEW c \in Clients
               PROVE  (\E p \in Places : Holds(p, c)) <=> conn[c] = "live"
    BY DEF HeldIffLive
  <2>1. conn[c] = "live" <=>
            adding = c \/ c \in batch \/ Watched(c) \/ Queued(c) \/ Worked(c)
    BY DEF IndInv, Held
  <2>2. Worked(c) <=> \E w \in Workers : Holds(w, c)
    BY PlaceAssumption DEF Holds, Worked
  <2>3. /\ adding = c <=> Holds("main", c)
        /\ Watched(c) <=> Holds("epoll", c)
        /\ c \in batch <=> Holds("batch", c)
        /\ Queued(c) <=> Holds("queue", c)
    BY PlaceAssumption DEF Holds, Watched, Queued
  <2> QED
    BY <2>1, <2>2, <2>3 DEF Places
<1> QED
  BY <1>1, Invariance, PTL

\* The descriptor a worker reads, writes, re-arms or closes is still its
\* connection's, although numbers are reused as soon as they are closed.
THEOREM DescriptorIsOwn == SafetySpec => []OwnDescriptor
<1>1. IndInv => OwnDescriptor
  BY DEF IndInv, Descriptors, Deregistered, Closed, OwnDescriptor
<1> QED
  BY <1>1, Invariance, PTL

\* active_connections is exact whatever closes and fails, and never above peak.
THEOREM ActiveIsExact == SafetySpec => []ActiveCounts
<1>1. IndInv => ActiveCounts
  BY DEF IndInv, Counts, Live, OpenFds, Freeing, ActiveCounts
<1> QED
  BY <1>1, Invariance, PTL

------------------------------------------------------------------------------
(* What a stream of pieces calls for.                                      *)

\* Induction up to a bound, for the members of a set.
LEMMA UpTo ==
    ASSUME NEW N \in Nat, NEW S, 0 \in S, \A n \in 0..N : n \in S /\ n < N => n + 1 \in S
    PROVE  0..N \subseteq S
<1> DEFINE Bad == {n \in 0..N : n \notin S}
<1> SUFFICES ASSUME Bad # {} PROVE FALSE
  OBVIOUS
<1>1. PICK m \in Bad : \A n \in Bad : m <= n
  <2>1. Bad \subseteq Nat
    OBVIOUS
  <2> QED
    BY <2>1, LeastNatural
<1>2. m \in 0..N /\ m \notin S /\ m # 0
  OBVIOUS
<1>3. m - 1 \in 0..N /\ m - 1 < N /\ (m - 1) + 1 = m /\ m - 1 \notin Bad
  BY <1>1, <1>2
<1> QED
  BY <1>2, <1>3

\* The recursion of Calls at i, where f is what it has for later pieces.
CallStep(q, f, i) ==
    IF i > Len(q) THEN <<>>
    ELSE IF q[i] = "data" THEN f[i + 1]
    ELSE IF q[i] = "bad" THEN <<"400">>
    ELSE IF q[i] = "last" THEN <<"last">>
    ELSE IF q[i] \notin WithBody THEN <<q[i]>> \o f[i + 1]
    ELSE IF i = Len(q) THEN <<>>
    ELSE <<q[i]>> \o f[i + 2]

\* It looks at later pieces only.
LEMMA CallStepLater ==
    ASSUME NEW q, Len(q) \in Nat, NEW f, NEW g, NEW i \in 1..(Len(q) + 1),
           \A j \in (i + 1)..(Len(q) + 1) : f[j] = g[j]
    PROVE  CallStep(q, f, i) = CallStep(q, g, i)
<1>1. i <= Len(q) => f[i + 1] = g[i + 1]
  OBVIOUS
<1>2. i <= Len(q) /\ i # Len(q) => f[i + 2] = g[i + 2]
  OBVIOUS
<1>3. CASE i > Len(q)
  BY <1>3 DEF CallStep
<1>4. CASE i <= Len(q) /\ i # Len(q)
  BY <1>1, <1>2, <1>4, Zenon DEF CallStep
<1>5. CASE i <= Len(q) /\ i = Len(q)
  BY <1>1, <1>5, Zenon DEF CallStep
<1> QED
  BY <1>3, <1>4, <1>5

\* g is Calls(q) on the last m + 1 positions.
CallsFrom(g, q, m) ==
    g = [i \in (Len(q) + 1 - m)..(Len(q) + 1) |-> CallStep(q, g, i)]

LEMMA CallsExtend ==
    ASSUME NEW q, Len(q) \in Nat, NEW m \in Nat, m < Len(q), \E g : CallsFrom(g, q, m)
    PROVE  \E h : CallsFrom(h, q, m + 1)
<1>1. PICK g : CallsFrom(g, q, m)
  OBVIOUS
<1> DEFINE N == Len(q) + 1
           k == N - m - 1
           h == [i \in k..N |-> IF i = k THEN CallStep(q, g, k) ELSE g[i]]
<1>2. k \in 1..N /\ k + 1 = N - m /\ k = N - (m + 1) /\ N \in Nat
  OBVIOUS
<1>3. ASSUME NEW i \in (k + 1)..N
      PROVE  g[i] = CallStep(q, g, i) /\ h[i] = g[i]
  <2>1. g = [j \in (k + 1)..N |-> CallStep(q, g, j)]
    <3>1. g = [j \in (Len(q) + 1 - m)..N |-> CallStep(q, g, j)]
      BY <1>1, Zenon DEF CallsFrom
    <3>2. Len(q) + 1 - m = k + 1
      BY <1>2
    <3> HIDE DEF k, N
    <3> QED
      BY <3>1, <3>2
  <2>2. i \in k..N /\ i # k
    BY <1>2
  <2>3. h[i] = g[i]
    BY <2>2
  <2> HIDE DEF h, k, N
  <2> QED
    BY <2>1, <2>3, Zenon
<1>4. h[k] = CallStep(q, g, k)
  BY <1>2
<1>5. h = [i \in k..N |-> h[i]]
  OBVIOUS
<1> HIDE DEF h, k
<1>6. ASSUME NEW i \in k..N
      PROVE  CallStep(q, h, i) = CallStep(q, g, i)
  <2>1. i \in 1..(Len(q) + 1)
    BY <1>2
  <2>2. \A j \in (i + 1)..(Len(q) + 1) : j \in (k + 1)..N
    BY <1>2, <2>1
  <2>3. \A j \in (i + 1)..(Len(q) + 1) : h[j] = g[j]
    BY <1>3, <2>2
  <2> QED
    BY <2>1, <2>3, CallStepLater
<1>7. ASSUME NEW i \in k..N
      PROVE  h[i] = CallStep(q, h, i)
  <2>1. i = k \/ i \in (k + 1)..N
    BY <1>2
  <2> QED
    BY <1>3, <1>4, <1>6, <2>1
<1>8. [i \in k..N |-> h[i]] = [i \in k..N |-> CallStep(q, h, i)]
  BY <1>7
<1>9. CallsFrom(h, q, m + 1)
  BY <1>2, <1>5, <1>8 DEF CallsFrom
<1> QED
  BY <1>9

LEMMA CallsDefined ==
    ASSUME NEW q, Len(q) \in Nat, NEW i \in 1..(Len(q) + 1)
    PROVE  Calls(q)[i] = CallStep(q, Calls(q), i)
<1> DEFINE N == Len(q)
           S == {m \in Nat : \E g : CallsFrom(g, q, m)}
<1>1. 0 \in S
  <2> DEFINE g == [j \in (N + 1 - 0)..(N + 1) |-> <<>>]
  <2>1. \A j \in (N + 1 - 0)..(N + 1) : j > Len(q)
    OBVIOUS
  <2>2. \A j \in (N + 1 - 0)..(N + 1) : CallStep(q, g, j) = <<>>
    BY <2>1 DEF CallStep
  <2>3. CallsFrom(g, q, 0)
    BY <2>2 DEF CallsFrom
  <2> QED
    BY <2>3
<1>2. ASSUME NEW m \in 0..N, m \in S, m < N PROVE m + 1 \in S
  BY <1>2, CallsExtend
<1>3. N \in S
  <2> HIDE DEF S
  <2>1. N \in Nat
    OBVIOUS
  <2> HIDE DEF N
  <2>2. 0..N \subseteq S
    BY <1>1, <1>2, <2>1, UpTo
  <2> QED
    BY <2>1, <2>2
<1>4. \E g : g = [j \in 1..(Len(q) + 1) |-> CallStep(q, g, j)]
  <2>1. Len(q) + 1 - Len(q) = 1
    OBVIOUS
  <2>2. PICK g : CallsFrom(g, q, Len(q))
    BY <1>3
  <2>3. g = [j \in 1..(Len(q) + 1) |-> CallStep(q, g, j)]
    BY <2>1, <2>2 DEF CallsFrom
  <2> QED
    BY <2>3
<1>5. Calls(q) = CHOOSE g : g = [j \in 1..(Len(q) + 1) |-> CallStep(q, g, j)]
  BY DEF Calls, CallStep
<1>6. Calls(q) = [j \in 1..(Len(q) + 1) |-> CallStep(q, Calls(q), j)]
  BY <1>4, <1>5
<1> QED
  BY <1>6

\* A stream calls for a sequence of responses.
LEMMA CallsType ==
    ASSUME NEW q \in Seq(Piece), Len(q) \in Nat, NEW i \in 1..(Len(q) + 1)
    PROVE  Calls(q)[i] \in Seq(Reply)
<1> DEFINE N == Len(q)
           S == {m \in Nat : \A j \in (N + 1 - m)..(N + 1) : Calls(q)[j] \in Seq(Reply)}
<1>1. 0 \in S
  <2>1. CallStep(q, Calls(q), N + 1) = <<>>
    BY DEF CallStep
  <2>2. Calls(q)[N + 1] = <<>>
    BY <2>1, CallsDefined
  <2>3. \A j \in (N + 1 - 0)..(N + 1) : j = N + 1
    OBVIOUS
  <2>4. <<>> \in Seq(Reply)
    OBVIOUS
  <2> QED
    BY <2>2, <2>3, <2>4
<1>2. ASSUME NEW m \in 0..N, m \in S, m < N PROVE m + 1 \in S
  <2> DEFINE k == N - m
  <2>1. k \in 1..N /\ N + 1 - (m + 1) = k /\ N + 1 - m = k + 1 /\ m + 1 \in Nat
    BY <1>2
  <2>2. \A j \in (k + 1)..(N + 1) : Calls(q)[j] \in Seq(Reply)
    BY <1>2, <2>1
  <2> HIDE DEF k
  <2>3. Calls(q)[k + 1] \in Seq(Reply) /\ (k # N => Calls(q)[k + 2] \in Seq(Reply))
    BY <2>1, <2>2
  <2>4. <<>> \in Seq(Reply) /\ <<"400">> \in Seq(Reply) /\ <<"last">> \in Seq(Reply)
    <3>1. "400" \in Reply /\ "last" \in Reply
      BY DEF Reply, Crlf
    <3> QED
      BY <3>1
  <2>8. q[k] # "data" => <<q[k]>> \in Seq(Reply)
    <3>1. q[k] \in Piece
      BY <2>1
    <3>2. q[k] # "data" => q[k] \in Reply
      BY <3>1 DEF Piece, Reply
    <3> QED
      BY <3>2
  <2>5. CallStep(q, Calls(q), k) \in Seq(Reply)
    <3> DEFINE a == Calls(q)[k + 1]
               b == Calls(q)[k + 2]
               y == <<q[k]>>
    <3>1. a \in Seq(Reply) /\ y \in Seq(Reply) => y \o a \in Seq(Reply)
      OBVIOUS
    <3>2. b \in Seq(Reply) /\ y \in Seq(Reply) => y \o b \in Seq(Reply)
      OBVIOUS
    <3>3. \/ CallStep(q, Calls(q), k) = <<>> \/ CallStep(q, Calls(q), k) = a
          \/ CallStep(q, Calls(q), k) = <<"400">> \/ CallStep(q, Calls(q), k) = <<"last">>
          \/ q[k] # "data" /\ CallStep(q, Calls(q), k) = y \o a
          \/ q[k] # "data" /\ k # N /\ CallStep(q, Calls(q), k) = y \o b
      BY DEF CallStep
    <3>4. (q[k] # "data" => y \in Seq(Reply)) /\ a \in Seq(Reply)
          /\ (k # N => b \in Seq(Reply))
      BY <2>3, <2>8
    <3> HIDE DEF a, b, y
    <3> QED
      BY <2>4, <3>1, <3>2, <3>3, <3>4
  <2>6. Calls(q)[k] \in Seq(Reply)
    BY <2>1, <2>5, CallsDefined
  <2>7. \A j \in k..(N + 1) : j = k \/ j \in (k + 1)..(N + 1)
    BY <2>1
  <2> QED
    BY <2>1, <2>2, <2>6, <2>7
<1>3. N \in S
  <2> HIDE DEF S
  <2>1. N \in Nat
    OBVIOUS
  <2> HIDE DEF N
  <2>2. 0..N \subseteq S
    BY <1>1, <1>2, <2>1, UpTo
  <2> QED
    BY <2>1, <2>2
<1> QED
  BY <1>3

\* Least is the least.
LEMMA LeastIs ==
    ASSUME NEW S, S \subseteq Nat, S # {}
    PROVE  Least(S) \in S /\ \A j \in S : Least(S) <= j
<1>1. \E i \in S : \A j \in S : i <= j
  BY LeastNatural
<1> QED
  BY <1>1, Zenon DEF Least

\* The request that parse_request reads is the first in the buffer.
LEMMA FirstEnd ==
    ASSUME NEW p, Len(p) \in Nat, HasHeader(p), NEW e, e = Least(Ends(p))
    PROVE  /\ e \in 1..Len(p) /\ Request(p) = p[e] /\ p[e] # "data"
           /\ \A j \in 1..(e - 1) : p[j] = "data"
<1>1. Ends(p) \subseteq Nat /\ Ends(p) # {}
  BY DEF HasHeader, Ends
<1>2. e \in Ends(p) /\ \A j \in Ends(p) : e <= j
  BY <1>1, LeastIs
<1>3. e \in 1..Len(p) /\ p[e] # "data"
  BY <1>2 DEF Ends
<1>4. \A j \in 1..(e - 1) : p[j] = "data"
  <2> SUFFICES ASSUME NEW j \in 1..(e - 1), p[j] # "data" PROVE FALSE
    OBVIOUS
  <2>1. j \in 1..Len(p) /\ j < e
    BY <1>3
  <2>2. j \in Ends(p)
    BY <2>1 DEF Ends
  <2> QED
    BY <1>2, <1>3, <2>1, <2>2
<1> QED
  BY <1>3, <1>4 DEF Request

\* The header block ends somewhere in the buffer, with that request if the stream
\* keeps to one kind of line end.
LEMMA HeaderEndIs ==
    ASSUME NEW q \in Seq(Piece), NEW p, Len(p) \in Nat, HasHeader(p), NEW k \in Nat,
           k + Len(p) <= Len(q), \A i \in 1..Len(p) : p[i] = q[k + i]
    PROVE  /\ HeaderEnd(p) \in 1..Len(p)
           /\ OneLineEnd(q) => HeaderEnd(p) = Least(Ends(p))
<1> DEFINE e == Least(Ends(p))
           m == Least(CrlfEnds(p))
<1>1. e \in 1..Len(p) /\ p[e] # "data" /\ \A j \in 1..(e - 1) : p[j] = "data"
  BY FirstEnd
<1>2. CASE CrlfEnds(p) = {}
  BY <1>1, <1>2 DEF HeaderEnd
<1>3. CASE CrlfEnds(p) # {}
  <2>1. CrlfEnds(p) \subseteq Nat
    BY DEF CrlfEnds
  <2>2. m \in CrlfEnds(p) /\ \A j \in CrlfEnds(p) : m <= j
    BY <1>3, <2>1, LeastIs
  <2>3. m \in 1..Len(p) /\ p[m] \in Crlf
    BY <2>2 DEF CrlfEnds
  <2>4. HeaderEnd(p) = m
    BY <1>3 DEF HeaderEnd
  <2> HIDE DEF e, m
  <2>5. m # e => e < m /\ p[e] \notin Crlf
    <3>1. p[m] # "data"
      BY <2>3 DEF Crlf
    <3>2. ~(m < e)
      BY <1>1, <2>3, <3>1
    <3>3. e < m => p[e] \notin Crlf
      <4>1. e < m => e \notin CrlfEnds(p)
        BY <1>1, <2>2, <2>3
      <4> QED
        BY <1>1, <4>1 DEF CrlfEnds
    <3> QED
      BY <1>1, <2>3, <3>2, <3>3
  <2>6. ASSUME OneLineEnd(q) PROVE m = e
    <3> SUFFICES ASSUME e < m, p[e] \notin Crlf PROVE FALSE
      BY <2>5
    <3>1. /\ k + e \in 1..Len(q) /\ k + m \in 1..Len(q) /\ k + e < k + m
          /\ q[k + e] = p[e] /\ q[k + m] = p[m]
      BY <1>1, <2>3
    <3>2. q[k + e] \in Piece
      BY <3>1
    <3>3. p[e] \in Bare
      BY <1>1, <3>1, <3>2 DEF Piece
    <3> QED
      BY <2>3, <2>6, <3>1, <3>3 DEF OneLineEnd
  <2> QED
    BY <2>3, <2>4, <2>6 DEF e
<1> QED
  BY <1>2, <1>3

\* Pieces that end no header block call for nothing.
LEMMA DataIsSkipped ==
    ASSUME NEW q, Len(q) \in Nat, NEW i \in 1..(Len(q) + 1), NEW h \in Nat,
           i + h <= Len(q) + 1, \A j \in i..(i + h - 1) : q[j] = "data"
    PROVE  Calls(q)[i + h] = Calls(q)[i]
<1> DEFINE S == {m \in Nat : Calls(q)[i + m] = Calls(q)[i]}
<1>1. 0 \in S
  <2>1. i + 0 = i
    OBVIOUS
  <2> QED
    BY <2>1
<1>2. ASSUME NEW m \in 0..h, m \in S, m < h PROVE m + 1 \in S
  <2> DEFINE j == i + m
  <2>1. j \in 1..(Len(q) + 1) /\ j \in i..(i + h - 1) /\ ~(j > Len(q)) /\ j + 1 = i + (m + 1)
    BY <1>2
  <2>2. q[j] = "data" /\ Calls(q)[j] = Calls(q)[i]
    BY <1>2, <2>1
  <2> HIDE DEF j
  <2>3. Calls(q)[j] = Calls(q)[j + 1]
    BY <2>1, <2>2, CallsDefined DEF CallStep
  <2> QED
    BY <2>1, <2>2, <2>3
<1>3. 0..h \subseteq S
  <2> HIDE DEF S
  <2> QED
    BY <1>1, <1>2, UpTo
<1>4. h \in S
  BY <1>3
<1> QED
  BY <1>4

\* What a stream calls for from k + 1 on, given what is read of it from there:
\* a header block that is refused, or a whole request and what follows it.
LEMMA FrontIsCalled ==
    ASSUME NEW q \in Seq(Piece), NEW k \in 0..Len(q), NEW a \in k..Len(q),
           NEW p, p = SubSeq(q, k + 1, a), HasHeader(p)
    PROVE  /\ Need(p) \in Nat /\ Need(p) > 0
           /\ Request(p) \in Crlf \cup Bare
           /\ OneLineEnd(q) =>
                 /\ Request(p) = "bad" => Calls(q)[k + 1] = <<"400">>
                 /\ Request(p) = "last" => Calls(q)[k + 1] = <<"last">>
                 /\ Request(p) \notin {"bad", "last"} /\ Len(p) >= Need(p) =>
                       Calls(q)[k + 1] = <<Request(p)>> \o Calls(q)[k + Need(p) + 1]
<1> DEFINE h == Least(Ends(p))
           j == k + h
           r == Request(p)
<1>1. Len(q) \in Nat /\ k \in Nat /\ a \in Nat /\ Len(p) = a - k
      /\ Len(p) \in Nat /\ a <= Len(q) /\ k + Len(p) <= Len(q)
      /\ \A i \in 1..Len(p) : p[i] = q[k + i]
  OBVIOUS
<1>2. h \in 1..Len(p) /\ r = p[h] /\ p[h] # "data" /\ \A i \in 1..(h - 1) : p[i] = "data"
  BY <1>1, FirstEnd
<1>3. HeaderEnd(p) \in 1..Len(p) /\ (OneLineEnd(q) => HeaderEnd(p) = h)
  BY <1>1, HeaderEndIs
<1>4. Need(p) = HeaderEnd(p) + (IF r \in WithBody THEN 1 ELSE 0)
  BY DEF Need
<1> HIDE DEF h, r
<1>5. Need(p) \in Nat /\ Need(p) > 0
  BY <1>1, <1>3, <1>4
<1>6. j \in 1..Len(q) /\ q[j] = r /\ r \in Piece /\ j = (k + 1) + (h - 1)
  BY <1>1, <1>2
<1>7. r \in Crlf \cup Bare
  BY <1>2, <1>6 DEF Piece
<1>8. \A i \in (k + 1)..((k + 1) + (h - 1) - 1) : q[i] = "data"
  <2> SUFFICES ASSUME NEW i \in (k + 1)..((k + 1) + (h - 1) - 1) PROVE q[i] = "data"
    OBVIOUS
  <2>1. i - k \in 1..(h - 1) /\ i - k \in 1..Len(p) /\ k + (i - k) = i
    BY <1>1, <1>2
  <2> QED
    BY <1>1, <1>2, <2>1
<1>9. k + 1 \in 1..(Len(q) + 1) /\ h - 1 \in Nat /\ (k + 1) + (h - 1) <= Len(q) + 1
  BY <1>1, <1>2
<1>10. Calls(q)[(k + 1) + (h - 1)] = Calls(q)[k + 1]
  BY <1>1, <1>8, <1>9, DataIsSkipped
<1>11. Calls(q)[k + 1] = Calls(q)[j]
  BY <1>6, <1>10
<1> HIDE DEF j
<1>12. Calls(q)[j] = CallStep(q, Calls(q), j) /\ ~(j > Len(q)) /\ q[j] # "data"
  BY <1>1, <1>2, <1>6, CallsDefined
<1>13. r = "bad" => Calls(q)[k + 1] = <<"400">>
  BY <1>6, <1>11, <1>12 DEF CallStep
<1>14. r = "last" => Calls(q)[k + 1] = <<"last">>
  BY <1>6, <1>11, <1>12 DEF CallStep
<1>15. ASSUME OneLineEnd(q), r \notin {"bad", "last"}, Len(p) >= Need(p)
       PROVE  Calls(q)[k + 1] = <<r>> \o Calls(q)[k + Need(p) + 1]
  <2>1. CASE r \notin WithBody
    <3>1. k + Need(p) + 1 = j + 1
      BY <1>1, <1>2, <1>3, <1>4, <1>15, <2>1 DEF j
    <3>2. Calls(q)[j] = <<q[j]>> \o Calls(q)[j + 1]
      BY <1>6, <1>12, <1>15, <2>1 DEF CallStep
    <3> QED
      BY <1>6, <1>11, <3>1, <3>2
  <2>2. CASE r \in WithBody
    <3>1. Need(p) = h + 1 /\ h \in Nat /\ h + 1 <= a - k
      BY <1>1, <1>2, <1>3, <1>4, <1>15, <2>2
    <3>2. k + Need(p) + 1 = j + 2 /\ j # Len(q)
      <4> DEFINE n == Len(q)
      <4>1. n \in Nat /\ k \in Nat /\ a \in Nat /\ a <= n
        BY <1>1
      <4> HIDE DEF n
      <4>2. j # n
        BY <3>1, <4>1 DEF j
      <4>3. k + (h + 1) + 1 = j + 2
        BY <3>1, <4>1 DEF j
      <4> QED
        BY <3>1, <4>2, <4>3 DEF n
    <3>3. Calls(q)[j] = <<q[j]>> \o Calls(q)[j + 2]
      BY <1>6, <1>12, <1>15, <2>2, <3>2 DEF CallStep
    <3> QED
      BY <1>6, <1>11, <3>2, <3>3
  <2> QED
    BY <2>1, <2>2
<1> QED
  BY <1>5, <1>7, <1>13, <1>14, <1>15 DEF r

------------------------------------------------------------------------------
(* The order of the answers.                                               *)

\* The connection of c has not begun to be closed.
InService(c) ==
    /\ conn[c] # "gone"
    /\ \A w \in Workers : wconn[w] = c => wpc[w] \notin {"del", "close", "free"}

\* The responses r are those called for, e, but for a refusal at their end.
Fits(e, r) ==
    \A i \in 1..Len(r) :
        \/ i <= Len(e) /\ r[i] = e[i]
        \/ i = Len(r) /\ r[i] \in {"413", "431", "502"}

\* Of a stream that keeps to one kind of line end: what its first k pieces call for
\* is r; r fits it; y comes next.
Called(q, r, k) == OneLineEnd(q) => Calls(q)[1] = r \o Calls(q)[k + 1]
Fitting(q, r) == OneLineEnd(q) => Fits(Calls(q)[1], r)
Due(q, k, y) == OneLineEnd(q) => Len(Calls(q)[k + 1]) > 0 /\ y = Calls(q)[k + 1][1]

\* The script of c is cut at k, a and b: up to k it is answered, up to a it is in
\* the buffer, up to b with the kernel, and the rest is not sent.
CutAt(c, k, a, b) ==
    /\ k <= a /\ a <= b
    /\ inbuf[c] = SubSeq(script[c], k + 1, a)
    /\ rx[c] = SubSeq(script[c], a + 1, b)
    /\ unsent[c] = SubSeq(script[c], b + 1, Len(script[c]))
    /\ Called(script[c], replies[c], k)

InStep(c) == \E k, a, b \in 0..Len(script[c]) : CutAt(c, k, a, b)

StreamOf(c) ==
    IF script[c] = None THEN conn[c] = "none" /\ replies[c] = <<>>
    ELSE IF InService(c) THEN InStep(c)
    ELSE Fitting(script[c], replies[c])

StreamType ==
    /\ script \in [Clients -> Seq(Piece) \cup {None}]
    /\ unsent \in [Clients -> Seq(Piece)]
    /\ rx \in [Clients -> Seq(Piece)]
    /\ inbuf \in [Clients -> Seq(Piece)]
    /\ replies \in [Clients -> Seq(Reply)]

\* A worker that serves has a whole request in the buffer.
Parsed == \A w \in Workers : wpc[w] = "busy" => HasRequest(inbuf[wconn[w]])

StreamInv == StreamType /\ Parsed /\ \A c \in Clients : StreamOf(c)

LEMMA Begun == ASSUME NEW r \in Seq(Reply), NEW x \in Seq(Reply) PROVE Fits(r \o x, r)
  BY DEF Fits

LEMMA BegunAndOne ==
    ASSUME NEW r \in Seq(Reply), NEW x \in Seq(Reply), NEW y \in Reply,
           y \in {"413", "431", "502"} \/ (Len(x) > 0 /\ y = x[1])
    PROVE  Fits(r \o x, Append(r, y))
<1> DEFINE s == Append(r, y)
           e == r \o x
<1>1. Len(s) = Len(r) + 1 /\ Len(r) \in Nat /\ Len(x) \in Nat /\ Len(e) = Len(r) + Len(x)
  OBVIOUS
<1>2. \A i \in 1..Len(r) : s[i] = r[i] /\ e[i] = r[i]
  OBVIOUS
<1>3. s[Len(r) + 1] = y /\ (Len(x) > 0 => e[Len(r) + 1] = x[1])
  OBVIOUS
<1> HIDE DEF s, e
<1>4. Fits(e, s)
  <2> SUFFICES ASSUME NEW i \in 1..Len(s)
               PROVE  \/ i <= Len(e) /\ s[i] = e[i]
                      \/ i = Len(s) /\ s[i] \in {"413", "431", "502"}
    BY DEF Fits
  <2>1. i \in 1..Len(r) \/ i = Len(r) + 1
    BY <1>1
  <2>2. CASE i \in 1..Len(r)
    BY <1>1, <1>2, <2>2
  <2>3. CASE i = Len(r) + 1
    BY <1>1, <1>3, <2>3
  <2> QED
    BY <2>1, <2>2, <2>3
<1> QED
  BY <1>4 DEF s, e

\* A client whose connection is in service has its script and its answers so far.
LEMMA StepFacts ==
    ASSUME StreamType, NEW c \in Clients, script[c] # None, InStep(c)
    PROVE  /\ script[c] \in Seq(Piece) /\ Len(script[c]) \in Nat
           /\ \E k, a, b \in 0..Len(script[c]) : CutAt(c, k, a, b)
           /\ \A k \in 0..Len(script[c]) : Calls(script[c])[k + 1] \in Seq(Reply)
<1>1. script[c] \in Seq(Piece) /\ Len(script[c]) \in Nat
  BY DEF StreamType
<1>2. \A k \in 0..Len(script[c]) : k + 1 \in 1..(Len(script[c]) + 1)
  BY <1>1
<1> QED
  BY <1>1, <1>2, CallsType DEF InStep

\* Once the connection is being closed, its answers are as they should be if
\* the last step sent nothing, a refusal, or what came next.
LEMMA EndFits ==
    ASSUME StreamType, NEW c \in Clients, script[c] # None,
           NEW k \in 0..Len(script[c]),
           Called(script[c], replies[c], k),
           NEW y \in Reply,
           \/ y \in {"413", "431", "502"}
           \/ Due(script[c], k, y)
    PROVE  /\ Fitting(script[c], replies[c])
           /\ Fitting(script[c], Append(replies[c], y))
<1>1. script[c] \in Seq(Piece) /\ Len(script[c]) \in Nat /\ replies[c] \in Seq(Reply)
  BY DEF StreamType
<1>2. k + 1 \in 1..(Len(script[c]) + 1)
  BY <1>1
<1>3. Calls(script[c])[k + 1] \in Seq(Reply)
  BY <1>1, <1>2, CallsType
<1> SUFFICES ASSUME OneLineEnd(script[c])
             PROVE  /\ Fits(Calls(script[c])[1], replies[c])
                    /\ Fits(Calls(script[c])[1], Append(replies[c], y))
  BY DEF Fitting
<1> DEFINE x == Calls(script[c])[k + 1]
           r == replies[c]
<1>4. x \in Seq(Reply) /\ r \in Seq(Reply) /\ (y \in {"413", "431", "502"} \/ (Len(x) > 0 /\ y = x[1]))
  BY <1>1, <1>3 DEF Due
<1>5. Calls(script[c])[1] = r \o x
  BY DEF Called
<1> HIDE DEF x, r
<1>6. Fits(r \o x, r) /\ Fits(r \o x, Append(r, y))
  BY <1>4, Begun, BegunAndOne
<1> QED
  BY <1>5, <1>6 DEF r

LEMMA InStepFits ==
    ASSUME StreamType, NEW c \in Clients, script[c] # None, InStep(c)
    PROVE  Fitting(script[c], replies[c])
<1>1. PICK k \in 0..Len(script[c]), a \in 0..Len(script[c]), b \in 0..Len(script[c]) : CutAt(c, k, a, b)
  BY DEF InStep
<1>2. Called(script[c], replies[c], k)
  BY <1>1 DEF CutAt
<1>3. "413" \in Reply
  BY DEF Reply
<1> QED
  BY <1>2, <1>3, EndFits

\* A client that a step leaves alone, and whose connection it does not bring
\* back into service.
LEMMA SameClient ==
    ASSUME StreamInv, NEW c \in Clients,
           script' = script, unsent'[c] = unsent[c], rx'[c] = rx[c],
           inbuf'[c] = inbuf[c], replies'[c] = replies[c],
           InService(c)' => InService(c),
           script[c] = None => conn'[c] = "none"
    PROVE  StreamOf(c)'
<1>1. StreamType /\ StreamOf(c)
  BY DEF StreamInv
<1>2. CASE script[c] = None
  BY <1>1, <1>2, Zenon DEF StreamOf
<1>3. CASE script[c] # None /\ ~InService(c)
  <2>1. Fitting(script[c], replies[c])
    BY <1>1, <1>3, Zenon DEF StreamOf
  <2>2. ~InService(c)'
    BY <1>3
  <2>3. script'[c] # None /\ Fitting(script'[c], replies'[c])
    BY <1>3, <2>1
  <2> QED
    BY <2>2, <2>3, Zenon DEF StreamOf
<1>4. CASE script[c] # None /\ InService(c)
  <2>1. InStep(c)
    BY <1>1, <1>4, Zenon DEF StreamOf
  <2>2. script'[c] # None
    BY <1>4
  <2>3. Fitting(script'[c], replies'[c])
    <3>1. Fitting(script[c], replies[c])
      BY <1>1, <1>4, <2>1, InStepFits
    <3> QED
      BY <3>1
  <2>4. InStep(c)'
    BY <2>1 DEF InStep, CutAt
  <2> QED
    BY <2>2, <2>3, <2>4, Zenon DEF StreamOf
<1> QED
  BY <1>2, <1>3, <1>4

\* A connection that is being closed stays so until it is gone.
LEMMA ClosingStays ==
    ASSUME \A c \in Clients : conn[c] = "gone" => conn'[c] = "gone",
           \A w \in Workers : wpc[w] \in {"del", "close", "free"} =>
               \/ conn'[wconn[w]] = "gone"
               \/ wconn'[w] = wconn[w] /\ wpc'[w] \in {"del", "close", "free"},
           NEW c \in Clients, InService(c)'
    PROVE  InService(c)
  BY DEF InService

\* A step that moves no piece and answers nothing.
LEMMA QuietStream ==
    ASSUME StreamInv, UNCHANGED <<script, unsent, rx, inbuf, replies>>,
           \A c \in Clients : conn[c] = "gone" => conn'[c] = "gone",
           \A w \in Workers : wpc[w] \in {"del", "close", "free"} =>
               \/ conn'[wconn[w]] = "gone"
               \/ wconn'[w] = wconn[w] /\ wpc'[w] \in {"del", "close", "free"},
           \A w \in Workers : wpc'[w] = "busy" => HasRequest(inbuf[wconn'[w]]),
           \A c \in Clients : script[c] = None /\ conn[c] = "none" => conn'[c] = "none"
    PROVE  StreamInv'
<1>1. StreamType /\ \A c \in Clients : StreamOf(c)
  BY DEF StreamInv
<1>2. StreamType'
  BY <1>1 DEF StreamType
<1>3. Parsed'
  BY DEF Parsed
<1>4. ASSUME NEW c \in Clients PROVE StreamOf(c)'
  <2>1. InService(c)' => InService(c)
    BY ClosingStays
  <2>2. script[c] = None => conn'[c] = "none"
    BY <1>1 DEF StreamOf
  <2>3. script' = script /\ unsent'[c] = unsent[c] /\ rx'[c] = rx[c]
        /\ inbuf'[c] = inbuf[c] /\ replies'[c] = replies[c]
    OBVIOUS
  <2> QED
    BY <2>1, <2>2, <2>3, SameClient
<1> QED
  BY <1>2, <1>3, <1>4 DEF StreamInv

\* At first a stream is all to send and nothing is answered.
LEMMA InitStream == Init => StreamInv
<1> SUFFICES ASSUME Init PROVE StreamInv
  OBVIOUS
<1>0. /\ script \in Scripts
      /\ unsent = [c \in Clients |-> IF script[c] = None THEN <<>> ELSE script[c]]
      /\ rx = [c \in Clients |-> <<>>] /\ inbuf = [c \in Clients |-> <<>>]
      /\ conn = [c \in Clients |-> "none"] /\ replies = [c \in Clients |-> <<>>]
      /\ wpc = [w \in Workers |-> "idle"]
  BY DEF Init
<1>1. script \in [Clients -> Seq(Piece) \cup {None}]
  BY <1>0, ScriptAssumption
<1>2. StreamType
  BY <1>0, <1>1 DEF StreamType
<1>3. Parsed
  BY <1>0 DEF Parsed
<1>4. ASSUME NEW c \in Clients PROVE StreamOf(c)
  <2>1. CASE script[c] = None
    BY <1>0, <2>1 DEF StreamOf
  <2>2. CASE script[c] # None
    <3> DEFINE q == script[c]
    <3>1. q \in Seq(Piece) /\ Len(q) \in Nat /\ 0 \in 0..Len(q) /\ 1 \in 1..(Len(q) + 1)
      BY <1>1, <2>2
    <3>2. inbuf[c] = <<>> /\ rx[c] = <<>> /\ unsent[c] = q /\ replies[c] = <<>>
      BY <1>0, <2>2
    <3>3. InService(c)
      BY <1>0 DEF InService
    <3> HIDE DEF q
    <3>4. SubSeq(q, 0 + 1, 0) = <<>> /\ SubSeq(q, 0 + 1, Len(q)) = q
      BY <3>1
    <3>5. Calls(q)[0 + 1] \in Seq(Reply)
      BY <3>1, CallsType
    <3>6. Calls(q)[1] = <<>> \o Calls(q)[0 + 1]
      <4> DEFINE x == Calls(q)[1]
      <4>1. 0 + 1 = 1
        OBVIOUS
      <4>2. x \in Seq(Reply)
        BY <3>5, <4>1
      <4> HIDE DEF x
      <4>3. x = <<>> \o x
        BY <4>2
      <4> QED
        BY <4>1, <4>3 DEF x
    <3>7. CutAt(c, 0, 0, 0)
      BY <3>1, <3>2, <3>4, <3>6 DEF CutAt, Called, q
    <3>8. InStep(c)
      BY <3>1, <3>7 DEF InStep, q
    <3> QED
      BY <2>2, <3>3, <3>8 DEF StreamOf
  <2> QED
    BY <2>1, <2>2
<1> QED
  BY <1>2, <1>3, <1>4 DEF StreamInv

\* The first piece of what is cut off at a goes to the part before it.
LEMMA CutMoves ==
    ASSUME NEW q \in Seq(Piece), NEW k \in 0..Len(q), NEW a \in 0..Len(q), NEW b \in 0..Len(q),
           k <= a, a <= b, SubSeq(q, a + 1, b) # <<>>
    PROVE  /\ a + 1 \in 0..Len(q) /\ a + 1 <= b
           /\ Append(SubSeq(q, k + 1, a), Head(SubSeq(q, a + 1, b))) = SubSeq(q, k + 1, a + 1)
           /\ Tail(SubSeq(q, a + 1, b)) = SubSeq(q, (a + 1) + 1, b)
<1> DEFINE s == SubSeq(q, a + 1, b)
           p == SubSeq(q, k + 1, a)
           p2 == SubSeq(q, k + 1, a + 1)
           s2 == SubSeq(q, (a + 1) + 1, b)
<1>1. Len(q) \in Nat /\ k \in Nat /\ a \in Nat /\ b \in Nat
  OBVIOUS
<1>2. s \in Seq(Piece) /\ Len(s) = b - a /\ \A i \in 1..Len(s) : s[i] = q[a + i]
  OBVIOUS
<1>3. a < b
  BY <1>1, <1>2
<1>4. a + 1 \in 0..Len(q) /\ a + 1 <= b
  BY <1>1, <1>3
<1>5. /\ p \in Seq(Piece) /\ Len(p) = a - k /\ \A i \in 1..Len(p) : p[i] = q[k + i]
      /\ p2 \in Seq(Piece) /\ Len(p2) = a + 1 - k /\ \A i \in 1..Len(p2) : p2[i] = q[k + i]
      /\ s2 \in Seq(Piece) /\ Len(s2) = b - (a + 1) /\ \A i \in 1..Len(s2) : s2[i] = q[(a + 1) + i]
  BY <1>1, <1>4
<1> HIDE DEF s, p, p2, s2
<1>6. Head(s) = q[a + 1] /\ Head(s) \in Piece
  BY <1>1, <1>2, <1>3
<1>7. Append(p, Head(s)) = p2
  <2> DEFINE z == Append(p, Head(s))
  <2>1. z \in Seq(Piece) /\ Len(z) = Len(p) + 1 /\ z[Len(p) + 1] = Head(s)
        /\ \A i \in 1..Len(p) : z[i] = p[i]
    <3>1. p \in Seq(Piece)
      BY <1>5
    <3> QED
      BY <1>6, <3>1
  <2> HIDE DEF z
  <2>2. Len(p) + 1 = a + 1 - k /\ Len(p) \in Nat /\ k + (Len(p) + 1) = a + 1
    BY <1>1, <1>5
  <2>3. ASSUME NEW i \in 1..Len(z) PROVE z[i] = p2[i]
    <3>1. i \in 1..Len(p) \/ i = Len(p) + 1
      BY <2>1, <2>2
    <3>2. i \in 1..Len(p2)
      BY <1>5, <2>1, <2>2
    <3> QED
      BY <1>5, <1>6, <2>1, <2>2, <3>1, <3>2
  <2>4. Len(z) = Len(p2)
    BY <1>5, <2>1, <2>2
  <2>5. z = p2
    BY <1>5, <2>1, <2>3, <2>4, SMTT(60)
  <2> QED
    BY <2>5 DEF z
<1>8. Tail(s) = s2
  <2> DEFINE t == Tail(s)
  <2>1. t \in Seq(Piece) /\ Len(t) = Len(s) - 1 /\ \A i \in 1..Len(t) : t[i] = s[i + 1]
    BY <1>1, <1>2, <1>3
  <2> HIDE DEF t
  <2>2. Len(t) = Len(s2)
    BY <1>1, <1>2, <1>5, <2>1
  <2>3. ASSUME NEW i \in 1..Len(t) PROVE t[i] = s2[i]
    <3>1. i + 1 \in 1..Len(s) /\ a + (i + 1) = (a + 1) + i /\ i \in 1..Len(s2)
      BY <1>1, <1>2, <1>3, <2>1, <2>2
    <3> QED
      <4>1. t[i] = s[i + 1]
        BY <2>1
      <4>2. s[i + 1] = q[a + (i + 1)]
        BY <1>2, <3>1
      <4>3. s2[i] = q[(a + 1) + i]
        BY <1>5, <3>1
      <4> QED
        BY <3>1, <4>1, <4>2, <4>3, Zenon
  <2>4. t = s2
    <3>1. s2 \in Seq(Piece) /\ t \in Seq(Piece)
      BY <1>5, <2>1
    <3> QED
      BY <2>2, <2>3, <3>1
  <2> QED
    BY <2>4 DEF t
<1> QED
  BY <1>4, <1>7, <1>8 DEF s, p, p2, s2

\* A client sends a piece.
LEMMA SendStream == ASSUME IndInv, StreamInv, NEW c \in Clients, Send(c) PROVE StreamInv'
<1>0. /\ unsent[c] # <<>>
      /\ rx' = [rx EXCEPT ![c] = Append(rx[c], Head(unsent[c]))]
      /\ unsent' = [unsent EXCEPT ![c] = Tail(unsent[c])]
      /\ UNCHANGED <<script, conn, inbuf, replies, wpc, wconn>>
      /\ conn[c] # "none"
  BY DEF Send, Open, objects, pool
<1>1. StreamType /\ Parsed /\ \A d \in Clients : StreamOf(d)
  BY DEF StreamInv
<1>2. Parsed'
  BY <1>0, <1>1 DEF Parsed
<1>3. StreamType'
  <2>1. unsent[c] \in Seq(Piece) /\ rx[c] \in Seq(Piece)
    BY <1>1 DEF StreamType
  <2>2. Head(unsent[c]) \in Piece /\ Tail(unsent[c]) \in Seq(Piece)
    BY <1>0, <2>1
  <2>3. Append(rx[c], Head(unsent[c])) \in Seq(Piece)
    BY <2>1, <2>2
  <2> QED
    BY <1>0, <1>1, <2>2, <2>3 DEF StreamType
<1>4. \A d \in Clients : InService(d)' <=> InService(d)
  BY <1>0 DEF InService
<1>5. script[c] # None
  BY <1>0, <1>1 DEF StreamOf
<1>6. StreamOf(c)'
  <2>1. CASE ~InService(c)
    BY <1>0, <1>1, <1>4, <1>5, <2>1 DEF StreamOf
  <2>2. CASE InService(c)
    <3> DEFINE q == script[c]
    <3>1. InStep(c)
      BY <1>1, <1>5, <2>2 DEF StreamOf
    <3>2. PICK k \in 0..Len(q), a \in 0..Len(q), b \in 0..Len(q) : CutAt(c, k, a, b)
      BY <3>1 DEF InStep
    <3>3. q \in Seq(Piece) /\ Len(q) \in Nat /\ Len(q) \in 0..Len(q) /\ b <= Len(q)
      BY <1>1, <1>5 DEF StreamType
    <3>4. /\ k <= a /\ a <= b /\ inbuf[c] = SubSeq(q, k + 1, a)
          /\ rx[c] = SubSeq(q, a + 1, b) /\ unsent[c] = SubSeq(q, b + 1, Len(q))
          /\ Called(q, replies[c], k)
      BY <3>2 DEF CutAt
    <3>5. /\ b + 1 \in 0..Len(q) /\ b <= b + 1
          /\ Append(rx[c], Head(unsent[c])) = SubSeq(q, a + 1, b + 1)
          /\ Tail(unsent[c]) = SubSeq(q, (b + 1) + 1, Len(q))
      <4>1. a <= b /\ b <= Len(q) /\ SubSeq(q, b + 1, Len(q)) # <<>>
        BY <1>0, <3>3, <3>4
      <4>2. /\ b + 1 \in 0..Len(q) /\ b + 1 <= Len(q)
            /\ Append(SubSeq(q, a + 1, b), Head(SubSeq(q, b + 1, Len(q)))) = SubSeq(q, a + 1, b + 1)
            /\ Tail(SubSeq(q, b + 1, Len(q))) = SubSeq(q, (b + 1) + 1, Len(q))
        <5> HIDE DEF q
        <5> QED
          BY <3>3, <4>1, CutMoves
      <4> QED
        BY <3>3, <3>4, <4>2, SMTT(60)
    <3>6. /\ script'[c] = q /\ inbuf'[c] = inbuf[c] /\ replies'[c] = replies[c]
          /\ rx'[c] = SubSeq(q, a + 1, b + 1)
          /\ unsent'[c] = SubSeq(q, (b + 1) + 1, Len(q))
      BY <1>0, <1>1, <3>5 DEF StreamType
    <3>7. a <= b + 1
      BY <3>3, <3>4, <3>5
    <3> HIDE DEF q
    <3>8. /\ k <= a /\ a <= b + 1
          /\ inbuf'[c] = SubSeq(script'[c], k + 1, a)
          /\ rx'[c] = SubSeq(script'[c], a + 1, b + 1)
          /\ unsent'[c] = SubSeq(script'[c], (b + 1) + 1, Len(script'[c]))
          /\ Called(script'[c], replies'[c], k)
      BY <3>4, <3>6, <3>7
    <3>9. \E k2, a2, b2 \in 0..Len(script'[c]) : CutAt(c, k2, a2, b2)'
      BY <3>5, <3>6, <3>8 DEF CutAt
    <3> QED
      BY <1>0, <1>4, <1>5, <2>2, <3>9 DEF StreamOf, InStep
  <2> QED
    BY <2>1, <2>2
<1>7. ASSUME NEW d \in Clients, d # c PROVE StreamOf(d)'
  <2>1. script' = script /\ unsent'[d] = unsent[d] /\ rx'[d] = rx[d]
        /\ inbuf'[d] = inbuf[d] /\ replies'[d] = replies[d]
    BY <1>0, <1>1, <1>7 DEF StreamType
  <2>2. script[d] = None => conn'[d] = "none"
    BY <1>0, <1>1 DEF StreamOf
  <2> QED
    BY <1>4, <2>1, <2>2, SameClient
<1> QED
  BY <1>2, <1>3, <1>6, <1>7 DEF StreamInv

\* The connection a worker reads, parses or answers is in service, and its
\* descriptor is its own client's.
LEMMA ServedClient ==
    ASSUME IndInv, StreamInv, NEW w \in Workers,
           wpc[w] \in {"recv", "serve", "busy", "after", "rearm"}
    PROVE  /\ wconn[w] \in Clients /\ InService(wconn[w]) /\ script[wconn[w]] # None
           /\ InStep(wconn[w]) /\ sock[fd[wconn[w]]] = wconn[w]
           /\ conn[wconn[w]] = "live"
           /\ \A v \in Workers : wconn[v] = wconn[w] => v = w
<1>1. /\ wconn[w] \in Clients /\ conn[wconn[w]] = "live"
      /\ \A v \in Workers : wconn[v] = wconn[w] => v = w
  BY WorkersConn
<1>2. InService(wconn[w])
  BY <1>1 DEF InService
<1>3. StreamOf(wconn[w])
  BY <1>1 DEF StreamInv
<1>4. script[wconn[w]] # None
  BY <1>1, <1>3 DEF StreamOf
<1>5. InStep(wconn[w])
  BY <1>2, <1>3, <1>4 DEF StreamOf
<1>6. ~Closed(wconn[w])
  BY <1>1 DEF Closed
<1>7. sock[fd[wconn[w]]] = wconn[w]
  BY <1>1, <1>6 DEF IndInv, Descriptors
<1> QED
  BY <1>1, <1>2, <1>4, <1>5, <1>7

\* A step of a worker on its own connection.
LEMMA WorkerStream ==
    ASSUME IndInv, StreamInv, NEW w \in Workers, NEW c \in Clients, c = wconn[w],
           NEW p \in WorkerPC, wpc[w] \in {"recv", "serve", "busy"},
           UNCHANGED <<script, unsent, conn, wconn>>,
           wpc' = [wpc EXCEPT ![w] = p],
           \A d \in Clients : d # c =>
               rx'[d] = rx[d] /\ inbuf'[d] = inbuf[d] /\ replies'[d] = replies[d],
           StreamType', StreamOf(c)',
           p = "busy" => HasRequest(inbuf'[c])
    PROVE  StreamInv'
<1>1. conn[c] = "live" /\ \A v \in Workers : wconn[v] = c => v = w
  BY ServedClient
<1>2. StreamType /\ Parsed /\ (\A d \in Clients : StreamOf(d)) /\ wpc \in [Workers -> WorkerPC]
      /\ wconn \in [Workers -> Clients \cup {None}]
      /\ \A v \in Workers : wpc[v] \in {"idle", "exited"} <=> wconn[v] = None
  BY DEF StreamInv, IndInv, OwnersType, Control
<1>3. wpc'[w] = p /\ \A v \in Workers : v # w => wpc'[v] = wpc[v]
  BY <1>2
<1>4. ASSUME NEW v \in Workers, wpc'[v] = "busy" PROVE HasRequest(inbuf'[wconn[v]])
  <2>1. CASE v = w
    BY <1>3, <1>4, <2>1
  <2>2. CASE v # w
    <3>1. wpc[v] = "busy" /\ wconn[v] # c
      BY <1>1, <1>3, <1>4, <2>2
    <3>2. wconn[v] \in Clients
      BY <1>2, <3>1
    <3>3. inbuf'[wconn[v]] = inbuf[wconn[v]]
      BY <3>1, <3>2
    <3> QED
      BY <1>2, <3>1, <3>3 DEF Parsed
  <2> QED
    BY <2>1, <2>2
<1>5. Parsed'
  BY <1>4 DEF Parsed
<1>6. ASSUME NEW d \in Clients, d # c PROVE StreamOf(d)'
  <2>1. script' = script /\ unsent'[d] = unsent[d] /\ rx'[d] = rx[d]
        /\ inbuf'[d] = inbuf[d] /\ replies'[d] = replies[d]
    BY <1>6
  <2>2. script[d] = None => conn'[d] = "none"
    BY <1>2 DEF StreamOf
  <2>3. InService(d)' => InService(d)
    <3>1. \A v \in Workers : wconn[v] = d => v # w
      BY <1>6
    <3> QED
      BY <1>3, <3>1 DEF InService
  <2> QED
    BY <2>1, <2>2, <2>3, SameClient
<1>7. \A d \in Clients : StreamOf(d)'
  BY <1>6, Zenon
<1> QED
  BY <1>5, <1>7 DEF StreamInv

\* The worker leaves a connection that it has answered for the last time.
LEMMA LastAnswer ==
    ASSUME IndInv, StreamInv, NEW w \in Workers, NEW c \in Clients, c = wconn[w],
           wpc[w] \in {"recv", "serve", "busy"},
           script' = script, wconn' = wconn, wpc' = [wpc EXCEPT ![w] = "del"],
           Fitting(script[c], replies'[c])
    PROVE  StreamOf(c)'
<1>1. script[c] # None
  BY ServedClient
<1>2. wpc'[w] = "del"
  BY DEF IndInv, OwnersType
<1>3. ~InService(c)'
  BY <1>2 DEF InService
<1>4. script'[c] # None /\ Fitting(script'[c], replies'[c])
  BY <1>1
<1> QED
  BY <1>3, <1>4, Zenon DEF StreamOf

\* The worker keeps the connection: its script is cut further on.
LEMMA KeptInStep ==
    ASSUME IndInv, StreamInv, NEW w \in Workers, NEW c \in Clients, c = wconn[w],
           wpc[w] \in {"recv", "serve", "busy"},
           script' = script, wconn' = wconn, conn' = conn,
           NEW p \in {"recv", "serve"}, wpc' = [wpc EXCEPT ![w] = p],
           NEW k \in 0..Len(script[c]), NEW a \in 0..Len(script[c]),
           NEW b \in 0..Len(script[c]), k <= a, a <= b,
           inbuf'[c] = SubSeq(script[c], k + 1, a),
           rx'[c] = SubSeq(script[c], a + 1, b),
           unsent'[c] = SubSeq(script[c], b + 1, Len(script[c])),
           Called(script[c], replies'[c], k)
    PROVE  StreamOf(c)'
<1>1. /\ script[c] # None /\ conn[c] = "live"
      /\ \A v \in Workers : wconn[v] = c => v = w
  BY ServedClient
<1>2. wpc'[w] = p
  BY DEF IndInv, OwnersType
<1>3. InService(c)'
  BY <1>1, <1>2 DEF InService
<1>4. CutAt(c, k, a, b)'
  BY DEF CutAt
<1>5. InStep(c)'
  BY <1>4 DEF InStep
<1>6. script'[c] # None
  BY <1>1
<1> QED
  BY <1>3, <1>5, <1>6, Zenon DEF StreamOf

\* Of a reply that reaches the client, or not when it has reset the connection.
LEMMA AnswerIs ==
    ASSUME StreamType, NEW c \in Clients, NEW y \in Reply, Answer(c, y)
    PROVE  /\ replies' \in [Clients -> Seq(Reply)]
           /\ \A d \in Clients : d # c => replies'[d] = replies[d]
           /\ replies'[c] = replies[c] \/ replies'[c] = Append(replies[c], y)
           /\ c \notin rst => replies'[c] = Append(replies[c], y)
<1>1. replies \in [Clients -> Seq(Reply)] /\ replies[c] \in Seq(Reply)
  BY DEF StreamType
<1>2. Append(replies[c], y) \in Seq(Reply)
  BY <1>1
<1> QED
  BY <1>1, <1>2 DEF Answer

\* recv moves a piece from the kernel to the buffer of the same connection, or
\* finds nothing.
LEMMA RecvStream == ASSUME IndInv, StreamInv, NEW w \in Workers, Recv(w) PROVE StreamInv'
<1>0. wpc[w] = "recv"
  BY DEF Recv
<1>1. PICK c \in Clients : c = wconn[w]
  BY <1>0, ServedClient
<1>2. /\ sock[fd[c]] = c /\ script[c] # None /\ InStep(c)
  BY <1>0, <1>1, ServedClient
<1>3. UNCHANGED <<script, unsent, conn, wconn>>
  BY DEF Recv, loop
<1>4. \/ /\ rx[c] # <<>>
         /\ inbuf' = [inbuf EXCEPT ![c] = Append(inbuf[c], Head(rx[c]))]
         /\ rx' = [rx EXCEPT ![c] = Tail(rx[c])]
         /\ \/ wpc' = [wpc EXCEPT ![w] = "del"] /\ Answer(c, "413")
            \/ UNCHANGED <<wpc, replies>>
      \/ /\ wpc' = [wpc EXCEPT ![w] = "del"] \/ wpc' = [wpc EXCEPT ![w] = "serve"]
         /\ UNCHANGED <<inbuf, rx, replies>>
  BY <1>1, <1>2 DEF Recv, Goto
<1>5. StreamType /\ Parsed /\ wpc \in [Workers -> WorkerPC]
  BY DEF StreamInv, IndInv, OwnersType
<1>6. CASE /\ wpc' = [wpc EXCEPT ![w] = "del"] \/ wpc' = [wpc EXCEPT ![w] = "serve"]
           /\ UNCHANGED <<inbuf, rx, replies>>
  <2>1. \A v \in Workers : v # w => wpc'[v] = wpc[v]
    BY <1>5, <1>6
  <2>2. wpc'[w] \in {"del", "serve"}
    BY <1>5, <1>6
  <2>3. \A v \in Workers : wpc'[v] = "busy" => HasRequest(inbuf[wconn'[v]])
    BY <1>3, <1>5, <2>1, <2>2 DEF Parsed
  <2>4. \A v \in Workers : wpc[v] \in {"del", "close", "free"} =>
            wconn'[v] = wconn[v] /\ wpc'[v] \in {"del", "close", "free"}
    BY <1>0, <1>3, <2>1
  <2> QED
    BY <1>3, <1>6, <2>3, <2>4, QuietStream
<1>7. CASE /\ rx[c] # <<>>
           /\ inbuf' = [inbuf EXCEPT ![c] = Append(inbuf[c], Head(rx[c]))]
           /\ rx' = [rx EXCEPT ![c] = Tail(rx[c])]
           /\ \/ wpc' = [wpc EXCEPT ![w] = "del"] /\ Answer(c, "413")
              \/ UNCHANGED <<wpc, replies>>
  <2> DEFINE q == script[c]
  <2>1. PICK k \in 0..Len(q), a \in 0..Len(q), b \in 0..Len(q) : CutAt(c, k, a, b)
    BY <1>2 DEF InStep
  <2>2. q \in Seq(Piece) /\ Len(q) \in Nat
    BY <1>2, <1>5 DEF StreamType
  <2>3. /\ k <= a /\ a <= b /\ inbuf[c] = SubSeq(q, k + 1, a)
        /\ rx[c] = SubSeq(q, a + 1, b) /\ unsent[c] = SubSeq(q, b + 1, Len(q))
        /\ Called(q, replies[c], k)
    BY <2>1 DEF CutAt
  <2>4. SubSeq(q, a + 1, b) # <<>>
    BY <1>7, <2>3
  <2>5. /\ a + 1 \in 0..Len(q) /\ a + 1 <= b
        /\ Append(SubSeq(q, k + 1, a), Head(SubSeq(q, a + 1, b))) = SubSeq(q, k + 1, a + 1)
        /\ Tail(SubSeq(q, a + 1, b)) = SubSeq(q, (a + 1) + 1, b)
    <3> HIDE DEF q
    <3> QED
      BY <2>2, <2>3, <2>4, CutMoves
  <2>6. inbuf'[c] = SubSeq(q, k + 1, a + 1) /\ rx'[c] = SubSeq(q, (a + 1) + 1, b)
    BY <1>5, <1>7, <2>3, <2>5 DEF StreamType
  <2>7. \A d \in Clients : d # c => rx'[d] = rx[d] /\ inbuf'[d] = inbuf[d]
    BY <1>5, <1>7 DEF StreamType
  <2>8. inbuf' \in [Clients -> Seq(Piece)] /\ rx' \in [Clients -> Seq(Piece)]
    <3>1. rx[c] \in Seq(Piece) /\ inbuf[c] \in Seq(Piece)
      BY <1>5 DEF StreamType
    <3>2. Head(rx[c]) \in Piece /\ Tail(rx[c]) \in Seq(Piece)
      BY <1>7, <3>1
    <3>3. Append(inbuf[c], Head(rx[c])) \in Seq(Piece)
      BY <3>1, <3>2
    <3> QED
      BY <1>5, <1>7, <3>2, <3>3 DEF StreamType
  <2>9. CASE UNCHANGED <<wpc, replies>>
    <3>1. StreamType'
      BY <1>3, <1>5, <2>8, <2>9 DEF StreamType
    <3>2. "recv" \in {"recv", "serve"} /\ "recv" \in WorkerPC
      BY DEF WorkerPC
    <3>3. wpc' = [wpc EXCEPT ![w] = "recv"]
      BY <1>0, <1>5, <2>9
    <3>4. k <= a + 1
      BY <2>2, <2>3
    <3>5. unsent'[c] = SubSeq(q, b + 1, Len(q))
          /\ Called(q, replies'[c], k)
      BY <1>3, <2>3, <2>9
    <3>6. StreamOf(c)'
      BY <1>0, <1>1, <1>3, <2>5, <2>6, <3>2, <3>3, <3>4, <3>5, KeptInStep
    <3>7. \A d \in Clients : d # c =>
              rx'[d] = rx[d] /\ inbuf'[d] = inbuf[d] /\ replies'[d] = replies[d]
      BY <2>7, <2>9
    <3> QED
      BY <1>0, <1>1, <1>3, <3>1, <3>2, <3>3, <3>6, <3>7, WorkerStream
  <2>10. CASE wpc' = [wpc EXCEPT ![w] = "del"] /\ Answer(c, "413")
    <3>1. "413" \in Reply /\ "del" \in WorkerPC
      BY DEF Reply, WorkerPC
    <3>2. /\ replies' \in [Clients -> Seq(Reply)]
          /\ \A d \in Clients : d # c => replies'[d] = replies[d]
          /\ replies'[c] = replies[c] \/ replies'[c] = Append(replies[c], "413")
      BY <1>5, <2>10, <3>1, AnswerIs
    <3>3. StreamType'
      BY <1>3, <1>5, <2>8, <3>2 DEF StreamType
    <3>4. Fitting(q, replies[c]) /\ Fitting(q, Append(replies[c], "413"))
      BY <1>2, <1>5, <2>3, <3>1, EndFits
    <3>5. Fitting(script[c], replies'[c])
      BY <3>2, <3>4
    <3>6. StreamOf(c)'
      BY <1>0, <1>1, <1>3, <2>10, <3>5, LastAnswer
    <3>7. \A d \in Clients : d # c =>
              rx'[d] = rx[d] /\ inbuf'[d] = inbuf[d] /\ replies'[d] = replies[d]
      BY <2>7, <3>2
    <3> QED
      BY <1>0, <1>1, <1>3, <2>10, <3>1, <3>3, <3>6, <3>7, WorkerStream
  <2> QED
    BY <1>7, <2>9, <2>10
<1> QED
  BY <1>4, <1>6, <1>7

\* A worker that answers y, and no more: a refusal or what comes next.
LEMMA RefusalStream ==
    ASSUME IndInv, StreamInv, NEW w \in Workers, NEW c \in Clients, c = wconn[w],
           wpc[w] \in {"serve", "busy"}, wpc' = [wpc EXCEPT ![w] = "del"],
           UNCHANGED <<script, unsent, rx, conn, wconn>>,
           inbuf' \in [Clients -> Seq(Piece)],
           \A d \in Clients : d # c => inbuf'[d] = inbuf[d],
           NEW y \in Reply, Answer(c, y) \/ replies' = replies,
           NEW k \in 0..Len(script[c]),
           Called(script[c], replies[c], k),
           \/ y \in {"413", "431", "502"}
           \/ Due(script[c], k, y)
    PROVE  StreamInv'
<1>1. StreamType
  BY DEF StreamInv
<1>2. script[c] # None
  BY ServedClient
<1>3. /\ replies' \in [Clients -> Seq(Reply)]
      /\ \A d \in Clients : d # c => replies'[d] = replies[d]
      /\ replies'[c] = replies[c] \/ replies'[c] = Append(replies[c], y)
  <2>1. CASE Answer(c, y)
    BY <1>1, <2>1, AnswerIs
  <2>2. CASE replies' = replies
    BY <1>1, <2>2 DEF StreamType
  <2> QED
    BY <2>1, <2>2
<1>4. StreamType'
  BY <1>1, <1>3 DEF StreamType
<1>5. /\ Fitting(script[c], replies[c])
      /\ Fitting(script[c], Append(replies[c], y))
  BY <1>1, <1>2, EndFits
<1>6. Fitting(script[c], replies'[c])
  BY <1>3, <1>5
<1>7. StreamOf(c)'
  BY <1>6, LastAnswer
<1>8. "del" \in WorkerPC
  BY DEF WorkerPC
<1>9. \A d \in Clients : d # c =>
          rx'[d] = rx[d] /\ inbuf'[d] = inbuf[d] /\ replies'[d] = replies[d]
  BY <1>3
<1> QED
  BY <1>4, <1>7, <1>8, <1>9, WorkerStream

\* The serve loop looks at the buffer: nothing moves, and what it refuses is what
\* the stream calls for next.
LEMMA ParseStream == ASSUME IndInv, StreamInv, NEW w \in Workers, Parse(w) PROVE StreamInv'
<1>0. wpc[w] = "serve" /\ UNCHANGED <<script, unsent, rx, conn, inbuf, wconn>>
  BY DEF Parse, kernel, objects
<1>1. PICK c \in Clients : c = wconn[w]
  BY <1>0, ServedClient
<1>2. script[c] # None /\ InStep(c)
  BY <1>0, <1>1, ServedClient
<1>3. StreamType /\ Parsed /\ wpc \in [Workers -> WorkerPC]
  BY DEF StreamInv, IndInv, OwnersType
<1>4. PICK k \in 0..Len(script[c]), a \in 0..Len(script[c]), b \in 0..Len(script[c]) :
          CutAt(c, k, a, b)
  BY <1>2 DEF InStep
<1>5. /\ script[c] \in Seq(Piece) /\ a \in k..Len(script[c])
      /\ inbuf[c] = SubSeq(script[c], k + 1, a)
      /\ Called(script[c], replies[c], k)
  BY <1>2, <1>3, <1>4 DEF CutAt, StreamType
<1> DEFINE p == inbuf[c]
<1>6. HasHeader(p) => /\ OneLineEnd(script[c]) /\ Request(p) = "bad" =>
                            Calls(script[c])[k + 1] = <<"400">>
                      /\ Need(p) \in Nat
  BY <1>5, FrontIsCalled, Zenon
<1>7. Len(p) \in Nat
  BY <1>3 DEF StreamType
<1>8. \/ wpc' = [wpc EXCEPT ![w] = "del"] /\ Answer(c, "431")
      \/ /\ HasHeader(p) /\ Request(p) = "bad"
         /\ wpc' = [wpc EXCEPT ![w] = "del"] /\ Answer(c, "400")
      \/ replies' = replies /\ wpc' = [wpc EXCEPT ![w] = "after"]
      \/ replies' = replies /\ wpc' = [wpc EXCEPT ![w] = "busy"]
         /\ HasHeader(p) /\ Request(p) # "bad" /\ ~(Len(p) < Need(p))
  BY <1>1 DEF Parse, Goto
<1>9. /\ inbuf' \in [Clients -> Seq(Piece)] /\ wpc[w] \in {"serve", "busy"}
      /\ \A d \in Clients : d # c => inbuf'[d] = inbuf[d]
      /\ "431" \in Reply /\ "400" \in Reply /\ "431" \in {"413", "431", "502"}
  BY <1>0, <1>3 DEF StreamType, Reply
<1> HIDE DEF p
<1>10. CASE wpc' = [wpc EXCEPT ![w] = "del"] /\ Answer(c, "431")
  BY <1>0, <1>1, <1>5, <1>9, <1>10, RefusalStream
<1>11. CASE /\ HasHeader(p) /\ Request(p) = "bad"
            /\ wpc' = [wpc EXCEPT ![w] = "del"] /\ Answer(c, "400")
  <2>1. OneLineEnd(script[c]) => Calls(script[c])[k + 1] = <<"400">>
    BY <1>6, <1>11
  <2>2. Len(<<"400">>) > 0 /\ <<"400">>[1] = "400"
    OBVIOUS
  <2>3. Due(script[c], k, "400")
    BY <2>1, <2>2, Zenon DEF Due
  <2> QED
    BY <1>0, <1>1, <1>5, <1>9, <1>11, <2>3, RefusalStream
<1>12. CASE \/ replies' = replies /\ wpc' = [wpc EXCEPT ![w] = "after"]
            \/ replies' = replies /\ wpc' = [wpc EXCEPT ![w] = "busy"]
               /\ HasHeader(p) /\ Request(p) # "bad" /\ ~(Len(p) < Need(p))
  <2>1. (\A v \in Workers : v # w => wpc'[v] = wpc[v]) /\ wpc'[w] \in {"after", "busy"}
    BY <1>3, <1>12
  <2>2. wpc'[w] = "busy" => HasRequest(inbuf[c])
    <3>1. wpc'[w] = "busy" => HasHeader(p) /\ Request(p) # "bad" /\ ~(Len(p) < Need(p))
      BY <1>3, <1>12
    <3>2. ASSUME HasHeader(p), Request(p) # "bad", ~(Len(p) < Need(p)) PROVE HasRequest(p)
      <4>1. Len(p) >= Need(p)
        BY <1>6, <1>7, <3>2
      <4> QED
        BY <3>2, <4>1 DEF HasRequest
    <3> QED
      BY <3>1, <3>2 DEF p
  <2>3. \A v \in Workers : wpc'[v] = "busy" => HasRequest(inbuf[wconn'[v]])
    BY <1>0, <1>1, <1>3, <2>1, <2>2 DEF Parsed
  <2>4. \A v \in Workers : wpc[v] \in {"del", "close", "free"} =>
            wconn'[v] = wconn[v] /\ wpc'[v] \in {"del", "close", "free"}
    BY <1>0, <2>1
  <2>5. UNCHANGED <<script, unsent, rx, inbuf, replies>> /\ conn' = conn
    BY <1>0, <1>12
  <2> QED
    BY <2>3, <2>4, <2>5, QuietStream
<1> QED
  BY <1>8, <1>10, <1>11, <1>12

\* Without its first n pieces a cut is a cut.
LEMMA CutDrops ==
    ASSUME NEW q \in Seq(Piece), NEW k \in 0..Len(q), NEW a \in k..Len(q),
           NEW n \in Nat, n <= a - k
    PROVE  Drop(SubSeq(q, k + 1, a), n) = SubSeq(q, (k + n) + 1, a)
<1> DEFINE p == SubSeq(q, k + 1, a)
           s == SubSeq(p, n + 1, Len(p))
           t == SubSeq(q, (k + n) + 1, a)
<1>1. Len(q) \in Nat /\ k \in Nat /\ a \in Nat /\ k <= a /\ a <= Len(q)
  OBVIOUS
<1>2. p \in Seq(Piece) /\ Len(p) = a - k /\ \A i \in 1..Len(p) : p[i] = q[k + i]
  OBVIOUS
<1>3. t \in Seq(Piece) /\ Len(t) = a - (k + n) /\ \A i \in 1..Len(t) : t[i] = q[(k + n) + i]
  BY <1>1
<1> HIDE DEF p, t
<1>4. s \in Seq(Piece) /\ Len(s) = Len(p) - n /\ \A i \in 1..Len(s) : s[i] = p[n + i]
  <2>1. Len(p) \in Nat /\ n <= Len(p)
    BY <1>1, <1>2
  <2> QED
    BY <1>2, <2>1
<1> HIDE DEF s
<1>5. Len(s) = Len(t)
  BY <1>1, <1>2, <1>3, <1>4
<1>6. ASSUME NEW i \in 1..Len(s) PROVE s[i] = t[i]
  <2>1. i \in 1..Len(t) /\ n + i \in 1..Len(p) /\ k + (n + i) = (k + n) + i
    BY <1>1, <1>2, <1>4, <1>5, SMTT(60)
  <2> QED
    BY <1>2, <1>3, <1>4, <2>1
<1>7. s = t
  <2>1. s \in Seq(Piece) /\ t \in Seq(Piece)
    BY <1>3, <1>4
  <2> QED
    BY <1>5, <1>6, <2>1
<1> QED
  BY <1>7 DEF s, t, p, Drop

\* serve_one_request: the request at the front is answered and leaves the buffer.
LEMMA ServeStream ==
    ASSUME IndInv, StreamInv, NEW w \in Workers,
           ServeOK(w) \/ Serve502(w) \/ ServeStalled(w)
    PROVE  StreamInv'
<1>0. wpc[w] = "busy" /\ UNCHANGED <<script, unsent, rx, conn, wconn>>
  BY DEF ServeOK, Serve502, ServeStalled, kernel
<1>1. PICK c \in Clients : c = wconn[w]
  BY <1>0, ServedClient
<1>2. script[c] # None /\ InStep(c)
  BY <1>0, <1>1, ServedClient
<1>3. StreamType /\ Parsed /\ wpc \in [Workers -> WorkerPC]
  BY DEF StreamInv, IndInv, OwnersType
<1> DEFINE q == script[c]
           p == inbuf[c]
           r == Request(p)
           n == Need(p)
<1>4. PICK k \in 0..Len(q), a \in 0..Len(q), b \in 0..Len(q) : CutAt(c, k, a, b)
  BY <1>2 DEF InStep
<1>5. /\ q \in Seq(Piece) /\ Len(q) \in Nat /\ a \in k..Len(q) /\ a <= b
      /\ p = SubSeq(q, k + 1, a)
      /\ rx[c] = SubSeq(q, a + 1, b) /\ unsent[c] = SubSeq(q, b + 1, Len(q))
      /\ Called(q, replies[c], k)
  BY <1>2, <1>3, <1>4 DEF CutAt, StreamType
<1>6. HasHeader(p) /\ r # "bad" /\ Len(p) >= n
  BY <1>0, <1>1, <1>3 DEF Parsed, HasRequest
<1>7. \/ /\ Answer(c, r) /\ r # "last" /\ c \notin rst
         /\ wpc' = [wpc EXCEPT ![w] = "serve"]
      \/ wpc' = [wpc EXCEPT ![w] = "del"] /\ (Answer(c, r) \/ replies' = replies)
      \/ wpc' = [wpc EXCEPT ![w] = "del"] /\ Answer(c, "502")
  BY <1>1 DEF ServeOK, Serve502, ServeStalled, Served, Goto
<1>8. inbuf' = [inbuf EXCEPT ![c] = Drop(p, n)]
  BY <1>1 DEF ServeOK, Serve502, ServeStalled, Served
<1>9. /\ n \in Nat /\ n > 0
      /\ r \in Crlf \cup Bare
      /\ OneLineEnd(q) =>
            /\ r = "last" => Calls(q)[k + 1] = <<"last">>
            /\ r # "last" => Calls(q)[k + 1] = <<r>> \o Calls(q)[k + n + 1]
  <2> HIDE DEF q
  <2>1. /\ Need(p) \in Nat /\ Need(p) > 0
        /\ Request(p) \in Crlf \cup Bare
        /\ OneLineEnd(q) =>
              /\ Request(p) = "bad" => Calls(q)[k + 1] = <<"400">>
              /\ Request(p) = "last" => Calls(q)[k + 1] = <<"last">>
              /\ Request(p) \notin {"bad", "last"} /\ Len(p) >= Need(p) =>
                    Calls(q)[k + 1] = <<Request(p)>> \o Calls(q)[k + Need(p) + 1]
    <3> HIDE DEF p
    <3> QED
      BY <1>5, <1>6, FrontIsCalled
  <2> QED
    BY <1>6, <2>1
<1> HIDE DEF r, n
<1>10. Len(p) = a - k /\ n <= a - k /\ k + n \in 0..Len(q) /\ k + n <= a
  <2>1. Len(p) = a - k
    BY <1>5
  <2>2. Len(p) >= n /\ n \in Nat
    BY <1>6, <1>9
  <2>3. k \in Nat /\ a \in Nat /\ a <= Len(q) /\ Len(q) \in Nat
    BY <1>5
  <2> HIDE DEF p, q
  <2>4. n <= a - k
    BY <2>1, <2>2, <2>3
  <2>5. k + n <= a
    BY <2>2, <2>3, <2>4
  <2> QED
    BY <2>1, <2>2, <2>3, <2>4, <2>5
<1>11. Drop(p, n) = SubSeq(q, (k + n) + 1, a)
  <2> HIDE DEF p, q
  <2> QED
    BY <1>5, <1>9, <1>10, CutDrops
<1>12. inbuf'[c] = SubSeq(q, (k + n) + 1, a) /\ \A d \in Clients : d # c => inbuf'[d] = inbuf[d]
  BY <1>3, <1>8, <1>11 DEF StreamType
<1>13. inbuf' \in [Clients -> Seq(Piece)]
  <2>1. SubSeq(q, (k + n) + 1, a) \in Seq(Piece)
    BY <1>5, <1>10
  <2> QED
    BY <1>3, <1>8, <1>11, <2>1 DEF StreamType
<1>14. r \in Reply /\ "502" \in Reply
       /\ "502" \in {"413", "431", "502"} /\ wpc[w] \in {"serve", "busy"}
  BY <1>0, <1>6, <1>9 DEF Reply
<1>15. k + n + 1 = (k + n) + 1 /\ (k + n) + 1 \in 1..(Len(q) + 1)
  BY <1>5, <1>9, <1>10
<1>16. Calls(q)[(k + n) + 1] \in Seq(Reply)
  BY <1>5, <1>15, CallsType
<1>17. Due(q, k, r)
  <2> SUFFICES ASSUME OneLineEnd(q)
               PROVE  Len(Calls(q)[k + 1]) > 0 /\ r = Calls(q)[k + 1][1]
    BY DEF Due
  <2>1. CASE r = "last"
    <3>1. Calls(q)[k + 1] = <<"last">>
      BY <1>9, <2>1
    <3>2. Len(<<"last">>) > 0 /\ <<"last">>[1] = "last"
      OBVIOUS
    <3> QED
      BY <2>1, <3>1, <3>2
  <2>2. CASE r # "last"
    <3> DEFINE x == Calls(q)[(k + n) + 1]
    <3>1. Calls(q)[k + 1] = <<r>> \o x /\ x \in Seq(Reply)
      BY <1>9, <1>15, <1>16, <2>2
    <3> HIDE DEF x
    <3>2. Len(<<r>> \o x) > 0 /\ (<<r>> \o x)[1] = r
      BY <1>14, <3>1
    <3> QED
      BY <3>1, <3>2
  <2> QED
    BY <2>1, <2>2
<1>18. CASE wpc' = [wpc EXCEPT ![w] = "del"] /\ (Answer(c, r) \/ replies' = replies)
  BY <1>0, <1>1, <1>5, <1>12, <1>13, <1>14, <1>17, <1>18, RefusalStream
<1>19. CASE wpc' = [wpc EXCEPT ![w] = "del"] /\ Answer(c, "502")
  BY <1>0, <1>1, <1>5, <1>12, <1>13, <1>14, <1>19, RefusalStream
<1>20. CASE /\ Answer(c, r) /\ r # "last" /\ c \notin rst
            /\ wpc' = [wpc EXCEPT ![w] = "serve"]
  <2>1. /\ replies' \in [Clients -> Seq(Reply)]
        /\ \A d \in Clients : d # c => replies'[d] = replies[d]
        /\ replies'[c] = Append(replies[c], r)
    BY <1>3, <1>14, <1>20, AnswerIs
  <2>2. StreamType'
    BY <1>0, <1>3, <1>13, <2>1 DEF StreamType
  <2>3. Called(q, replies'[c], k + n)
    <3> SUFFICES ASSUME OneLineEnd(q)
                 PROVE  Calls(q)[1] = replies'[c] \o Calls(q)[(k + n) + 1]
      BY DEF Called
    <3> DEFINE x == Calls(q)[(k + n) + 1]
               s == replies[c]
    <3>1. Calls(q)[1] = s \o (<<r>> \o x) /\ x \in Seq(Reply) /\ s \in Seq(Reply)
      BY <1>3, <1>5, <1>9, <1>14, <1>15, <1>16, <1>20 DEF StreamType, Called
    <3> HIDE DEF x, s
    <3>2. s \o (<<r>> \o x) = Append(s, r) \o x
      BY <1>14, <3>1
    <3> QED
      BY <2>1, <3>1, <3>2 DEF x, s
  <2>4. "serve" \in {"recv", "serve"} /\ "serve" \in WorkerPC
    BY DEF WorkerPC
  <2>5. rx'[c] = SubSeq(q, a + 1, b) /\ unsent'[c] = SubSeq(q, b + 1, Len(q))
    BY <1>0, <1>5
  <2>6. StreamOf(c)'
    BY <1>0, <1>1, <1>5, <1>10, <1>12, <1>20, <2>3, <2>4, <2>5, KeptInStep
  <2>7. \A d \in Clients : d # c =>
            rx'[d] = rx[d] /\ inbuf'[d] = inbuf[d] /\ replies'[d] = replies[d]
    BY <1>0, <1>12, <2>1
  <2> QED
    BY <1>0, <1>1, <1>20, <2>2, <2>4, <2>6, <2>7, WorkerStream
<1> QED
  BY <1>7, <1>18, <1>19, <1>20

\* Clients that come and go, and main(): nobody is served.
LEMMA LoopStream ==
    ASSUME IndInv, StreamInv,
           \/ \E c \in Clients : Connect(c) \/ HangUp(c)
           \/ Main \/ MainFault \/ Done \/ UNCHANGED vars
    PROVE  StreamInv'
<1> USE DEF kernel, objects, loop, pool, stats
<1>0. StreamType /\ Parsed /\ (\A c \in Clients : StreamOf(c))
      /\ conn \in [Clients -> {"none", "queued", "live", "gone"}]
  BY DEF StreamInv, IndInv, OwnersType
<1>1. UNCHANGED <<script, unsent, rx, inbuf, replies, wpc, wconn>>
  <2>1. CASE \E c \in Clients : Connect(c) \/ HangUp(c)
    BY <2>1 DEF Connect, HangUp
  <2>2. CASE Main
    BY <2>2 DEF Main, EpollWait, AcceptBegin, AcceptEnd, Add, Join, Dispatch, Accept
  <2>3. CASE MainFault
    BY <2>3 DEF MainFault, EpollFail, AddFailed, AcceptRefused
  <2>4. CASE Done \/ UNCHANGED vars
    BY <2>4 DEF Done, vars
  <2> QED
    BY <2>1, <2>2, <2>3, <2>4
<1>2. \/ conn' = conn
      \/ \E c \in Clients : \/ /\ script[c] # None /\ conn[c] = "none"
                               /\ conn' = [conn EXCEPT ![c] = "queued"]
                            \/ /\ conn[c] \in {"queued", "live"}
                               /\ \E s \in {"live", "gone"} : conn' = [conn EXCEPT ![c] = s]
  <2>1. CASE \E c \in Clients : Connect(c) \/ HangUp(c)
    BY <2>1 DEF Connect, HangUp
  <2>2. CASE Main
    BY <2>2 DEF Main, EpollWait, AcceptBegin, AcceptEnd, Add, Join, Dispatch, Accept, Backlog
  <2>3. CASE EpollFail \/ \E c \in Clients : AcceptRefused(c)
    BY <2>3 DEF EpollFail, AcceptRefused, Backlog
  <2>4. CASE AddFailed
    <3>1. adding \in Clients /\ conn' = [conn EXCEPT ![adding] = "gone"]
      BY <2>4 DEF AddFailed, IndInv, OwnersType, Control
    <3>2. conn[adding] = "live"
      BY <3>1 DEF IndInv, Held
    <3> QED
      BY <3>1, <3>2
  <2>5. CASE Done \/ UNCHANGED vars
    BY <2>5 DEF Done, vars
  <2> QED
    BY <2>1, <2>2, <2>3, <2>4, <2>5 DEF MainFault
<1>3. /\ \A c \in Clients : conn[c] = "gone" => conn'[c] = "gone"
      /\ \A c \in Clients : script[c] = None /\ conn[c] = "none" => conn'[c] = "none"
  BY <1>0, <1>2
<1>4. /\ \A w \in Workers : wpc[w] \in {"del", "close", "free"} =>
            wconn'[w] = wconn[w] /\ wpc'[w] \in {"del", "close", "free"}
      /\ \A w \in Workers : wpc'[w] = "busy" => HasRequest(inbuf[wconn'[w]])
  BY <1>0, <1>1 DEF Parsed
<1> QED
  BY <1>1, <1>3, <1>4, QuietStream

\* The steps of a worker before and after it serves.
LEMMA AroundStream ==
    ASSUME IndInv, StreamInv, NEW w \in Workers,
           \/ Take(w) \/ Exit(w) \/ After(w) \/ Rearm(w) \/ RearmFailed(w)
           \/ Del(w) \/ CloseFd(w) \/ Free(w)
    PROVE  StreamInv'
<1> USE DEF kernel, objects, loop, pool, stats
<1>0. StreamType /\ Parsed /\ wpc \in [Workers -> WorkerPC]
      /\ wconn \in [Workers -> Clients \cup {None}]
      /\ conn \in [Clients -> {"none", "queued", "live", "gone"}]
  BY DEF StreamInv, IndInv, OwnersType
<1>1. UNCHANGED <<script, unsent, rx, inbuf, replies>>
  BY DEF Take, Exit, After, Rearm, RearmFailed, Del, CloseFd, Free
<1>2. \/ /\ wpc[w] \notin {"del", "close", "free"} /\ conn' = conn
         /\ \E x : wconn' = [wconn EXCEPT ![w] = x]
         /\ \E p : p # "busy" /\ wpc' = [wpc EXCEPT ![w] = p]
      \/ /\ conn' = conn /\ wconn' = wconn
         /\ \E p \in {"close", "free"} : wpc' = [wpc EXCEPT ![w] = p]
      \/ /\ wpc[w] = "free" /\ conn' = [conn EXCEPT ![wconn[w]] = "gone"]
         /\ wconn' = [wconn EXCEPT ![w] = None] /\ wpc' = [wpc EXCEPT ![w] = "idle"]
  <2>0. wconn = [wconn EXCEPT ![w] = wconn[w]]
    BY <1>0
  <2>1. CASE Take(w)
    BY <2>1 DEF Take, Goto
  <2>2. CASE Exit(w)
    BY <2>0, <2>2 DEF Exit, Goto
  <2>3. CASE After(w) \/ RearmFailed(w)
    BY <2>0, <2>3 DEF After, RearmFailed, Goto
  <2>4. CASE Rearm(w)
    BY <2>4 DEF Rearm, Goto
  <2>5. CASE Del(w) \/ CloseFd(w)
    BY <2>5 DEF Del, CloseFd, Goto
  <2>6. CASE Free(w)
    BY <2>6 DEF Free, Goto
  <2> QED
    BY <2>1, <2>2, <2>3, <2>4, <2>5, <2>6
<1>3. wpc'[w] # "busy"
      /\ \A v \in Workers : v # w => wpc'[v] = wpc[v] /\ wconn'[v] = wconn[v]
  BY <1>0, <1>2
<1>4. wpc[w] = "free" => wconn[w] \in Clients
  BY WorkersConn
<1>5. \A c \in Clients : /\ conn[c] = "gone" => conn'[c] = "gone"
                         /\ conn[c] = "none" => conn'[c] = "none"
  <2>1. wpc[w] = "free" => conn[wconn[w]] = "live"
    BY WorkersConn
  <2> QED
    BY <1>0, <1>2, <2>1
<1>6. \A v \in Workers : wpc'[v] = "busy" => HasRequest(inbuf[wconn'[v]])
  BY <1>0, <1>3 DEF Parsed
<1>7. \A v \in Workers : wpc[v] \in {"del", "close", "free"} =>
          \/ conn'[wconn[v]] = "gone"
          \/ wconn'[v] = wconn[v] /\ wpc'[v] \in {"del", "close", "free"}
  <2>1. wpc[w] \in {"del", "close", "free"} =>
            \/ conn'[wconn[w]] = "gone"
            \/ wconn'[w] = wconn[w] /\ wpc'[w] \in {"del", "close", "free"}
    BY <1>0, <1>2, <1>4
  <2> QED
    BY <1>3, <2>1
<1> QED
  BY <1>1, <1>5, <1>6, <1>7, QuietStream

LEMMA NextStream == IndInv /\ StreamInv /\ [Next]_vars => StreamInv'
<1> SUFFICES ASSUME IndInv, StreamInv, [Next]_vars PROVE StreamInv'
  OBVIOUS
<1>1. CASE Main \/ MainFault \/ Done \/ UNCHANGED vars
  BY <1>1, LoopStream
<1>2. ASSUME NEW c \in Clients, Client(c) PROVE StreamInv'
  BY <1>2, LoopStream, SendStream DEF Client
<1>3. ASSUME NEW w \in Workers, Worker(w) \/ WorkerFault(w) PROVE StreamInv'
  BY <1>3, AroundStream, RecvStream, ParseStream, ServeStream DEF Worker, WorkerFault
<1> QED
  BY <1>1, <1>2, <1>3 DEF Next

\* The responses of a connection are those its stream calls for, in order and
\* once each, for every stream of every client that keeps to one kind of line end,
\* however it is cut by recv and whatever else the loop, the workers and failing
\* calls do.
THEOREM AnswersAreInOrder == SafetySpec => []AnswersInOrder
<1>1. StreamInv => AnswersInOrder
  <2> SUFFICES ASSUME StreamInv, NEW c \in Clients, script[c] # None,
                      OneLineEnd(script[c])
               PROVE  Fits(Calls(script[c])[1], replies[c])
    BY Zenon DEF AnswersInOrder, InOrder, Fits
  <2>1. StreamType /\ StreamOf(c)
    BY DEF StreamInv
  <2>2. CASE InService(c)
    BY <2>1, <2>2, InStepFits DEF StreamOf, Fitting
  <2>3. CASE ~InService(c)
    BY <2>1, <2>3 DEF StreamOf, Fitting
  <2> QED
    BY <2>2, <2>3
<1> QED
  BY <1>1, Invariance, InitStream, NextStream, PTL DEF SafetySpec
==============================================================================
