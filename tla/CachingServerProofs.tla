------------------------- MODULE CachingServerProofs -------------------------
(***************************************************************************)
(* Proofs about CachingServer, for any number of clients, workers and      *)
(* descriptors: no worker closes a connection it was not pushed for, and   *)
(* the accounts of the cache add up whatever happens between its two       *)
(* locks.                                                                  *)
(***************************************************************************)
EXTENDS CachingServer, FiniteSetTheorems, FunctionTheorems, TLAPS

------------------------------------------------------------------------------
(* The inductive invariant.                                                *)

Replies == [path : Paths, hit : BOOLEAN]
Jobs == [pc : {"pop", "splice", "fetch", "send"}, fd : Fds \cup {None},
         path : Paths \cup {None}, hit : BOOLEAN]

ServerType ==
    /\ link \in [Clients -> {"new", "backlog", "open", "closed"}]
    /\ peer \in [Clients -> {"up", "fin", "rst", "pipe"}]
    /\ path \in [Clients -> Paths]
    /\ sent \in [Clients -> 0..2] /\ unread \in [Clients -> Nat]
    /\ served \in [Clients -> Replies \cup {None}]
    /\ backlog \in Seq(Clients)
    /\ conn \in [Fds -> Clients \cup {None}]
    /\ tasks \in Seq(Fds)
    /\ worker \in [Workers -> Jobs]
    /\ items \in Seq(Paths)
    /\ hits \in Nat /\ misses \in Nat

\* A connection waits in the backlog or has one descriptor.
Linked ==
    /\ \A i \in 1..Len(backlog) : link[backlog[i]] = "backlog"
    /\ \A i, j \in 1..Len(backlog) : backlog[i] = backlog[j] => i = j
    /\ \A f \in Fds : conn[f] # None => link[conn[f]] = "open"
    /\ \A f, g \in Fds : conn[f] = conn[g] /\ conn[f] # None => f = g

Busy(w) == worker[w].pc # "pop"

\* An open descriptor is watched, in one task, or with one worker: never in two
\* hands.
Owned ==
    /\ watched \subseteq Fds
    /\ \A f \in watched : /\ conn[f] # None
                          /\ \A i \in 1..Len(tasks) : tasks[i] # f
                          /\ \A w \in Workers : Busy(w) => worker[w].fd # f
    /\ \A i \in 1..Len(tasks) : /\ conn[tasks[i]] # None
                                /\ \A w \in Workers : Busy(w) => worker[w].fd # tasks[i]
    /\ \A i, j \in 1..Len(tasks) : tasks[i] = tasks[j] => i = j
    /\ \A w \in Workers : Busy(w) => worker[w].fd \in Fds /\ conn[worker[w].fd] # None
    /\ \A v, w \in Workers :
          Busy(v) /\ Busy(w) /\ worker[v].fd = worker[w].fd => v = w

\* There is something to read from connection c, or its client has left.
Stirred(c) == unread[c] > 0 \/ peer[c] # "up"

\* A descriptor is reported, and pushed, only for a reason.
Reported ==
    /\ ready \subseteq watched /\ batch \subseteq watched \cup {Listen}
    /\ \A f \in ready : Stirred(conn[f])
    /\ \A f \in batch : f # Listen => Stirred(conn[f])
    /\ \A i \in 1..Len(tasks) : Stirred(conn[tasks[i]])

\* The request of a client that does not send it in pieces arrives whole.
Whole ==
    \A c \in Clients \ Splits :
        \/ sent[c] = 0 /\ unread[c] = 0
        \/ sent[c] = 2 /\ unread[c] \in {0, 2}

\* p is what c may be answered for.
AnswerFor(c, p) == p = path[c] \/ (p = Root /\ c \in Splits)

\* What a worker is about to answer, and what was answered.
Answered ==
    /\ \A w \in Workers : Busy(w) => AnswerFor(conn[worker[w].fd], worker[w].path)
    /\ \A w \in Workers : worker[w].pc \in {"splice", "fetch"} => worker[w].hit = FALSE
    /\ \A c \in Clients : served[c] # None =>
          link[c] = "closed" /\ AnswerFor(c, served[c].path)
    /\ \A c \in Clients : link[c] = "closed" /\ peer[c] = "up" => served[c] # None

\* The list of the cache has no key twice.
ListSound(q) ==
    /\ Len(q) <= Capacity
    /\ \A i, j \in 1..Len(q) : q[i] = q[j] => i = j

\* How the accounts see a worker and a client.
JobClass(j) == IF j.pc = "send" /\ j.hit THEN "hit"
               ELSE IF j.pc \in {"fetch", "send"} THEN "miss" ELSE "none"
ReplyClass(r) == IF r = None THEN "none" ELSE IF r.hit THEN "hit" ELSE "miss"

Working == [w \in Workers |-> JobClass(worker[w])]
Replied == [c \in Clients |-> ReplyClass(served[c])]
Count(S, cl, o) == Cardinality({x \in S : cl[x] = o})

Counted ==
    /\ hits = Count(Clients, Replied, "hit") + Count(Workers, Working, "hit")
    /\ misses = Count(Clients, Replied, "miss") + Count(Workers, Working, "miss")

IndInv ==
    /\ ServerType /\ Linked /\ Owned /\ Reported /\ Whole /\ Answered
    /\ ListSound(items) /\ Counted

------------------------------------------------------------------------------
(* Counting.                                                               *)

LEMMA CountMove ==
    ASSUME NEW S, IsFiniteSet(S), NEW cl, NEW cl2, NEW w \in S, NEW o,
           \A v \in S : v # w => cl2[v] = cl[v]
    PROVE  /\ Count(S, cl, o) \in Nat
           /\ Count(S, cl2, o) = IF cl[w] = cl2[w] THEN Count(S, cl, o)
                                 ELSE IF o = cl2[w] THEN Count(S, cl, o) + 1
                                 ELSE IF o = cl[w] THEN Count(S, cl, o) - 1
                                 ELSE Count(S, cl, o)
<1> DEFINE A == {v \in S : cl[v] = o}
           B == {v \in S : cl2[v] = o}
<1>0. Count(S, cl, o) = Cardinality(A) /\ Count(S, cl2, o) = Cardinality(B)
  BY DEF Count
<1>1. IsFiniteSet(A) /\ IsFiniteSet(B)
  BY FS_Subset
<1>2. Cardinality(A) \in Nat /\ Cardinality(B) \in Nat
  BY <1>1, FS_CardinalityType
<1>3. CASE cl[w] = cl2[w] \/ (o # cl2[w] /\ o # cl[w])
  <2>1. A = B
    BY <1>3
  <2> QED
    BY <1>0, <1>2, <1>3, <2>1
<1>4. CASE cl[w] # cl2[w] /\ o = cl2[w]
  <2>1. B = A \cup {w} /\ w \notin A
    BY <1>4
  <2> HIDE DEF A, B
  <2>2. Cardinality(B) = Cardinality(A) + 1
    BY <1>1, <2>1, FS_AddElement
  <2> QED
    BY <1>0, <1>2, <1>4, <2>2 DEF A, B
<1>5. CASE cl[w] # cl2[w] /\ o = cl[w]
  <2>1. B = A \ {w} /\ w \in A
    BY <1>5
  <2> HIDE DEF A, B
  <2>2. Cardinality(B) = Cardinality(A) - 1
    BY <1>1, <2>1, FS_RemoveElement
  <2> QED
    BY <1>0, <1>2, <1>5, <2>2 DEF A, B
<1> QED
  BY <1>3, <1>4, <1>5

\* A step of worker w from one class to another.
LEMMA WorkerMoves ==
    ASSUME NEW w \in Workers, NEW j, NEW o,
           worker \in [Workers -> Jobs], worker' = [worker EXCEPT ![w] = j]
    PROVE  /\ Count(Workers, Working, o) \in Nat
           /\ Count(Workers, Working', o) =
                IF JobClass(worker[w]) = JobClass(j) THEN Count(Workers, Working, o)
                ELSE IF o = JobClass(j) THEN Count(Workers, Working, o) + 1
                ELSE IF o = JobClass(worker[w]) THEN Count(Workers, Working, o) - 1
                ELSE Count(Workers, Working, o)
<1>1. Working[w] = JobClass(worker[w]) /\ Working'[w] = JobClass(j)
  BY DEF Working
<1>2. \A v \in Workers : v # w => Working'[v] = Working[v]
  BY DEF Working
<1>3. IsFiniteSet(Workers)
  BY ServerAssumption
<1>4. /\ Count(Workers, Working, o) \in Nat
      /\ Count(Workers, Working', o) =
           IF Working[w] = Working'[w] THEN Count(Workers, Working, o)
           ELSE IF o = Working'[w] THEN Count(Workers, Working, o) + 1
           ELSE IF o = Working[w] THEN Count(Workers, Working, o) - 1
           ELSE Count(Workers, Working, o)
  BY <1>2, <1>3, CountMove, SMTT(60)
<1> QED
  BY <1>1, <1>4

------------------------------------------------------------------------------
(* The list of the cache.                                                  *)

\* A function on 1..n is a sequence of length n.
LEMMA ListType ==
    ASSUME NEW S, NEW n \in Nat, NEW f \in [1..n -> S]
    PROVE  f \in Seq(S) /\ Len(f) = n
  OBVIOUS

\* Where p is.
PlaceOf(p) == CHOOSE i \in 1..Len(items) : items[i] = p

LEMMA InRange ==
    ASSUME items \in Seq(Paths), NEW p
    PROVE  p \in Range(items) <=> \E i \in 1..Len(items) : items[i] = p
  BY DEF Range

LEMMA ToFrontSound ==
    ASSUME items \in Seq(Paths), ListSound(items), NEW p \in Range(items)
    PROVE  ToFront(p) \in Seq(Paths) /\ ListSound(ToFront(p))
<1> DEFINE n == Len(items)
           i == PlaceOf(p)
           q == ToFront(p)
<1>0. n \in Nat /\ \A k \in 1..n : items[k] \in Paths
  OBVIOUS
<1>1. i \in 1..n /\ items[i] = p
  BY InRange DEF PlaceOf
<1>2. q = [j \in 1..n |-> IF j = 1 THEN p ELSE IF j <= i THEN items[j - 1] ELSE items[j]]
  BY DEF ToFront, PlaceOf
<1>3. n <= Capacity /\ \A k, l \in 1..n : items[k] = items[l] => k = l
  BY DEF ListSound
<1> HIDE DEF i, n, q
<1>4. q \in [1..n -> Paths]
  BY <1>0, <1>1, <1>2
<1>5. q \in Seq(Paths) /\ Len(q) = n
  BY <1>0, <1>4, ListType
<1>6. ASSUME NEW k \in 1..n, NEW l \in 1..n, q[k] = q[l]
      PROVE  k = l
  <2> DEFINE From(j) == IF j = 1 THEN i ELSE IF j <= i THEN j - 1 ELSE j
  <2>1. \A j \in 1..n : From(j) \in 1..n /\ q[j] = items[From(j)]
    BY <1>0, <1>1, <1>2
  <2>2. From(k) = From(l)
    <3> HIDE DEF From
    <3> QED
      BY <1>3, <1>6, <2>1
  <2> QED
    BY <1>0, <1>1, <2>2
<1>7. ListSound(q)
  BY <1>3, <1>5, <1>6 DEF ListSound
<1> QED
  BY <1>5, <1>7 DEF q

LEMMA PutSound ==
    ASSUME items \in Seq(Paths), ListSound(items), NEW p \in Paths
    PROVE  put(p) \in Seq(Paths) /\ ListSound(put(p))
<1>1. CASE p \in Range(items)
  BY <1>1, ToFrontSound DEF put
<1>2. CASE p \notin Range(items)
  <2> DEFINE n == Len(items)
             kept == IF n >= Capacity THEN n - 1 ELSE n
             q == [j \in 1..(kept + 1) |-> IF j = 1 THEN p ELSE items[j - 1]]
  <2>1. put(p) = q
    BY <1>2 DEF put
  <2>2. /\ n \in Nat /\ Capacity \in Nat \ {0} /\ n <= Capacity
        /\ \A k, l \in 1..n : items[k] = items[l] => k = l
        /\ \A k \in 1..n : items[k] \in Paths /\ items[k] # p
    BY <1>2, ServerAssumption, InRange DEF ListSound
  <2>3. kept \in Nat /\ kept <= n /\ kept + 1 <= Capacity
    BY <2>2
  <2> HIDE DEF n, kept
  <2>4. q \in [1..(kept + 1) -> Paths]
    BY <2>2, <2>3
  <2>5. q \in Seq(Paths) /\ Len(q) = kept + 1
    <3> HIDE DEF q
    <3> QED
      BY <2>3, <2>4, ListType
  <2>6. \A k, l \in 1..(kept + 1) : q[k] = q[l] => k = l
    <3> SUFFICES ASSUME NEW k \in 1..(kept + 1), NEW l \in 1..(kept + 1), q[k] = q[l]
                 PROVE  k = l
      OBVIOUS
    <3>1. CASE k = 1 \/ l = 1
      BY <2>2, <2>3, <3>1
    <3>2. CASE k # 1 /\ l # 1
      <4>1. k - 1 \in 1..n /\ l - 1 \in 1..n /\ items[k - 1] = items[l - 1]
        BY <2>2, <2>3, <3>2
      <4>2. k - 1 = l - 1
        BY <2>2, <4>1
      <4> QED
        BY <2>3, <4>2
    <3> QED
      BY <3>1, <3>2
  <2> HIDE DEF q
  <2>7. ListSound(q)
    BY <2>3, <2>5, <2>6 DEF ListSound
  <2> QED
    BY <2>1, <2>5, <2>7
<1> QED
  BY <1>1, <1>2

------------------------------------------------------------------------------
(* The steps.                                                              *)

LEMMA InitInv == Init => IndInv
<1> SUFFICES ASSUME Init PROVE IndInv
  OBVIOUS
<1>1. ServerType
  <2>1. Idle \in Jobs
    BY DEF Idle, Jobs
  <2>2. worker \in [Workers -> Jobs]
    BY <2>1 DEF Init
  <2>3. path \in [Clients -> Paths]
    BY ServerAssumption DEF Init
  <2> QED
    BY <2>2, <2>3 DEF Init, ServerType
<1>2. \A w \in Workers : worker[w].pc = "pop"
  BY DEF Init, Idle
<1>3. Linked /\ Owned /\ Reported
  BY <1>2 DEF Init, Linked, Owned, Reported, Busy
<1>4. Whole /\ Answered
  BY <1>2 DEF Init, Whole, Answered, AnswerFor, Busy
<1>5. ListSound(items)
  BY ServerAssumption DEF Init, ListSound
<1>6. Counted
  <2>1. {c \in Clients : Replied[c] = "hit"} = {} /\ {c \in Clients : Replied[c] = "miss"} = {}
    BY DEF Init, Replied, ReplyClass
  <2>2. {w \in Workers : Working[w] = "hit"} = {} /\ {w \in Workers : Working[w] = "miss"} = {}
    BY <1>2 DEF Working, JobClass
  <2>3. Cardinality({}) = 0
    BY FS_EmptySet
  <2>4. /\ Count(Clients, Replied, "hit") = 0 /\ Count(Clients, Replied, "miss") = 0
        /\ Count(Workers, Working, "hit") = 0 /\ Count(Workers, Working, "miss") = 0
    BY <2>1, <2>2, <2>3 DEF Count
  <2>5. hits = 0 /\ misses = 0
    BY DEF Init
  <2> QED
    BY <2>4, <2>5 DEF Counted
<1> QED
  BY <1>1, <1>3, <1>4, <1>5, <1>6 DEF IndInv

\* What a part of the invariant does not speak of does not disturb it.
LEMMA Undisturbed ==
    /\ Linked /\ UNCHANGED <<link, backlog, conn>> => Linked'
    /\ Owned /\ UNCHANGED <<conn, watched, tasks, worker>> => Owned'
    /\ Reported /\ UNCHANGED <<unread, peer, conn, watched, ready, batch, tasks>> => Reported'
    /\ Whole /\ UNCHANGED <<sent, unread>> => Whole'
    /\ Answered /\ UNCHANGED <<path, peer, link, served, conn, worker>> => Answered'
    /\ Counted /\ UNCHANGED <<served, worker, hits, misses>> => Counted'
<1>1. Linked /\ UNCHANGED <<link, backlog, conn>> => Linked'
  BY DEF Linked
<1>2. Owned /\ UNCHANGED <<conn, watched, tasks, worker>> => Owned'
  BY DEF Owned, Busy
<1>3. Reported /\ UNCHANGED <<unread, peer, conn, watched, ready, batch, tasks>> => Reported'
  BY DEF Reported, Stirred
<1>4. Answered /\ UNCHANGED <<path, peer, link, served, conn, worker>> => Answered'
  BY DEF Answered, AnswerFor, Busy
<1>5. Counted /\ UNCHANGED <<served, worker, hits, misses>> => Counted'
  BY DEF Counted, Replied, Working
<1>6. Whole /\ UNCHANGED <<sent, unread>> => Whole'
  BY DEF Whole
<1> QED
  BY <1>1, <1>2, <1>3, <1>4, <1>5, <1>6

LEMMA ConnectInv == ASSUME IndInv, NEW c \in Clients, Connect(c) PROVE IndInv'
<1> USE DEF IndInv
<1>1. /\ link[c] = "new" /\ link' = [link EXCEPT ![c] = "backlog"]
      /\ backlog' = Append(backlog, c)
      /\ UNCHANGED <<net, served, conn, watched, ready, loop, tasks, worker, cache, alive>>
  BY DEF Connect
<1>2. UNCHANGED <<path, sent, peer, unread, batch, items, hits, misses>>
  BY <1>1 DEF net, loop, cache
<1>3. ServerType'
  BY <1>1, <1>2 DEF ServerType
<1>4. Linked'
  <2>1. backlog \in Seq(Clients) /\ link \in [Clients -> {"new", "backlog", "open", "closed"}]
        /\ conn \in [Fds -> Clients \cup {None}] /\ Len(backlog) \in Nat
    BY DEF ServerType
  <2>2. /\ Len(backlog') = Len(backlog) + 1 /\ backlog'[Len(backlog) + 1] = c
        /\ \A i \in 1..Len(backlog) : backlog'[i] = backlog[i] /\ backlog[i] # c
    BY <1>1, <2>1 DEF Linked
  <2>3. /\ \A i \in 1..Len(backlog) : link'[backlog[i]] = "backlog"
        /\ link'[c] = "backlog"
        /\ \A f \in Fds : conn[f] # None => link'[conn[f]] = "open"
    BY <1>1, <2>1 DEF Linked
  <2>4. \A i \in 1..Len(backlog') : i \in 1..Len(backlog) \/ i = Len(backlog) + 1
    BY <2>1, <2>2
  <2>5. \A i \in 1..Len(backlog') : link'[backlog'[i]] = "backlog"
    BY <2>2, <2>3, <2>4
  <2>6. \A i, j \in 1..Len(backlog') : backlog'[i] = backlog'[j] => i = j
    <3> SUFFICES ASSUME NEW i \in 1..Len(backlog'), NEW j \in 1..Len(backlog'),
                        backlog'[i] = backlog'[j]
                 PROVE  i = j
      OBVIOUS
    <3>1. \A k, l \in 1..Len(backlog) : backlog[k] = backlog[l] => k = l
      BY DEF Linked
    <3> QED
      BY <2>2, <2>4, <3>1
  <2> QED
    BY <1>1, <2>3, <2>5, <2>6 DEF Linked
<1>5. Owned' /\ Reported' /\ Whole' /\ Counted' /\ ListSound(items')
  BY <1>1, <1>2, Undisturbed
<1>6. Answered'
  <2>1. \A d \in Clients : link'[d] = IF d = c THEN "backlog" ELSE link[d]
    BY <1>1 DEF ServerType
  <2> QED
    BY <1>1, <1>2, <2>1 DEF Answered, AnswerFor, Busy
<1> QED
  BY <1>3, <1>4, <1>5, <1>6

\* Bytes or a departure: the watched descriptor of the client becomes ready.
LEMMA EdgeReports ==
    ASSUME IndInv, NEW c \in Clients, Edge(c), UNCHANGED <<conn, watched, batch, tasks>>,
           \A d \in Clients : d # c => unread'[d] = unread[d] /\ peer'[d] = peer[d],
           Stirred(c)'
    PROVE  Reported'
<1>1. conn \in [Fds -> Clients \cup {None}] /\ tasks \in Seq(Fds) /\ watched \subseteq Fds
  BY DEF IndInv, ServerType, Owned
<1>2. /\ ready' = ready \cup {f \in watched : conn[f] = c}
      /\ ready \subseteq watched /\ batch \subseteq watched \cup {Listen}
  BY DEF IndInv, Reported, Edge
<1>3. \A f \in Fds : conn[f] # None /\ Stirred(conn[f]) => Stirred(conn[f])'
  <2> SUFFICES ASSUME NEW f \in Fds, conn[f] # None, Stirred(conn[f]) PROVE Stirred(conn[f])'
    OBVIOUS
  <2>1. conn[f] \in Clients /\ conn'[f] = conn[f]
    BY <1>1
  <2>2. CASE conn[f] = c
    BY <2>1, <2>2 DEF Stirred
  <2>3. CASE conn[f] # c
    BY <2>1, <2>3 DEF Stirred
  <2> QED
    BY <2>2, <2>3
<1>4. \A f \in ready : Stirred(conn[f])'
  BY <1>1, <1>2, <1>3 DEF IndInv, Reported, Owned
<1>5. \A f \in watched : conn[f] = c => Stirred(conn[f])'
  BY DEF Stirred
<1>6. \A f \in batch : f # Listen => Stirred(conn[f])'
  BY <1>1, <1>2, <1>3 DEF IndInv, Reported, Owned
<1>7. \A i \in 1..Len(tasks) : Stirred(conn[tasks[i]])'
  BY <1>1, <1>3 DEF IndInv, Reported, Owned
<1> QED
  BY <1>2, <1>4, <1>5, <1>6, <1>7 DEF Reported, Stirred

LEMMA SendInv == ASSUME IndInv, NEW c \in Clients, Send(c) PROVE IndInv'
<1> USE DEF IndInv
<1>1. PICK n \in (IF c \in Splits THEN 1..(2 - sent[c]) ELSE {2 - sent[c]} \ {0}) :
        /\ sent' = [sent EXCEPT ![c] = @ + n]
        /\ unread' = [unread EXCEPT ![c] = @ + n]
  BY DEF Send
<1>2. /\ Edge(c) /\ peer[c] = "up" /\ link[c] \in {"backlog", "open"}
      /\ UNCHANGED <<path, peer, link, served, backlog, conn, watched, loop,
                     tasks, worker, cache, alive>>
  BY DEF Send
<1>3. UNCHANGED <<batch, items, hits, misses>>
  BY <1>2 DEF loop, cache
<1>4. n \in Nat \ {0} /\ sent[c] + n \in 0..2
  <2>1. sent[c] \in 0..2
    BY DEF ServerType
  <2>2. n \in 1..(2 - sent[c]) \/ (n = 2 - sent[c] /\ n # 0)
    BY <1>1
  <2> QED
    BY <2>1, <2>2
<1>5. unread[c] \in Nat
  BY DEF ServerType
<1>6. ServerType'
  BY <1>1, <1>2, <1>3, <1>4 DEF ServerType
<1>7. Reported'
  <2>1. \A d \in Clients : d # c => unread'[d] = unread[d] /\ peer'[d] = peer[d]
    BY <1>1, <1>2 DEF ServerType
  <2>2. unread'[c] > 0
    BY <1>1, <1>4, <1>5 DEF ServerType
  <2>3. Stirred(c)'
    BY <2>2 DEF Stirred
  <2> QED
    BY <1>2, <1>3, <2>1, <2>3, EdgeReports
<1>8. Whole'
  <2>1. \A d \in Clients : d # c => unread'[d] = unread[d] /\ sent'[d] = sent[d]
    BY <1>1 DEF ServerType
  <2>2. c \notin Splits => n = 2 /\ sent[c] = 0 /\ unread[c] = 0
    BY <1>1, <1>4 DEF Whole
  <2>3. c \notin Splits => sent'[c] = 2 /\ unread'[c] = 2
    BY <1>1, <2>2 DEF ServerType
  <2> QED
    BY <2>1, <2>3 DEF Whole
<1> QED
  BY <1>2, <1>3, <1>6, <1>7, <1>8, Undisturbed

LEMMA LeaveInv == ASSUME IndInv, NEW c \in Clients, Leave(c) PROVE IndInv'
<1> USE DEF IndInv
<1>1. PICK how \in {"fin", "rst", "pipe"} : peer' = [peer EXCEPT ![c] = how]
  BY DEF Leave
<1>2. /\ Edge(c) /\ link[c] = "open"
      /\ UNCHANGED <<path, sent, unread, link, served, backlog, conn, watched,
                     loop, tasks, worker, cache, alive>>
  BY DEF Leave
<1>3. UNCHANGED <<batch, items, hits, misses>>
  BY <1>2 DEF loop, cache
<1>4. peer \in [Clients -> {"up", "fin", "rst", "pipe"}]
  BY DEF ServerType
<1>5. /\ \A d \in Clients : d # c => peer'[d] = peer[d]
      /\ peer'[c] = how /\ peer' \in [Clients -> {"up", "fin", "rst", "pipe"}]
  BY <1>1, <1>4
<1>6. ServerType'
  BY <1>2, <1>3, <1>5 DEF ServerType
<1>7. Reported'
  <2>1. \A d \in Clients : d # c => unread'[d] = unread[d] /\ peer'[d] = peer[d]
    BY <1>2, <1>5
  <2>2. Stirred(c)'
    BY <1>5 DEF Stirred
  <2> QED
    BY <1>2, <1>3, <2>1, <2>2, EdgeReports
<1>8. Answered'
  <2>1. \A d \in Clients : link[d] = "closed" /\ peer'[d] = "up" => peer[d] = "up"
    BY <1>2, <1>5
  <2> QED
    BY <1>2, <2>1 DEF Answered, AnswerFor, Busy
<1> QED
  BY <1>2, <1>3, <1>6, <1>7, <1>8, Undisturbed

LEMMA WaitInv == ASSUME IndInv, Wait PROVE IndInv'
<1> USE DEF IndInv
<1>1. /\ batch' = ready \cup (IF backlog = <<>> THEN {} ELSE {Listen}) /\ ready' = {}
      /\ UNCHANGED <<net, link, served, backlog, conn, watched, accepting, tasks,
                     worker, cache, alive>>
  BY DEF Wait
<1>2. UNCHANGED <<path, sent, peer, unread, items, hits, misses>>
  BY <1>1 DEF net, cache
<1>3. ServerType'
  BY <1>1, <1>2 DEF ServerType
<1>4. Reported'
  BY <1>1, <1>2 DEF Reported, Stirred
<1> QED
  BY <1>1, <1>2, <1>3, <1>4, Undisturbed

LEMMA ListenerInv == ASSUME IndInv, Listener \/ AcceptDone PROVE IndInv'
<1> USE DEF IndInv
<1>1. /\ batch' \subseteq batch
      /\ UNCHANGED <<net, conns, tasks, worker, cache, alive>>
  BY DEF Listener, AcceptDone
<1>2. UNCHANGED <<path, sent, peer, unread, link, served, backlog, conn, watched, ready,
                  items, hits, misses>>
  BY <1>1 DEF net, conns, cache
<1>3. ServerType'
  BY <1>1, <1>2 DEF ServerType
<1>4. Reported'
  BY <1>1, <1>2 DEF Reported, Stirred
<1> QED
  BY <1>1, <1>2, <1>3, <1>4, Undisturbed

\* Descriptor f is free: nobody has it in hand.
LEMMA FreeFd ==
    ASSUME IndInv, NEW f \in Fds, conn[f] = None
    PROVE  /\ f \notin watched /\ f \notin ready /\ (f \in batch => f = Listen)
           /\ \A i \in 1..Len(tasks) : tasks[i] # f
           /\ \A w \in Workers : Busy(w) => worker[w].fd # f
  BY DEF IndInv, Owned, Reported

LEMMA AcceptInv == ASSUME IndInv, Accept PROVE IndInv'
<1> USE DEF IndInv
<1> DEFINE f == CHOOSE g \in Fds : conn[g] = None
           c == Head(backlog)
<1>1. f \in Fds /\ conn[f] = None
  BY DEF Accept, FdFree
<1>2. /\ conn' = [conn EXCEPT ![f] = c] /\ link' = [link EXCEPT ![c] = "open"]
      /\ watched' = watched \cup {f}
      /\ ready' = IF unread[c] > 0 THEN ready \cup {f} ELSE ready
      /\ backlog # <<>> /\ backlog' = Tail(backlog)
      /\ UNCHANGED <<net, served, loop, tasks, worker, cache, alive>>
  BY DEF Accept
<1>3. UNCHANGED <<path, sent, peer, unread, batch, items, hits, misses>>
  BY <1>2 DEF net, loop, cache
<1>4. /\ conn \in [Fds -> Clients \cup {None}] /\ backlog \in Seq(Clients)
      /\ link \in [Clients -> {"new", "backlog", "open", "closed"}]
      /\ tasks \in Seq(Fds)
  BY DEF ServerType
<1>5. /\ c \in Clients /\ c = backlog[1] /\ Len(backlog) \in Nat \ {0}
      /\ backlog' \in Seq(Clients) /\ Len(backlog') = Len(backlog) - 1
      /\ \A i \in 1..(Len(backlog) - 1) : backlog'[i] = backlog[i + 1]
  BY <1>2, <1>4
<1> HIDE DEF f, c
<1>6. link[c] = "backlog" /\ c # None
  BY <1>5, ServerAssumption DEF Linked
<1>7. /\ \A g \in Fds : conn'[g] = IF g = f THEN c ELSE conn[g]
      /\ \A d \in Clients : link'[d] = IF d = c THEN "open" ELSE link[d]
      /\ \A g \in Fds : conn[g] # c
  BY <1>1, <1>2, <1>4, <1>5, <1>6 DEF Linked
<1>8. ServerType'
  BY <1>1, <1>2, <1>3, <1>5 DEF ServerType
<1>9. Linked'
  <2>1. \A i \in 1..Len(backlog') : i \in 1..(Len(backlog) - 1) /\ i + 1 \in 1..Len(backlog)
    BY <1>5
  <2>2. \A i \in 1..Len(backlog') : /\ backlog'[i] = backlog[i + 1]
                                     /\ backlog[i + 1] \in Clients /\ backlog[i + 1] # c
    BY <1>4, <1>5, <2>1 DEF Linked
  <2>3. \A i \in 1..Len(backlog') : link'[backlog'[i]] = "backlog"
    BY <1>7, <2>1, <2>2 DEF Linked
  <2>4. \A i, j \in 1..Len(backlog') : backlog'[i] = backlog'[j] => i = j
    <3> SUFFICES ASSUME NEW i \in 1..Len(backlog'), NEW j \in 1..Len(backlog'),
                        backlog'[i] = backlog'[j]
                 PROVE  i = j
      OBVIOUS
    <3>0. \A k, l \in 1..Len(backlog) : backlog[k] = backlog[l] => k = l
      BY DEF Linked
    <3>1. i + 1 = j + 1
      BY <2>1, <2>2, <3>0
    <3>2. i \in Nat /\ j \in Nat
      BY <1>5
    <3> QED
      BY <3>1, <3>2
  <2>5. \A g \in Fds : conn'[g] # None => link'[conn'[g]] = "open"
    BY <1>4, <1>5, <1>7 DEF Linked
  <2>6. \A g, h \in Fds : conn'[g] = conn'[h] /\ conn'[g] # None => g = h
    BY <1>7 DEF Linked
  <2> QED
    BY <2>3, <2>4, <2>5, <2>6 DEF Linked
<1>10. Owned'
  <2>1. /\ \A i \in 1..Len(tasks) : tasks[i] # f /\ tasks[i] \in Fds
        /\ \A w \in Workers : Busy(w) => worker[w].fd # f
    BY <1>1, <1>4, FreeFd
  <2>2. \A w \in Workers : Busy(w)' <=> Busy(w)
    BY <1>2 DEF Busy
  <2> QED
    BY <1>1, <1>2, <1>6, <1>7, <2>1, <2>2 DEF Owned
<1>11. Reported'
  <2>0. \A i \in 1..Len(tasks) : tasks[i] # f /\ tasks[i] \in Fds
    BY <1>1, <1>4, FreeFd
  <2>1. \A d : Stirred(d)' <=> Stirred(d)
    BY <1>3 DEF Stirred
  <2>2. f \notin watched /\ watched \subseteq Fds
    BY <1>1, FreeFd DEF Owned
  <2>3. ready' \subseteq watched' /\ batch' \subseteq watched' \cup {Listen}
    BY <1>2, <1>3 DEF Reported
  <2>4. \A g \in ready' : Stirred(conn'[g])
    <3> SUFFICES ASSUME NEW g \in ready' PROVE Stirred(conn'[g])
      OBVIOUS
    <3>1. CASE g = f
      <4>1. g \notin ready
        BY <2>2, <3>1 DEF Reported
      <4>2. unread[c] > 0
        BY <1>2, <4>1
      <4> QED
        BY <1>1, <1>7, <3>1, <4>2 DEF Stirred
    <3>2. CASE g # f
      <4>1. g \in ready /\ g \in Fds
        BY <1>2, <2>2, <3>2 DEF Reported
      <4> QED
        BY <1>7, <3>2, <4>1 DEF Reported
    <3> QED
      BY <3>1, <3>2
  <2>5. \A g \in batch' : g # Listen => Stirred(conn'[g])
    BY <1>3, <1>7, <2>2 DEF Reported
  <2>6. \A i \in 1..Len(tasks) : Stirred(conn'[tasks[i]])
    BY <1>7, <2>0 DEF Reported
  <2> QED
    BY <1>2, <2>1, <2>3, <2>4, <2>5, <2>6 DEF Reported
<1>12. Answered'
  <2>1. \A w \in Workers : Busy(w) => worker[w].fd \in Fds /\ worker[w].fd # f
    BY <1>1, FreeFd DEF Owned
  <2>2. \A w \in Workers : Busy(w)' <=> Busy(w)
    BY <1>2 DEF Busy
  <2>3. \A d \in Clients : (link'[d] = "closed") <=> (link[d] = "closed")
    BY <1>6, <1>7
  <2> QED
    BY <1>2, <1>3, <1>7, <2>1, <2>2, <2>3 DEF Answered, AnswerFor
<1> QED
  BY <1>2, <1>3, <1>8, <1>9, <1>10, <1>11, <1>12, Undisturbed

LEMMA DispatchInv == ASSUME IndInv, NEW f \in Fds, Dispatch(f) PROVE IndInv'
<1> USE DEF IndInv
<1>1. /\ f \in batch /\ batch' = batch \ {f} /\ watched' = watched \ {f}
      /\ ready' = ready \ {f} /\ tasks' = Append(tasks, f)
      /\ UNCHANGED <<net, link, served, backlog, conn, accepting, worker, cache, alive>>
  BY DEF Dispatch
<1>2. UNCHANGED <<path, sent, peer, unread, items, hits, misses>>
  BY <1>1 DEF net, cache
<1>3. f # Listen /\ f \in watched
  BY <1>1, ServerAssumption DEF Reported
<1>4. tasks \in Seq(Fds) /\ Len(tasks) \in Nat
  BY DEF ServerType
<1>5. /\ Len(tasks') = Len(tasks) + 1 /\ tasks'[Len(tasks) + 1] = f
      /\ \A i \in 1..Len(tasks) : tasks'[i] = tasks[i]
      /\ tasks' \in Seq(Fds)
  BY <1>1, <1>4
<1>6. \A i \in 1..Len(tasks') : i \in 1..Len(tasks) \/ i = Len(tasks) + 1
  BY <1>4, <1>5
<1>7. ServerType'
  BY <1>1, <1>2, <1>5 DEF ServerType
<1>8. Owned'
  <2>1. \A w \in Workers : Busy(w)' <=> Busy(w)
    BY <1>1 DEF Busy
  <2>2. /\ \A i \in 1..Len(tasks) : tasks[i] # f
        /\ conn[f] # None
        /\ \A w \in Workers : Busy(w) => worker[w].fd # f
    BY <1>3 DEF Owned
  <2>3. \A g \in watched' : \A i \in 1..Len(tasks') : tasks'[i] # g
    BY <1>1, <1>5, <1>6 DEF Owned
  <2>4. \A i \in 1..Len(tasks') : /\ conn[tasks'[i]] # None
                                   /\ \A w \in Workers : Busy(w) => worker[w].fd # tasks'[i]
    BY <1>5, <1>6, <2>2 DEF Owned
  <2>5. \A i, j \in 1..Len(tasks') : tasks'[i] = tasks'[j] => i = j
    <3> SUFFICES ASSUME NEW i \in 1..Len(tasks'), NEW j \in 1..Len(tasks'),
                        tasks'[i] = tasks'[j]
                 PROVE  i = j
      OBVIOUS
    <3>1. \A k, l \in 1..Len(tasks) : tasks[k] = tasks[l] => k = l
      BY DEF Owned
    <3> QED
      BY <1>5, <1>6, <2>2, <3>1
  <2> QED
    BY <1>1, <2>1, <2>3, <2>4, <2>5 DEF Owned
<1>9. Reported'
  <2>1. \A d : Stirred(d)' <=> Stirred(d)
    BY <1>2 DEF Stirred
  <2>2. Stirred(conn[f])
    BY <1>1, <1>3 DEF Reported
  <2>3. \A i \in 1..Len(tasks') : Stirred(conn[tasks'[i]])
    BY <1>5, <1>6, <2>2 DEF Reported
  <2>4. /\ ready' \subseteq watched' /\ batch' \subseteq watched' \cup {Listen}
        /\ \A g \in ready' : Stirred(conn[g])
        /\ \A g \in batch' : g # Listen => Stirred(conn[g])
    BY <1>1 DEF Reported
  <2> QED
    BY <1>1, <2>1, <2>3, <2>4 DEF Reported
<1> QED
  BY <1>1, <1>2, <1>7, <1>8, <1>9, Undisturbed

\* close() of a descriptor that no queue and no epoll set has: its connection, and
\* no other, is closed.
LEMMA CloseKeeps ==
    ASSUME IndInv, NEW f \in Fds, conn[f] # None, f \notin watched, Close(f),
           UNCHANGED <<backlog, batch, unread, peer>>
    PROVE  /\ conn[f] \in Clients
           /\ conn' \in [Fds -> Clients \cup {None}]
           /\ link' \in [Clients -> {"new", "backlog", "open", "closed"}]
           /\ watched' = watched /\ ready' = ready
           /\ \A g \in Fds : conn'[g] = IF g = f THEN None ELSE conn[g]
           /\ \A d \in Clients : link'[d] = IF d = conn[f] THEN "closed" ELSE link[d]
           /\ link[conn[f]] = "open"
           /\ Linked'
<1> USE DEF IndInv
<1> DEFINE c == conn[f]
<1>1. /\ conn \in [Fds -> Clients \cup {None}] /\ backlog \in Seq(Clients)
      /\ link \in [Clients -> {"new", "backlog", "open", "closed"}]
  BY DEF ServerType
<1>2. c \in Clients /\ link[c] = "open"
  BY <1>1 DEF Linked
<1>3. /\ conn' = [conn EXCEPT ![f] = None]
      /\ link' = [d \in Clients |-> IF c = d THEN "closed" ELSE link[d]]
      /\ watched' = watched \ {f} /\ ready' = ready \ {f}
  BY DEF Close
<1>4. watched' = watched /\ ready' = ready
  BY <1>3 DEF Reported
<1> HIDE DEF c
<1>5. /\ conn' \in [Fds -> Clients \cup {None}]
      /\ link' \in [Clients -> {"new", "backlog", "open", "closed"}]
      /\ \A g \in Fds : conn'[g] = IF g = f THEN None ELSE conn[g]
      /\ \A d \in Clients : link'[d] = IF d = c THEN "closed" ELSE link[d]
  BY <1>1, <1>3
<1>6. Linked'
  <2>1. \A g \in Fds : g # f /\ conn[g] # None => conn[g] # c /\ conn[g] \in Clients
    BY <1>1 DEF Linked, c
  <2>2. \A i \in 1..Len(backlog) : backlog[i] # c /\ backlog[i] \in Clients
    BY <1>1, <1>2 DEF Linked
  <2> QED
    BY <1>5, <2>1, <2>2 DEF Linked
<1> QED
  BY <1>2, <1>4, <1>5, <1>6 DEF c

\* The first task, and what is left of the queue without it.
LEMMA FirstTask ==
    ASSUME IndInv, tasks # <<>>
    PROVE  /\ Head(tasks) \in Fds /\ conn[Head(tasks)] \in Clients
           /\ Head(tasks) \notin watched
           /\ \A w \in Workers : Busy(w) => worker[w].fd # Head(tasks)
           /\ Stirred(conn[Head(tasks)])
           /\ Tail(tasks) \in Seq(Fds)
           /\ \A i \in 1..Len(Tail(tasks)) :
                 /\ Tail(tasks)[i] # Head(tasks)
                 /\ \E k \in 1..Len(tasks) : Tail(tasks)[i] = tasks[k]
           /\ \A i, j \in 1..Len(Tail(tasks)) : Tail(tasks)[i] = Tail(tasks)[j] => i = j
<1> USE DEF IndInv
<1>1. tasks \in Seq(Fds) /\ Len(tasks) \in Nat /\ conn \in [Fds -> Clients \cup {None}]
  BY DEF ServerType
<1>2. /\ Len(tasks) # 0 /\ Head(tasks) = tasks[1] /\ 1 \in 1..Len(tasks)
      /\ Len(Tail(tasks)) = Len(tasks) - 1 /\ Tail(tasks) \in Seq(Fds)
      /\ \A i \in 1..(Len(tasks) - 1) : Tail(tasks)[i] = tasks[i + 1]
  BY <1>1
<1>3. Head(tasks) \in Fds /\ conn[Head(tasks)] \in Clients /\ Head(tasks) \notin watched
  BY <1>1, <1>2 DEF Owned
<1>4. \A w \in Workers : Busy(w) => worker[w].fd # Head(tasks)
  BY <1>2 DEF Owned
<1>5. Stirred(conn[Head(tasks)])
  BY <1>2 DEF Reported
<1>6. \A k, l \in 1..Len(tasks) : tasks[k] = tasks[l] => k = l
  BY DEF Owned
<1>7. \A i \in 1..Len(Tail(tasks)) :
          i \in Nat /\ i + 1 \in 1..Len(tasks) /\ i + 1 # 1 /\ Tail(tasks)[i] = tasks[i + 1]
  BY <1>1, <1>2
<1>8. \A i \in 1..Len(Tail(tasks)) :
          /\ Tail(tasks)[i] # Head(tasks)
          /\ \E k \in 1..Len(tasks) : Tail(tasks)[i] = tasks[k]
  BY <1>2, <1>6, <1>7
<1>9. \A i, j \in 1..Len(Tail(tasks)) : Tail(tasks)[i] = Tail(tasks)[j] => i = j
  <2> SUFFICES ASSUME NEW i \in 1..Len(Tail(tasks)), NEW j \in 1..Len(Tail(tasks)),
                      Tail(tasks)[i] = Tail(tasks)[j]
               PROVE  i = j
    OBVIOUS
  <2>1. i + 1 = j + 1 /\ i \in Nat /\ j \in Nat
    BY <1>6, <1>7
  <2> QED
    BY <2>1
<1> QED
  BY <1>2, <1>3, <1>4, <1>5, <1>8, <1>9

LEMMA RecvNothingInv == ASSUME IndInv, NEW w \in Workers, RecvNothing(w) PROVE IndInv'
<1> USE DEF IndInv
<1> DEFINE f == Head(tasks)
           c == conn[f]
<1>1. /\ tasks # <<>> /\ (c = None \/ unread[c] = 0) /\ Close(f) /\ tasks' = Tail(tasks)
      /\ UNCHANGED <<net, served, backlog, loop, worker, cache, alive>>
  BY DEF RecvNothing
<1>2. UNCHANGED <<path, sent, peer, unread, batch, items, hits, misses>>
  BY <1>1 DEF net, loop, cache
<1>3. /\ f \in Fds /\ c \in Clients /\ f \notin watched
      /\ \A v \in Workers : Busy(v) => worker[v].fd # f
      /\ Stirred(c) /\ tasks' \in Seq(Fds)
      /\ \A i \in 1..Len(tasks') : tasks'[i] # f /\ \E k \in 1..Len(tasks) : tasks'[i] = tasks[k]
      /\ \A i, j \in 1..Len(tasks') : tasks'[i] = tasks'[j] => i = j
  BY <1>1, FirstTask
<1>4. c # None
  BY <1>3, ServerAssumption
<1>5. peer[c] # "up"
  BY <1>1, <1>3, <1>4 DEF Stirred
<1>6. /\ conn' \in [Fds -> Clients \cup {None}]
      /\ link' \in [Clients -> {"new", "backlog", "open", "closed"}]
      /\ watched' = watched /\ ready' = ready
      /\ \A g \in Fds : conn'[g] = IF g = f THEN None ELSE conn[g]
      /\ \A d \in Clients : link'[d] = IF d = c THEN "closed" ELSE link[d]
      /\ Linked'
  BY <1>1, <1>2, <1>3, <1>4, CloseKeeps
<1> HIDE DEF f, c
<1>7. ServerType'
  BY <1>1, <1>2, <1>3, <1>6 DEF ServerType
<1>8. tasks \in Seq(Fds) /\ \A i \in 1..Len(tasks) : tasks[i] \in Fds
  BY DEF ServerType
<1>9. \A v \in Workers : Busy(v)' <=> Busy(v)
  BY <1>1 DEF Busy
<1>10. Owned'
  BY <1>1, <1>3, <1>6, <1>8, <1>9 DEF Owned
<1>11. Reported'
  <2>1. \A d : Stirred(d)' <=> Stirred(d)
    BY <1>2 DEF Stirred
  <2>2. watched \subseteq Fds
    BY DEF Owned
  <2>3. /\ \A g \in ready : conn'[g] = conn[g]
        /\ \A g \in batch : g # Listen => conn'[g] = conn[g]
    BY <1>3, <1>6, <2>2 DEF Reported
  <2>4. \A i \in 1..Len(tasks') : Stirred(conn'[tasks'[i]])
    <3> SUFFICES ASSUME NEW i \in 1..Len(tasks') PROVE Stirred(conn'[tasks'[i]])
      OBVIOUS
    <3>1. PICK k \in 1..Len(tasks) : tasks'[i] = tasks[k]
      BY <1>3
    <3>2. tasks'[i] \in Fds /\ tasks'[i] # f
      BY <1>3, <1>8, <3>1
    <3>3. conn'[tasks'[i]] = conn[tasks[k]]
      BY <1>6, <3>1, <3>2
    <3> QED
      BY <3>3 DEF Reported
  <2> QED
    BY <1>2, <1>6, <2>1, <2>3, <2>4 DEF Reported
<1>12. Answered'
  <2>1. \A v \in Workers : Busy(v) => conn'[worker[v].fd] = conn[worker[v].fd]
    BY <1>3, <1>6 DEF Owned
  <2> QED
    BY <1>1, <1>2, <1>5, <1>6, <1>9, <2>1 DEF Answered, AnswerFor
<1> QED
  BY <1>1, <1>2, <1>6, <1>7, <1>10, <1>11, <1>12, Undisturbed

LEMMA RecvAndGetInv == ASSUME IndInv, NEW w \in Workers, RecvAndGet(w) PROVE IndInv'
<1> USE DEF IndInv
<1> DEFINE f == Head(tasks)
           c == conn[f]
           p == extract_path(c)
           found == p \in Range(items)
           j == [pc |-> IF found THEN "splice" ELSE "fetch", fd |-> f, path |-> p,
                 hit |-> FALSE]
<1>1. /\ worker[w] = Idle /\ tasks # <<>> /\ tasks' = Tail(tasks)
      /\ unread' = [unread EXCEPT ![c] = 0]
      /\ misses' = (IF found THEN misses ELSE misses + 1)
      /\ worker' = [worker EXCEPT ![w] = j]
      /\ UNCHANGED <<path, sent, peer, conns, loop, items, hits, alive>>
  BY DEF RecvAndGet
<1>2. UNCHANGED <<link, served, backlog, conn, watched, ready, batch>>
  BY <1>1 DEF conns, loop
<1>3. /\ f \in Fds /\ c \in Clients /\ f \notin watched
      /\ \A v \in Workers : Busy(v) => worker[v].fd # f
      /\ tasks' \in Seq(Fds)
      /\ \A i \in 1..Len(tasks') : tasks'[i] # f /\ \E k \in 1..Len(tasks) : tasks'[i] = tasks[k]
      /\ \A i, k \in 1..Len(tasks') : tasks'[i] = tasks'[k] => i = k
  BY <1>1, FirstTask
<1>4. c # None
  BY <1>3, ServerAssumption
<1>5. p \in {path[c], Root} /\ p \in Paths
  BY <1>3, ServerAssumption DEF extract_path, ServerType
<1>16. AnswerFor(c, p)
  <2>1. unread[c] > 0
    BY DEF RecvAndGet
  <2>2. c \notin Splits => unread[c] = 2
    BY <1>3, <2>1 DEF Whole
  <2> QED
    BY <1>5, <2>2 DEF AnswerFor, extract_path
<1>6. /\ j \in Jobs /\ j.fd = f /\ j.path = p /\ j.hit = FALSE
      /\ j.pc = (IF found THEN "splice" ELSE "fetch")
      /\ JobClass(j) = IF found THEN "none" ELSE "miss"
  BY <1>3, <1>5 DEF Jobs, JobClass
<1> HIDE DEF f, p, found, j
<1>7. /\ worker \in [Workers -> Jobs] /\ unread \in [Clients -> Nat] /\ misses \in Nat
      /\ conn \in [Fds -> Clients \cup {None}]
      /\ tasks \in Seq(Fds) /\ \A i \in 1..Len(tasks) : tasks[i] \in Fds
  BY DEF ServerType
<1>8. \A v \in Workers : worker'[v] = IF v = w THEN j ELSE worker[v]
  BY <1>1, <1>7
<1>9. ServerType'
  <2>1. worker' \in [Workers -> Jobs]
    BY <1>1, <1>6, <1>7
  <2>2. unread' \in [Clients -> Nat]
    <3> HIDE DEF c
    <3> QED
      BY <1>1, <1>7
  <2>3. misses' \in Nat
    BY <1>1, <1>7
  <2> QED
    BY <1>1, <1>2, <1>3, <2>1, <2>2, <2>3 DEF ServerType
<1>10. Busy(w)' /\ \A v \in Workers : v # w => (Busy(v)' <=> Busy(v)) /\ worker'[v] = worker[v]
  BY <1>6, <1>8 DEF Busy
<1>11. worker'[w] = j
  BY <1>8
<1>17. Whole'
  <2> HIDE DEF c
  <2>1. \A d \in Clients : unread'[d] = IF d = c THEN 0 ELSE unread[d]
    BY <1>1, <1>7
  <2> QED
    BY <1>1, <2>1 DEF Whole
<1>12. Owned'
  <2>1. \A g \in watched' : /\ conn'[g] # None
                            /\ \A i \in 1..Len(tasks') : tasks'[i] # g
                            /\ \A v \in Workers : Busy(v)' => worker'[v].fd # g
    BY <1>2, <1>3, <1>6, <1>10, <1>11 DEF Owned
  <2>2. \A i \in 1..Len(tasks') : /\ conn'[tasks'[i]] # None
                                  /\ \A v \in Workers : Busy(v)' => worker'[v].fd # tasks'[i]
    BY <1>2, <1>3, <1>6, <1>10, <1>11, SMTT(60) DEF Owned
  <2>3. \A v \in Workers : Busy(v)' => worker'[v].fd \in Fds /\ conn'[worker'[v].fd] # None
    BY <1>2, <1>3, <1>4, <1>6, <1>10, <1>11 DEF Owned
  <2>4. \A u, v \in Workers :
            Busy(u)' /\ Busy(v)' /\ worker'[u].fd = worker'[v].fd => u = v
    BY <1>3, <1>6, <1>10, <1>11 DEF Owned
  <2> QED
    BY <1>2, <1>3, <2>1, <2>2, <2>3, <2>4 DEF Owned
<1>13. Reported'
  <2>1. \A d \in Clients : d # c => (Stirred(d)' <=> Stirred(d))
    BY <1>1, <1>7 DEF Stirred
  <2>2. \A g \in Fds : g # f /\ conn[g] # None => conn[g] \in Clients /\ conn[g] # c
    BY <1>3, <1>4, <1>7 DEF Linked
  <2>3. \A g \in watched : g \in Fds /\ g # f /\ conn[g] # None
    BY <1>3 DEF Owned
  <2>4. \A i \in 1..Len(tasks') :
            /\ tasks'[i] \in Fds /\ tasks'[i] # f /\ conn[tasks'[i]] # None
            /\ Stirred(conn[tasks'[i]])
    BY <1>3, <1>7 DEF Owned, Reported
  <2>5. \A i \in 1..Len(tasks') : Stirred(conn[tasks[i]])'
    <3> SUFFICES ASSUME NEW i \in 1..Len(tasks')
                 PROVE  unread'[conn'[tasks'[i]]] > 0 \/ peer'[conn'[tasks'[i]]] # "up"
      BY DEF Stirred
    <3> DEFINE d == conn[tasks'[i]]
    <3>1. d \in Clients /\ d # c /\ Stirred(d) /\ conn'[tasks'[i]] = d
      BY <1>2, <2>2, <2>4
    <3> HIDE DEF d
    <3>2. unread'[d] = unread[d] /\ peer'[d] = peer[d]
      BY <1>1, <1>7, <3>1
    <3> QED
      BY <3>1, <3>2 DEF Stirred
  <2>6. \A g \in watched : Stirred(conn[g]) => Stirred(conn[g])'
    <3> SUFFICES ASSUME NEW g \in watched, Stirred(conn[g])
                 PROVE  unread'[conn'[g]] > 0 \/ peer'[conn'[g]] # "up"
      BY <1>2 DEF Stirred
    <3> DEFINE d == conn[g]
    <3>1. d \in Clients /\ d # c /\ Stirred(d) /\ conn'[g] = d
      BY <1>2, <2>2, <2>3
    <3> HIDE DEF d
    <3>2. unread'[d] = unread[d] /\ peer'[d] = peer[d]
      BY <1>1, <1>7, <3>1
    <3> QED
      BY <3>1, <3>2 DEF Stirred
  <2>7. /\ ready \subseteq watched /\ batch \subseteq watched \cup {Listen}
        /\ \A g \in ready : Stirred(conn[g])
        /\ \A g \in batch : g # Listen => Stirred(conn[g])
    BY DEF Reported
  <2>8. /\ \A g \in ready : Stirred(conn[g])'
        /\ \A g \in batch : g # Listen => Stirred(conn[g])'
    BY <2>6, <2>7
  <2>9. /\ \A g \in ready' : Stirred(conn[g])'
        /\ \A g \in batch' : g # Listen => Stirred(conn[g])'
        /\ \A i \in 1..Len(tasks') : Stirred(conn[tasks[i]])'
    BY <1>2, <2>5, <2>8 DEF Stirred
  <2> QED
    BY <1>2, <2>7, <2>9 DEF Reported
<1>14. Answered'
  <2>1. \A v \in Workers : Busy(v)' => AnswerFor(conn[worker[v].fd], worker[v].path)'
    <3> SUFFICES ASSUME NEW v \in Workers, Busy(v)'
                 PROVE  AnswerFor(conn'[worker'[v].fd], worker'[v].path)
      BY <1>1 DEF AnswerFor
    <3>1. CASE v = w
      BY <1>2, <1>6, <1>11, <1>16, <3>1
    <3>2. CASE v # w
      BY <1>2, <1>10, <3>2 DEF Answered
    <3> QED
      BY <3>1, <3>2
  <2>2. \A v \in Workers : worker'[v].pc \in {"splice", "fetch"} => worker'[v].hit = FALSE
    BY <1>6, <1>8 DEF Answered
  <2> QED
    BY <1>1, <1>2, <2>1, <2>2 DEF Answered, AnswerFor
<1>15. Counted'
  <2>1. JobClass(worker[w]) = "none"
    BY <1>1 DEF Idle, JobClass
  <2>2. Count(Workers, Working, "hit") \in Nat /\ Count(Workers, Working, "miss") \in Nat
        /\ Count(Workers, Working', "hit") = Count(Workers, Working, "hit")
        /\ Count(Workers, Working', "miss") =
              IF found THEN Count(Workers, Working, "miss")
                       ELSE Count(Workers, Working, "miss") + 1
    BY <1>1, <1>6, <1>7, <2>1, WorkerMoves
  <2>3. Replied' = Replied
    BY <1>2 DEF Replied
  <2>4. IsFiniteSet({x \in Clients : Replied[x] = "miss"})
    BY ServerAssumption, FS_Subset
  <2>5. Count(Clients, Replied, "miss") \in Nat
    BY <2>4, FS_CardinalityType DEF Count
  <2> QED
    BY <1>1, <1>7, <2>2, <2>3, <2>5 DEF Counted
<1> QED
  BY <1>1, <1>2, <1>9, <1>12, <1>13, <1>14, <1>15, <1>17, Undisturbed

\* A busy worker goes on with the same connection and path.
LEMMA JobGoesOn ==
    ASSUME IndInv, NEW w \in Workers, Busy(w), NEW j \in Jobs, j.pc # "pop",
           j.fd = worker[w].fd, j.path = worker[w].path,
           j.pc \in {"splice", "fetch"} => j.hit = FALSE,
           worker' = [worker EXCEPT ![w] = j],
           UNCHANGED <<path, peer, link, served, conn, watched, tasks>>
    PROVE  worker' \in [Workers -> Jobs] /\ Owned' /\ Answered'
<1> USE DEF IndInv
<1>1. worker \in [Workers -> Jobs]
  BY DEF ServerType
<1>2. \A v \in Workers : worker'[v] = IF v = w THEN j ELSE worker[v]
  BY <1>1
<1>3. \A v \in Workers : /\ Busy(v)' <=> Busy(v)
                         /\ worker'[v].fd = worker[v].fd /\ worker'[v].path = worker[v].path
  BY <1>2 DEF Busy
<1>4. worker' \in [Workers -> Jobs]
  BY <1>1
<1>5. Owned'
  BY <1>3 DEF Owned
<1>6. \A v \in Workers : worker'[v].pc \in {"splice", "fetch"} => worker'[v].hit = FALSE
  BY <1>2 DEF Answered, AnswerFor
<1>7. Answered'
  BY <1>3, <1>6 DEF Answered, AnswerFor
<1> QED
  BY <1>4, <1>5, <1>7

\* The counts are numbers.
LEMMA CountsNat ==
    \A o : Count(Workers, Working, o) \in Nat /\ Count(Clients, Replied, o) \in Nat
<1> SUFFICES ASSUME NEW o
             PROVE  Count(Workers, Working, o) \in Nat /\ Count(Clients, Replied, o) \in Nat
  OBVIOUS
<1>1. IsFiniteSet({x \in Workers : Working[x] = o}) /\ IsFiniteSet({x \in Clients : Replied[x] = o})
  BY ServerAssumption, FS_Subset
<1> QED
  BY <1>1, FS_CardinalityType DEF Count

LEMMA SpliceInv == ASSUME IndInv, NEW w \in Workers, Splice(w) PROVE IndInv'
<1> USE DEF IndInv
<1> DEFINE p == worker[w].path
           found == p \in Range(items)
           j == IF found THEN [worker[w] EXCEPT !.pc = "send", !.hit = TRUE]
                         ELSE [worker[w] EXCEPT !.pc = "fetch"]
<1>1. /\ worker[w].pc = "splice" /\ worker' = [worker EXCEPT ![w] = j]
      /\ hits' = (IF found THEN hits + 1 ELSE hits)
      /\ misses' = (IF found THEN misses ELSE misses + 1)
      /\ items' = (IF found THEN ToFront(p) ELSE items)
      /\ UNCHANGED <<net, conns, loop, tasks, alive>>
  <2>1. CASE found
    BY <2>1 DEF Splice, ServerType
  <2>2. CASE ~found
    BY <2>2 DEF Splice, ServerType
  <2> QED
    BY <2>1, <2>2
<1>2. UNCHANGED <<path, sent, peer, unread, link, served, backlog, conn, watched, ready, batch>>
  BY <1>1 DEF net, conns, loop
<1>3. worker[w] \in Jobs /\ worker \in [Workers -> Jobs] /\ hits \in Nat /\ misses \in Nat
      /\ items \in Seq(Paths)
  BY DEF ServerType
<1>4. worker[w].hit = FALSE
  BY <1>1 DEF Answered, AnswerFor
<1>5. /\ j \in Jobs /\ j.pc # "pop" /\ j.fd = worker[w].fd /\ j.path = worker[w].path
      /\ j.pc \in {"splice", "fetch"} => j.hit = FALSE
      /\ JobClass(j) = IF found THEN "hit" ELSE "miss"
  <2>1. CASE found
    BY <1>3, <2>1 DEF Jobs, JobClass
  <2>2. CASE ~found
    BY <1>3, <1>4, <2>2 DEF Jobs, JobClass
  <2> QED
    BY <2>1, <2>2
<1>6. Busy(w) /\ JobClass(worker[w]) = "none"
  BY <1>1 DEF Busy, JobClass
<1> HIDE DEF p, found, j
<1>7. worker' \in [Workers -> Jobs] /\ Owned' /\ Answered'
  BY <1>1, <1>2, <1>5, <1>6, JobGoesOn
<1>8. items' \in Seq(Paths) /\ ListSound(items')
  BY <1>1, <1>3, ToFrontSound DEF found
<1>9. ServerType'
  BY <1>1, <1>2, <1>3, <1>7, <1>8 DEF ServerType
<1>10. Counted'
  <2>1. /\ Count(Workers, Working', "hit") =
              (IF found THEN Count(Workers, Working, "hit") + 1
                        ELSE Count(Workers, Working, "hit"))
        /\ Count(Workers, Working', "miss") =
              (IF found THEN Count(Workers, Working, "miss")
                        ELSE Count(Workers, Working, "miss") + 1)
    <3>1. \A o : Count(Workers, Working', o) =
              IF JobClass(worker[w]) = JobClass(j) THEN Count(Workers, Working, o)
              ELSE IF o = JobClass(j) THEN Count(Workers, Working, o) + 1
              ELSE IF o = JobClass(worker[w]) THEN Count(Workers, Working, o) - 1
              ELSE Count(Workers, Working, o)
      BY <1>1, <1>3, WorkerMoves
    <3>2. CASE found
      BY <1>5, <1>6, <3>1, <3>2
    <3>3. CASE ~found
      BY <1>5, <1>6, <3>1, <3>3
    <3> QED
      BY <3>2, <3>3
  <2>2. Replied' = Replied
    BY <1>2 DEF Replied
  <2> QED
    BY <1>1, <1>3, <2>1, <2>2, CountsNat DEF Counted
<1> QED
  BY <1>1, <1>2, <1>7, <1>8, <1>9, <1>10, Undisturbed

LEMMA FetchAndPutInv == ASSUME IndInv, NEW w \in Workers, FetchAndPut(w) PROVE IndInv'
<1> USE DEF IndInv
<1> DEFINE j == [worker[w] EXCEPT !.pc = "send"]
<1>1. /\ worker[w].pc = "fetch" /\ worker' = [worker EXCEPT ![w] = j]
      /\ items' = put(worker[w].path)
      /\ UNCHANGED <<net, conns, loop, tasks, hits, misses, alive>>
  BY DEF FetchAndPut
<1>2. UNCHANGED <<path, sent, peer, unread, link, served, backlog, conn, watched, ready, batch>>
  BY <1>1 DEF net, conns, loop
<1>3. worker[w] \in Jobs /\ worker \in [Workers -> Jobs] /\ items \in Seq(Paths)
  BY DEF ServerType
<1>4. Busy(w) /\ worker[w].hit = FALSE
  BY <1>1 DEF Busy, Answered, AnswerFor
<1>5. worker[w].path \in Paths
  BY <1>4, ServerAssumption DEF Answered, AnswerFor, Owned, ServerType
<1>6. /\ j \in Jobs /\ j.pc # "pop" /\ j.fd = worker[w].fd /\ j.path = worker[w].path
      /\ j.pc \in {"splice", "fetch"} => j.hit = FALSE
      /\ JobClass(j) = "miss" /\ JobClass(worker[w]) = "miss"
  BY <1>1, <1>3, <1>4 DEF Jobs, JobClass
<1> HIDE DEF j
<1>7. worker' \in [Workers -> Jobs] /\ Owned' /\ Answered'
  BY <1>1, <1>2, <1>4, <1>6, JobGoesOn
<1>8. items' \in Seq(Paths) /\ ListSound(items')
  BY <1>1, <1>3, <1>5, PutSound
<1>9. ServerType'
  BY <1>1, <1>2, <1>7, <1>8 DEF ServerType
<1>10. Counted'
  <2>1. /\ Count(Workers, Working', "hit") = Count(Workers, Working, "hit")
        /\ Count(Workers, Working', "miss") = Count(Workers, Working, "miss")
    <3>1. worker' = [worker EXCEPT ![w] = j] /\ JobClass(worker[w]) = JobClass(j)
      BY <1>1, <1>6
    <3>2. ASSUME NEW o PROVE Count(Workers, Working', o) = Count(Workers, Working, o)
      BY <1>3, <3>1, WorkerMoves, Zenon
    <3> QED
      BY <3>2
  <2>2. Replied' = Replied
    BY <1>2 DEF Replied
  <2> QED
    BY <1>1, <2>1, <2>2 DEF Counted
<1> QED
  BY <1>1, <1>2, <1>7, <1>8, <1>9, <1>10, Undisturbed

LEMMA AnswerInv == ASSUME IndInv, NEW w \in Workers, Answer(w) PROVE IndInv'
<1> USE DEF IndInv
<1> DEFINE f == worker[w].fd
           c == conn[f]
           r == [path |-> worker[w].path, hit |-> worker[w].hit]
<1>1. worker[w].pc = "send" /\ UNCHANGED <<net, loop, tasks, cache>>
  BY DEF Answer
<1>2. UNCHANGED <<path, sent, peer, unread, batch, items, hits, misses>>
  BY <1>1 DEF net, loop, cache
<1>3. CASE UNCHANGED <<conns, worker>>
  <2>1. UNCHANGED <<link, served, backlog, conn, watched, ready, worker>>
    BY <1>3 DEF conns
  <2>2. ServerType'
    BY <1>1, <1>2, <2>1 DEF ServerType
  <2> QED
    BY <1>1, <1>2, <2>1, <2>2, Undisturbed
<1>4. CASE /\ served' = [d \in Clients |-> IF d = c THEN r ELSE served[d]]
           /\ Close(f) /\ worker' = [worker EXCEPT ![w] = Idle]
           /\ UNCHANGED <<backlog, alive>>
  <2>1. worker[w] \in Jobs /\ worker \in [Workers -> Jobs] /\ hits \in Nat /\ misses \in Nat
        /\ served \in [Clients -> Replies \cup {None}]
    BY DEF ServerType
  <2>2. /\ Busy(w) /\ f \in Fds /\ c # None /\ f \notin watched
        /\ \A i \in 1..Len(tasks) : tasks[i] # f
        /\ \A v \in Workers : v # w /\ Busy(v) => worker[v].fd # f
    BY <1>1 DEF Busy, Owned
  <2>3. /\ c \in Clients
        /\ conn' \in [Fds -> Clients \cup {None}]
        /\ link' \in [Clients -> {"new", "backlog", "open", "closed"}]
        /\ watched' = watched /\ ready' = ready
        /\ \A g \in Fds : conn'[g] = IF g = f THEN None ELSE conn[g]
        /\ \A d \in Clients : link'[d] = IF d = c THEN "closed" ELSE link[d]
        /\ link[c] = "open"
        /\ Linked'
    BY <1>2, <1>4, <2>2, CloseKeeps
  <2>4. AnswerFor(c, r.path) /\ r.path \in Paths /\ r \in Replies
    <3>1. AnswerFor(c, worker[w].path) /\ path[c] \in Paths
      BY <2>2, <2>3 DEF Answered, ServerType
    <3>2. worker[w].path \in Paths
      BY <3>1, ServerAssumption DEF AnswerFor
    <3> QED
      BY <2>1, <3>1, <3>2, ServerAssumption DEF Replies, Jobs
  <2>5. r # None
    BY <2>4, ServerAssumption DEF Replies
  <2>6. Idle \in Jobs /\ Idle.pc = "pop"
    BY DEF Idle, Jobs
  <2>7. /\ \A v \in Workers : worker'[v] = IF v = w THEN Idle ELSE worker[v]
        /\ worker' \in [Workers -> Jobs]
    BY <1>4, <2>1, <2>6
  <2>8. \A v \in Workers : Busy(v)' => v # w /\ Busy(v) /\ worker'[v] = worker[v]
    BY <2>6, <2>7 DEF Busy
  <2>9. /\ served' \in [Clients -> Replies \cup {None}]
        /\ \A d \in Clients : served'[d] = IF d = c THEN r ELSE served[d]
    <3> HIDE DEF r, c
    <3> QED
      BY <1>4, <2>1, <2>3, <2>4
  <2>10. /\ JobClass(Idle) = "none" /\ JobClass(worker[w]) = ReplyClass(r)
         /\ ReplyClass(r) \in {"hit", "miss"}
    BY <1>1, <2>5 DEF Idle, JobClass, ReplyClass
  <2>11. tasks \in Seq(Fds) /\ \A i \in 1..Len(tasks) : tasks[i] \in Fds
    BY DEF ServerType
  <2> HIDE DEF f, c, r
  <2>12. ServerType'
    BY <1>1, <1>2, <1>4, <2>3, <2>7, <2>9 DEF ServerType
  <2>13. Owned'
    <3>1. watched \subseteq Fds /\ \A g \in watched : g # f
      BY <2>2 DEF Owned
    <3>2. \A v \in Workers : Busy(v)' => worker'[v].fd \in Fds /\ worker'[v].fd # f
      BY <2>2, <2>8 DEF Owned
    <3> QED
      BY <1>1, <2>2, <2>3, <2>8, <2>11, <3>1, <3>2 DEF Owned
  <2>14. Reported'
    <3>1. \A d : Stirred(d)' <=> Stirred(d)
      BY <1>2 DEF Stirred
    <3>2. \A g \in watched : conn'[g] = conn[g]
      BY <2>2, <2>3 DEF Owned
    <3>3. \A i \in 1..Len(tasks) : conn'[tasks[i]] = conn[tasks[i]]
      BY <2>2, <2>3, <2>11
    <3> QED
      BY <1>1, <1>2, <2>3, <3>1, <3>2, <3>3 DEF Reported
  <2>15. Answered'
    <3>1. \A v \in Workers : Busy(v)' => AnswerFor(conn[worker[v].fd], worker[v].path)'
      <4> SUFFICES ASSUME NEW v \in Workers, Busy(v)'
                   PROVE  AnswerFor(conn'[worker'[v].fd], worker'[v].path)
        BY <1>2 DEF AnswerFor
      <4>1. worker'[v] = worker[v] /\ Busy(v) /\ worker[v].fd \in Fds /\ worker[v].fd # f
        BY <2>2, <2>8 DEF Owned
      <4> QED
        BY <2>3, <4>1 DEF Answered
    <3>2. \A v \in Workers : worker'[v].pc \in {"splice", "fetch"} => worker'[v].hit = FALSE
      BY <2>6, <2>7 DEF Answered, AnswerFor
    <3>3. \A d \in Clients : served'[d] # None =>
              link'[d] = "closed" /\ AnswerFor(d, served[d].path)'
      BY <1>2, <2>3, <2>4, <2>9 DEF Answered, AnswerFor
    <3>4. \A d \in Clients : link'[d] = "closed" /\ peer'[d] = "up" => served'[d] # None
      BY <1>2, <2>3, <2>5, <2>9 DEF Answered, AnswerFor
    <3> QED
      BY <3>1, <3>2, <3>3, <3>4 DEF Answered, AnswerFor
  <2>16. Counted'
    <3>1. served[c] = None
      BY <2>3 DEF Answered, AnswerFor
    <3>2. Replied[c] = "none" /\ Replied'[c] = ReplyClass(r)
          /\ \A d \in Clients : d # c => Replied'[d] = Replied[d]
      BY <2>3, <2>9, <3>1 DEF Replied, ReplyClass
    <3>3. \A o \in {"hit", "miss"} :
             Count(Clients, Replied', o) = IF o = ReplyClass(r) THEN Count(Clients, Replied, o) + 1
                                           ELSE Count(Clients, Replied, o)
      <4> SUFFICES ASSUME NEW o \in {"hit", "miss"}
                   PROVE  Count(Clients, Replied', o) =
                            IF o = ReplyClass(r) THEN Count(Clients, Replied, o) + 1
                            ELSE Count(Clients, Replied, o)
        OBVIOUS
      <4>1. Count(Clients, Replied', o) =
                IF Replied[c] = Replied'[c] THEN Count(Clients, Replied, o)
                ELSE IF o = Replied'[c] THEN Count(Clients, Replied, o) + 1
                ELSE IF o = Replied[c] THEN Count(Clients, Replied, o) - 1
                ELSE Count(Clients, Replied, o)
        <5>1. IsFiniteSet(Clients)
          BY ServerAssumption
        <5>2. PICK d \in Clients : d = c
          BY <2>3
        <5>3. \A e \in Clients : e # d => Replied'[e] = Replied[e]
          BY <3>2, <5>2
        <5>4. Count(Clients, Replied', o) =
                IF Replied[d] = Replied'[d] THEN Count(Clients, Replied, o)
                ELSE IF o = Replied'[d] THEN Count(Clients, Replied, o) + 1
                ELSE IF o = Replied[d] THEN Count(Clients, Replied, o) - 1
                ELSE Count(Clients, Replied, o)
          BY <5>1, <5>3, CountMove
        <5> QED
          BY <5>2, <5>4
      <4> QED
        BY <2>10, <3>2, <4>1
    <3>4. \A o \in {"hit", "miss"} :
             Count(Workers, Working', o) = IF o = ReplyClass(r) THEN Count(Workers, Working, o) - 1
                                           ELSE Count(Workers, Working, o)
      <4> SUFFICES ASSUME NEW o \in {"hit", "miss"}
                   PROVE  Count(Workers, Working', o) =
                            IF o = ReplyClass(r) THEN Count(Workers, Working, o) - 1
                            ELSE Count(Workers, Working, o)
        OBVIOUS
      <4>1. Count(Workers, Working', o) =
                IF JobClass(worker[w]) = JobClass(Idle) THEN Count(Workers, Working, o)
                ELSE IF o = JobClass(Idle) THEN Count(Workers, Working, o) + 1
                ELSE IF o = JobClass(worker[w]) THEN Count(Workers, Working, o) - 1
                ELSE Count(Workers, Working, o)
        BY <1>4, <2>1, WorkerMoves
      <4> QED
        BY <2>10, <4>1
    <3>5. \A o \in {"hit", "miss"} :
             Count(Clients, Replied', o) + Count(Workers, Working', o) =
                Count(Clients, Replied, o) + Count(Workers, Working, o)
      <4> SUFFICES ASSUME NEW o \in {"hit", "miss"}
                   PROVE  Count(Clients, Replied', o) + Count(Workers, Working', o) =
                            Count(Clients, Replied, o) + Count(Workers, Working, o)
        OBVIOUS
      <4>1. Count(Workers, Working, o) \in Nat /\ Count(Clients, Replied, o) \in Nat
        BY CountsNat
      <4> QED
        BY <3>3, <3>4, <4>1
    <3> QED
      BY <1>2, <3>5 DEF Counted
  <2> QED
    BY <1>1, <1>2, <2>3, <2>12, <2>13, <2>14, <2>15, <2>16, Undisturbed
<1>5. \/ UNCHANGED <<conns, worker>>
      \/ /\ served' = [d \in Clients |-> IF d = c THEN r ELSE served[d]]
         /\ Close(f) /\ worker' = [worker EXCEPT ![w] = Idle]
         /\ UNCHANGED <<backlog, alive>>
  BY DEF Answer
<1> QED
  BY <1>3, <1>4, <1>5

LEMMA NextInv == IndInv /\ [Next]_vars => IndInv'
<1> SUFFICES ASSUME IndInv, [Next]_vars PROVE IndInv'
  OBVIOUS
<1>1. CASE UNCHANGED vars
  <2>1. UNCHANGED <<path, sent, peer, unread, link, served, backlog, conn, watched, ready,
                    batch, tasks, worker, items, hits, misses>>
    BY <1>1 DEF vars, net, conns, loop, cache
  <2>2. ServerType'
    BY <2>1 DEF IndInv, ServerType
  <2> QED
    BY <2>1, <2>2, Undisturbed DEF IndInv
<1>2. CASE Next
  <2>1. ASSUME NEW c \in Clients, Connect(c) \/ Send(c) \/ Leave(c) PROVE IndInv'
    BY <2>1, ConnectInv, SendInv, LeaveInv
  <2>2. CASE Main
    BY <2>2, WaitInv, ListenerInv, AcceptInv, DispatchInv DEF Main
  <2>3. ASSUME NEW w \in Workers, Work(w) PROVE IndInv'
    BY <2>3, RecvNothingInv, RecvAndGetInv, SpliceInv, FetchAndPutInv, AnswerInv DEF Work
  <2> QED
    BY <1>2, <2>1, <2>2, <2>3 DEF Next
<1> QED
  BY <1>1, <1>2

------------------------------------------------------------------------------
(* The theorems.                                                           *)

\* Whatever main(), the workers and the clients interleave: an open descriptor is in
\* the epoll set, in one task or with one worker, and is pushed only for a reason.
THEOREM Invariance == Spec => []IndInv
  BY InitInv, NextInv, PTL DEF Spec

\* A connection whose client did not leave is closed only with an answer, for its
\* own path; for "/" only if its request came in pieces (ClosedAnswered).
THEOREM NoStrayClose == Spec => []ClosedAnswered
<1>1. IndInv => ClosedAnswered
  BY DEF IndInv, Answered, AnswerFor, ClosedAnswered
<1> QED
  BY <1>1, Invariance, PTL

\* Every lookup of get() is one hit or one miss, also when the entry goes between its
\* two locks, and the list has no key twice and keeps to the capacity (CacheAccounts).
THEOREM LookupsAddUp == Spec => []CacheAccounts
<1>1. IndInv => CacheAccounts
  <2> SUFFICES ASSUME IndInv PROVE CacheAccounts
    OBVIOUS
  <2>0. worker \in [Workers -> Jobs] /\ served \in [Clients -> Replies \cup {None}]
    BY DEF IndInv, ServerType
  <2>1. ASSUME NEW w \in Workers
        PROVE  /\ Working[w] = "hit" <=> worker[w].pc = "send" /\ worker[w].hit
               /\ Working[w] = "miss" <=> ~worker[w].hit /\ worker[w].pc \in {"fetch", "send"}
    <3>1. worker[w].pc \in {"splice", "fetch"} => worker[w].hit = FALSE
      BY DEF IndInv, Answered, AnswerFor
    <3>2. worker[w].hit \in BOOLEAN
      BY <2>0 DEF Jobs
    <3> QED
      BY <3>1, <3>2 DEF Working, JobClass
  <2>2. ASSUME NEW c \in Clients
        PROVE  /\ Replied[c] = "hit" <=> served[c] # None /\ served[c].hit = TRUE
               /\ Replied[c] = "miss" <=> served[c] # None /\ served[c].hit = FALSE
    <3>1. served[c] # None => served[c].hit \in BOOLEAN
      BY <2>0 DEF Replies
    <3> QED
      BY <3>1 DEF Replied, ReplyClass
  <2>3. /\ {w \in Workers : worker[w].pc = "send" /\ worker[w].hit} =
              {w \in Workers : Working[w] = "hit"}
        /\ {w \in Workers : ~worker[w].hit /\ worker[w].pc \in {"fetch", "send"}} =
              {w \in Workers : Working[w] = "miss"}
    BY <2>1
  <2>4. /\ {c \in Clients : served[c] # None /\ served[c].hit = TRUE} =
              {c \in Clients : Replied[c] = "hit"}
        /\ {c \in Clients : served[c] # None /\ served[c].hit = FALSE} =
              {c \in Clients : Replied[c] = "miss"}
    BY <2>2
  <2>5. /\ Serving(TRUE) = Count(Clients, Replied, "hit")
        /\ Serving(FALSE) = Count(Clients, Replied, "miss")
        /\ Cardinality({w \in Workers : worker[w].pc = "send" /\ worker[w].hit}) =
              Count(Workers, Working, "hit")
        /\ Cardinality({w \in Workers : ~worker[w].hit /\
                                        worker[w].pc \in {"fetch", "send"}}) =
              Count(Workers, Working, "miss")
    BY <2>3, <2>4 DEF Serving, Count
  <2>6. IsInjective(items) /\ Len(items) <= Capacity
    <3>1. items \in Seq(Paths) /\ DOMAIN items = 1..Len(items)
      BY DEF IndInv, ServerType
    <3>2. Len(items) <= Capacity /\ \A i, k \in DOMAIN items : items[i] = items[k] => i = k
      BY <3>1 DEF IndInv, ListSound
    <3> QED
      BY <3>2, Zenon DEF IsInjective
  <2> QED
    BY <2>5, <2>6 DEF IndInv, Counted, CacheAccounts
<1> QED
  BY <1>1, Invariance, PTL
==============================================================================
