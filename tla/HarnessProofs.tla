---------------------------- MODULE HarnessProofs ----------------------------
(***************************************************************************)
(* Proofs about the load generator and the test origin: what a thread      *)
(* counts as ok is the whole answer to the request it sent, and every      *)
(* request is counted once, for any number of threads, requests, workers   *)
(* and faults.                                                             *)
(***************************************************************************)
EXTENDS Harness, Integers, FiniteSetTheorems, SequenceTheorems,
        WellFoundedInduction, TLAPS

Piece == [kind : {"part", "req"}, path : Nat, close : BOOLEAN]
Chunk == [kind : {"head", "body"}, path : Nat \cup {None}]

Links == [up : Seq(Piece), down : Seq(Chunk), broken : BOOLEAN,
          client : {"none", "open", "closed"},
          server : {"none", "backlog", "open", "closed"}]
Hands == [pc : {"pop", "parse", "body"}, conn : Conns \cup {None},
          peer_closed : BOOLEAN, wants_close : BOOLEAN, path : Nat \cup {None}]

HarnessType ==
    /\ net \in [Conns -> Links]
    /\ faults \in Nat
    /\ inbuf \in [Conns -> Seq(Piece)]
    /\ armed \subseteq Conns
    /\ tasks \in Seq(Conns)
    /\ hand \in [Workers -> Hands]
    /\ g_keep_alive \in BOOLEAN /\ keep_alive \in BOOLEAN
    /\ at \in [Threads -> {"start", "rest", "read", "end", "done"}]
    /\ i \in [Threads -> Nat]
    /\ sock \in [Threads -> Conns \cup {NoSock}]
    /\ rbuf \in [Threads -> Seq(Chunk)]
    /\ last \in [Threads -> {<<>>} \cup (Nat \X Seq(Chunk))]
    /\ ok \in Nat /\ failed \in Nat

Busy(w) == hand[w].pc # "pop"

\* EPOLLONESHOT: a connection is armed, in one task or with one worker, and only
\* while the origin has it open.
Owned ==
    /\ \A k \in armed : /\ net[k].server = "open"
                        /\ \A n \in 1..Len(tasks) : tasks[n] # k
                        /\ \A w \in Workers : Busy(w) => hand[w].conn # k
    /\ \A n \in 1..Len(tasks) : /\ net[tasks[n]].server = "open"
                                /\ \A w \in Workers : Busy(w) => hand[w].conn # tasks[n]
    /\ \A n, m \in 1..Len(tasks) : tasks[n] = tasks[m] => n = m
    /\ \A w \in Workers : Busy(w) =>
          hand[w].conn \in Conns /\ net[hand[w].conn].server = "open"
    /\ \A v, w \in Workers :
          Busy(v) /\ Busy(w) /\ hand[v].conn = hand[w].conn => v = w

\* Where a thread is and what it has used of its connections: the one it has is
\* open, and those it may still open are as new.
PlacedOf(t) ==
    /\ i[t] <= Requests
    /\ at[t] \in {"start", "rest", "read"} => i[t] < Requests
    /\ at[t] \in {"end", "done"} => i[t] = Requests
    /\ at[t] \in {"rest", "read"} => sock[t] # NoSock
    /\ at[t] = "done" => sock[t] = NoSock
    /\ sock[t] # NoSock =>
          /\ sock[t][1] = t /\ sock[t][2] <= i[t] + 1
          /\ ~keep_alive => sock[t][2] = i[t] + 1 /\ at[t] # "end"
          /\ net[sock[t]].client = "open" /\ net[sock[t]].server # "none"
    /\ \A n \in 1..Requests : n > i[t] /\ sock[t] # <<t, n>> =>
          net[<<t, n>>] = Unused /\ inbuf[<<t, n>>] = <<>>

Placed == \A t \in Threads : PlacedOf(t)

\* The pieces of request p, whose last says c about closing, and of its response.
Part(p) == [kind |-> "part", path |-> p, close |-> FALSE]
Req(p, c) == [kind |-> "req", path |-> p, close |-> c]
HeadOf(p) == [kind |-> "head", path |-> p]
BodyOf(p) == [kind |-> "body", path |-> p]

\* The paths whose body a worker is about to write on connection k.
Writing(k) == {hand[w].path : w \in {v \in Workers : hand[v].pc = "body" /\ hand[v].conn = k}}

\* The pieces q of a request are out and nothing has come of them yet: ib is in
\* the origin's buffer, up with the kernel.
Asked(q, ib, up, dn, rb, wr) ==
    ib \o up = q /\ dn = <<>> /\ rb = <<>> /\ wr = {}

\* The pieces q of a response are out: dn with the kernel, rb in the thread's
\* buffer.
Answered(q, ib, up, dn, rb) ==
    ib = <<>> /\ up = <<>> /\ rb \o dn = q

\* A connection that is whole carries the pieces of its thread's request p, or of
\* the response to it, and nothing else.
InStep(a, p, c, ib, up, dn, rb, wr) ==
    /\ a \in {"start", "end"} => Asked(<<>>, ib, up, dn, rb, wr)
    /\ a = "rest" => Asked(<<Part(p)>>, ib, up, dn, rb, wr)
    /\ a = "read" =>
          \/ Asked(<<Part(p), Req(p, c)>>, ib, up, dn, rb, wr)
          \/ Answered(<<HeadOf(p)>>, ib, up, dn, rb) /\ wr = {p}
          \/ Answered(<<HeadOf(p), BodyOf(p)>>, ib, up, dn, rb) /\ wr = {}

\* After a reset there is nothing on the connection, and what has been read
\* begins the response.
CutOff(a, p, up, dn, rb) ==
    /\ up = <<>> /\ dn = <<>>
    /\ a \in {"start", "rest"} => rb = <<>>
    /\ a = "read" => rb \in {<<>>, <<HeadOf(p)>>, <<HeadOf(p), BodyOf(p)>>}

\* What a request says about closing.
Bye == ~keep_alive

StreamOf(t) ==
    LET k == sock[t]
    IN  IF net[k].broken
        THEN CutOff(at[t], i[t] + 1, net[k].up, net[k].down, rbuf[t])
        ELSE InStep(at[t], i[t] + 1, Bye, inbuf[k], net[k].up, net[k].down,
                    rbuf[t], Writing(k))

Streams == \A t \in Threads : sock[t] # NoSock => StreamOf(t)

\* Why the origin closes a connection: an end of file is the client's doing, and
\* so is a request that wants it.
HandsClosing ==
    \A w \in Workers : Busy(w) =>
        /\ hand[w].peer_closed => net[hand[w].conn].client = "closed"
        /\ \A t \in Threads : hand[w].wants_close /\ sock[t] = hand[w].conn => ~keep_alive

\* A connection that it closed of its own it has answered at least once.
ClosedOf(t) ==
    sock[t] # NoSock /\ ~net[sock[t]].broken /\ net[sock[t]].server = "closed" =>
        /\ keep_alive => ~g_keep_alive
        /\ \/ sock[t][2] <= i[t]
           \/ at[t] = "read" /\ rbuf[t] \o net[sock[t]].down =
                                   <<HeadOf(i[t] + 1), BodyOf(i[t] + 1)>>

Closing == HandsClosing /\ \A t \in Threads : ClosedOf(t)

\* Threads whose next failure is accounted for: their connection is broken, or
\* the origin may have closed it after an ok.
Exposed ==
    {t \in Threads :
        /\ sock[t] # NoSock /\ at[t] \in {"start", "rest", "read"}
        /\ \/ net[sock[t]].broken
           \/ keep_alive /\ ~g_keep_alive /\ sock[t][2] <= i[t]}

\* The requests that are behind their threads.
Finished == {k \in Conns : k[2] <= i[k[1]]}

Counted ==
    /\ ok + failed = Cardinality(Finished)
    /\ failed + Cardinality(Exposed) <=
           faults + (IF keep_alive /\ ~g_keep_alive THEN ok ELSE 0)

IndInv ==
    HarnessType /\ Owned /\ Placed /\ Streams /\ Closing /\ Counted /\ OwnResponse

------------------------------------------------------------------------------
(* The pieces on a connection                                              *)

LEMMA PieceTypes ==
    ASSUME NEW p \in Nat, NEW c \in BOOLEAN
    PROVE  /\ Part(p) \in Piece /\ Req(p, c) \in Piece
           /\ HeadOf(p) \in Chunk /\ BodyOf(p) \in Chunk
  BY DEF Part, Req, HeadOf, BodyOf, Piece, Chunk

LEMMA ReqParts ==
    ASSUME NEW p, NEW c
    PROVE  Req(p, c).path = p /\ Req(p, c).close = c
  BY DEF Req

\* Reading what the kernel holds, or some of it, moves the cut between the two
\* buffers and nothing else.
LEMMA CutMoves ==
    ASSUME NEW S, NEW u \in Seq(S), NEW v \in Seq(S), NEW n \in 0..Len(v)
    PROVE  /\ u \o SubSeq(v, 1, n) \in Seq(S) /\ SubSeq(v, n + 1, Len(v)) \in Seq(S)
           /\ (u \o SubSeq(v, 1, n)) \o SubSeq(v, n + 1, Len(v)) = u \o v
<1> DEFINE x == SubSeq(v, 1, n)
           y == SubSeq(v, n + 1, Len(v))
<1>1. /\ x \in Seq(S) /\ Len(x) = n /\ \A j \in 1..n : x[j] = v[j]
  BY SubSeqProperties, ElementOfSeq, LenProperties
<1>2. /\ y \in Seq(S) /\ Len(y) = Len(v) - n /\ \A j \in 1..(Len(v) - n) : y[j] = v[n + j]
  BY SubSeqProperties, ElementOfSeq, LenProperties
<1> HIDE DEF x, y
<1>3. x \o y = v
  <2> DEFINE z == x \o y
  <2>1. z \in Seq(S) /\ Len(z) = Len(x) + Len(y)
    BY <1>1, <1>2, ConcatProperties
  <2>2. Len(z) = Len(v)
    BY <1>1, <1>2, <2>1, LenProperties
  <2>3. \A j \in 1..(Len(x) + Len(y)) : z[j] = IF j <= Len(x) THEN x[j] ELSE y[j - Len(x)]
    BY <1>1, <1>2, ConcatProperties
  <2> HIDE DEF z
  <2>4. \A j \in 1..Len(z) : z[j] = v[j]
    BY <1>1, <1>2, <2>1, <2>2, <2>3, LenProperties
  <2>5. z = v
    BY <2>1, <2>2, <2>4, SeqEqual
  <2> QED
    BY <2>5 DEF z
<1>4. (u \o x) \o y = u \o (x \o y)
  BY <1>1, <1>2, ConcatAssociative, SMTT(60)
<1>5. u \o x \in Seq(S)
  BY <1>1, ConcatProperties
<1> QED
  BY <1>1, <1>2, <1>3, <1>4, <1>5 DEF x, y

LEMMA CatAppend ==
    ASSUME NEW S, NEW u \in Seq(S), NEW v \in Seq(S), NEW e \in S
    PROVE  u \o Append(v, e) = Append(u \o v, e)
<1>1. /\ Append(v, e) = v \o <<e>> /\ <<e>> \in Seq(S)
  BY AppendIsConcat
<1>2. u \o v \in Seq(S)
  BY ConcatProperties
<1>3. Append(u \o v, e) = (u \o v) \o <<e>>
  BY <1>2, AppendIsConcat
<1> QED
  BY <1>1, <1>3, ConcatAssociative

\* What two buffers hold when together they hold q.
LEMMA CatParts ==
    ASSUME NEW S, NEW u \in Seq(S), NEW v \in Seq(S), NEW q \in Seq(S), u \o v = q
    PROVE  /\ Len(u) \in Nat /\ Len(v) \in Nat /\ Len(u) + Len(v) = Len(q)
           /\ \A j \in 1..Len(u) : u[j] = q[j]
           /\ Len(u) = 0 => u = <<>>
           /\ Len(v) = 0 => v = <<>> /\ u = q
<1>1. Len(u) \in Nat /\ Len(v) \in Nat /\ Len(u) + Len(v) = Len(q)
  BY ConcatProperties, LenProperties
<1>2. \A j \in 1..Len(u) : u[j] = q[j]
  BY <1>1, ConcatProperties
<1>3. Len(u) = 0 => u = <<>>
  BY EmptySeq
<1>4. Len(v) = 0 => v = <<>>
  BY EmptySeq
<1>5. v = <<>> => u = q
  BY ConcatEmptySeq
<1> QED
  BY <1>1, <1>2, <1>3, <1>4, <1>5

\* The first of two buffers that together hold at most two pieces.
LEMMA CatTwo ==
    ASSUME NEW S, NEW u \in Seq(S), NEW v \in Seq(S), NEW q \in Seq(S), u \o v = q, Len(q) <= 2
    PROVE  u = <<>> \/ u = <<q[1]>> \/ (u = q /\ v = <<>>)
<1>0. /\ Len(u) \in Nat /\ Len(v) \in Nat /\ Len(u) + Len(v) = Len(q)
      /\ \A j \in 1..Len(u) : u[j] = q[j]
      /\ Len(u) = 0 => u = <<>>
      /\ Len(v) = 0 => v = <<>> /\ u = q
  BY CatParts
<1> DEFINE a == Len(u)
           b == Len(v)
           c == Len(q)
<1>1. a \in Nat /\ b \in Nat /\ a + b = c /\ c <= 2
  BY <1>0
<1>2. CASE a = 1
  <2>1. u[1] = q[1] /\ q[1] \in S
    BY <1>0, <1>2, ElementOfSeq
  <2>2. u = <<q[1]>>
    BY <1>2, <2>1, SeqEqual
  <2> QED
    BY <2>2
<1> HIDE DEF a, b, c
<1>3. a = 0 \/ a = 1 \/ (a = 2 /\ b = 0)
  BY <1>1
<1> QED
  BY <1>0, <1>2, <1>3 DEF a, b

LEMMA AppendOne ==
    ASSUME NEW x, NEW y
    PROVE  Append(<<x>>, y) = <<x, y>>
<1> DEFINE S == {x, y}
           r == Append(<<x>>, y)
           q == <<x, y>>
<1>1. <<x>> \in Seq(S) /\ Len(<<x>>) = 1 /\ <<x>>[1] = x
  OBVIOUS
<1>2. q \in Seq(S) /\ Len(q) = 2 /\ q[1] = x /\ q[2] = y
  OBVIOUS
<1>3. r \in Seq(S) /\ Len(r) = 2 /\ r[1] = x /\ r[2] = y
  <2>1. /\ r \in Seq(S) /\ Len(r) = Len(<<x>>) + 1
        /\ \A j \in 1..Len(<<x>>) : r[j] = <<x>>[j]
        /\ r[Len(<<x>>) + 1] = y
    BY <1>1, AppendProperties
  <2> HIDE DEF r
  <2> QED
    BY <1>1, <2>1
<1> HIDE DEF r, q, S
<1>4. \A j \in 1..2 : r[j] = q[j]
  BY <1>2, <1>3
<1>5. r = q
  BY <1>2, <1>3, <1>4, SeqEqual
<1> QED
  BY <1>5 DEF r, q

LEMMA AllOfTwo ==
    ASSUME NEW x, NEW y
    PROVE  SubSeq(<<x, y>>, 1, 2) = <<x, y>> /\ SubSeq(<<x, y>>, 3, 2) = <<>>
<1> DEFINE S == {x, y}
           q == <<x, y>>
           r == SubSeq(q, 1, 2)
           e == SubSeq(q, 3, 2)
<1>1. q \in Seq(S) /\ Len(q) = 2
  OBVIOUS
<1> HIDE DEF q
<1>2. r \in Seq(S) /\ Len(r) = 2 /\ \A j \in 1..2 : r[j] = q[j]
  <2>1. \A j \in 1..2 : q[j] \in S
    BY <1>1, ElementOfSeq
  <2>2. r \in Seq(S) /\ Len(r) = 2 /\ \A j \in 1..(2 - 1 + 1) : r[j] = q[1 + j - 1]
    BY <2>1, SubSeqProperties
  <2> HIDE DEF r
  <2> QED
    BY <2>2
<1>3. e \in Seq(S) /\ Len(e) = 0
  BY <1>1, SubSeqProperties
<1> HIDE DEF r, e, S
<1>4. r = q
  BY <1>1, <1>2, SeqEqual
<1>5. e = <<>>
  BY <1>3, EmptySeq
<1> QED
  BY <1>4, <1>5 DEF q, r, e

LEMMA SendsPart ==
    ASSUME NEW p \in Nat, NEW c \in BOOLEAN, NEW ib \in Seq(Piece), NEW up \in Seq(Piece),
           NEW dn, NEW rb, NEW wr, InStep("start", p, c, ib, up, dn, rb, wr)
    PROVE  InStep("rest", p, c, ib, Append(up, Part(p)), dn, rb, wr)
<1>1. ib \o up = <<>> /\ dn = <<>> /\ rb = <<>> /\ wr = {}
  BY DEF InStep, Asked
<1>2. ib \o Append(up, Part(p)) = Append(ib \o up, Part(p))
  BY CatAppend, PieceTypes
<1>3. Append(<<>>, Part(p)) = <<Part(p)>>
  OBVIOUS
<1> QED
  BY <1>1, <1>2, <1>3 DEF InStep, Asked

LEMMA SendsRest ==
    ASSUME NEW p \in Nat, NEW c \in BOOLEAN, NEW ib \in Seq(Piece), NEW up \in Seq(Piece),
           NEW dn, NEW rb, NEW wr, InStep("rest", p, c, ib, up, dn, rb, wr)
    PROVE  InStep("read", p, c, ib, Append(up, Req(p, c)), dn, rb, wr)
<1>1. ib \o up = <<Part(p)>> /\ dn = <<>> /\ rb = <<>> /\ wr = {}
  BY DEF InStep, Asked
<1>2. ib \o Append(up, Req(p, c)) = Append(ib \o up, Req(p, c))
  BY CatAppend, PieceTypes
<1>3. Append(<<Part(p)>>, Req(p, c)) = <<Part(p), Req(p, c)>>
  BY AppendOne
<1> QED
  BY <1>1, <1>2, <1>3 DEF InStep, Asked

\* The origin reads all there is.
LEMMA OriginReads ==
    ASSUME NEW a, NEW p \in Nat, NEW c \in BOOLEAN, NEW ib \in Seq(Piece),
           NEW up \in Seq(Piece), NEW dn, NEW rb, NEW wr,
           InStep(a, p, c, ib, up, dn, rb, wr)
    PROVE  InStep(a, p, c, ib \o up, <<>>, dn, rb, wr)
<1>1. ib \o up \in Seq(Piece)
  BY ConcatProperties
<1>2. (ib \o up) \o <<>> = ib \o up
  BY <1>1, ConcatEmptySeq
<1>3. ib = <<>> /\ up = <<>> => ib \o up = <<>>
  BY ConcatEmptySeq
<1> QED
  BY <1>2, <1>3 DEF InStep, Asked, Answered

\* The thread reads some of what there is.
LEMMA ThreadReads ==
    ASSUME NEW p \in Nat, NEW c \in BOOLEAN, NEW ib, NEW up, NEW dn \in Seq(Chunk),
           NEW rb \in Seq(Chunk), NEW wr, NEW n \in 1..Len(dn),
           InStep("read", p, c, ib, up, dn, rb, wr)
    PROVE  InStep("read", p, c, ib, up, SubSeq(dn, n + 1, Len(dn)),
                  rb \o SubSeq(dn, 1, n), wr)
<1>1. dn # <<>>
  BY EmptySeq
<1>2. (rb \o SubSeq(dn, 1, n)) \o SubSeq(dn, n + 1, Len(dn)) = rb \o dn
  <2>1. n \in 0..Len(dn)
    BY LenProperties
  <2> QED
    BY <2>1, CutMoves, ZenonT(60)
<1> QED
  BY <1>1, <1>2 DEF InStep, Asked, Answered

\* A whole request at n, and that it is the last thing there, for path p.
ReqThere(ib, n) == n \in 1..Len(ib) /\ ib[n].kind = "req"
ReqLast(ib, n, p, c) ==
    /\ ib[n].path = p /\ ib[n].close = c
    /\ SubSeq(ib, n + 1, Len(ib)) = <<>>

\* The first whole request in the origin's buffer is the one its thread waits
\* for; it is the last thing there.
LEMMA OriginParses ==
    ASSUME NEW a \in {"start", "rest", "read", "end"}, NEW p \in Nat, NEW c \in BOOLEAN,
           NEW ib \in Seq(Piece), NEW up \in Seq(Piece), NEW dn, NEW rb, NEW wr,
           InStep(a, p, c, ib, up, dn, rb, wr),
           NEW n, ReqThere(ib, n)
    PROVE  /\ a = "read" /\ ReqLast(ib, n, p, c)
           /\ InStep(a, p, c, <<>>, up, Append(dn, HeadOf(p)), rb, {p})
<1> DEFINE q1 == <<Part(p)>>
           q2 == <<Part(p), Req(p, c)>>
<1>0. /\ q1 \in Seq(Piece) /\ Len(q1) = 1 /\ q1[1] = Part(p)
      /\ q2 \in Seq(Piece) /\ Len(q2) = 2 /\ q2[1] = Part(p) /\ q2[2] = Req(p, c)
  BY PieceTypes
<1>1. ib # <<>> /\ ib # <<Part(p)>>
  BY EmptySeq DEF Part, ReqThere
<1> HIDE DEF q1, q2
<1>2. ib \o up # <<>>
  BY <1>1, ConcatEqualIffEmpty
<1>3. ib \o up # q1
  <2> SUFFICES ASSUME ib \o up = q1 PROVE FALSE
    OBVIOUS
  <2>1. ib = <<>> \/ ib = <<q1[1]>> \/ ib = q1
    BY <1>0, CatTwo
  <2> QED
    BY <1>0, <1>1, <2>1 DEF q1
<1>4. a = "read" /\ ib \o up = q2 /\ dn = <<>> /\ rb = <<>> /\ wr = {}
  BY <1>1, <1>2, <1>3 DEF InStep, Asked, Answered, q1, q2
<1>5. ib = q2 /\ up = <<>>
  <2>0. Len(q2) <= 2 /\ q2 \in Seq(Piece) /\ ib \o up = q2
    BY <1>0, <1>4
  <2>1. ib = <<>> \/ ib = <<q2[1]>> \/ (ib = q2 /\ up = <<>>)
    BY <2>0, CatTwo
  <2> QED
    BY <1>0, <1>1, <2>1
<1>6. n = 2
  <2>1. n \in 1..2 /\ q2[n].kind = "req"
    BY <1>0, <1>5 DEF ReqThere
  <2>2. q2[1].kind # "req"
    BY <1>0 DEF Part
  <2>3. n = 1 \/ n = 2
    BY <2>1
  <2> QED
    BY <2>1, <2>2, <2>3
<1>7. ReqLast(ib, n, p, c)
  <2>1. SubSeq(q2, 3, 2) = <<>>
    BY AllOfTwo DEF q2
  <2>2. n + 1 = 3 /\ Len(q2) = 2
    BY <1>0, <1>6
  <2>3. SubSeq(ib, n + 1, Len(ib)) = <<>>
    BY <1>5, <2>1, <2>2, Zenon
  <2>4. ib[n] = Req(p, c)
    BY <1>0, <1>5, <1>6, Zenon
  <2> QED
    BY <2>3, <2>4, ReqParts DEF ReqLast
<1>8. <<>> \o Append(<<>>, HeadOf(p)) = <<HeadOf(p)>>
  OBVIOUS
<1>9. InStep(a, p, c, <<>>, up, Append(dn, HeadOf(p)), rb, {p})
  BY <1>4, <1>5, <1>8 DEF InStep, Answered
<1> QED
  BY <1>4, <1>7, <1>9

\* The body for x ends the response the thread waits for.
BodyNext(a, x, p, ib, up, dn, rb) ==
    /\ a = "read" /\ x = p
    /\ Answered(<<HeadOf(p), BodyOf(p)>>, ib, up, Append(dn, BodyOf(p)), rb)

\* The body follows the head.
LEMMA OriginWrites ==
    ASSUME NEW a, NEW p \in Nat, NEW c \in BOOLEAN,
           NEW ib, NEW up, NEW dn \in Seq(Chunk), NEW rb \in Seq(Chunk), NEW wr,
           InStep(a, p, c, ib, up, dn, rb, wr), NEW x \in wr, a \in {"start", "rest", "read", "end"}
    PROVE  BodyNext(a, x, p, ib, up, dn, rb)
<1>1. a = "read" /\ Answered(<<HeadOf(p)>>, ib, up, dn, rb) /\ wr = {p}
  BY DEF InStep, Asked
<1>2. rb \o Append(dn, BodyOf(p)) = Append(rb \o dn, BodyOf(p))
  BY CatAppend, PieceTypes
<1>3. Append(<<HeadOf(p)>>, BodyOf(p)) = <<HeadOf(p), BodyOf(p)>>
  BY AppendOne
<1> QED
  BY <1>1, <1>2, <1>3 DEF Answered, BodyNext

\* When a thread finds a response in its buffer.
LEMMA ResponseIs ==
    ASSUME NEW t, NEW p
    PROVE  /\ rbuf[t] = <<>> => ResponseEnd(t) = 0
           /\ rbuf[t] = <<HeadOf(p)>> => ResponseEnd(t) = 0
           /\ rbuf[t] = <<HeadOf(p), BodyOf(p)>> => ResponseEnd(t) = 2
<1> DEFINE rb == rbuf[t]
           heads == {n \in 1..Len(rb) : rb[n].kind = "head"}
           h == CHOOSE n \in heads : \A m \in heads : n <= m
<1>0. ResponseEnd(t) = IF heads = {} \/ Len(rb) < h + 1 THEN 0 ELSE h + 1
  BY DEF ResponseEnd
<1>1. CASE rb = <<>>
  BY <1>0, <1>1
<1>2. CASE rb = <<HeadOf(p)>> \/ rb = <<HeadOf(p), BodyOf(p)>>
  <2>1. heads = {1}
    BY <1>2 DEF HeadOf, BodyOf
  <2>2. h = 1
    BY <2>1
  <2> HIDE DEF heads, h
  <2>3. heads # {}
    BY <2>1
  <2>4. CASE rb = <<HeadOf(p)>>
    BY <1>0, <2>2, <2>3, <2>4
  <2>5. CASE rb = <<HeadOf(p), BodyOf(p)>>
    BY <1>0, <2>2, <2>3, <2>5
  <2>6. <<HeadOf(p)>> # <<HeadOf(p), BodyOf(p)>>
    OBVIOUS
  <2> QED
    BY <1>2, <2>4, <2>5, <2>6
<1>3. <<>> # <<HeadOf(p)>> /\ <<>> # <<HeadOf(p), BodyOf(p)>>
  OBVIOUS
<1> QED
  BY <1>1, <1>2, <1>3

\* What a thread has read when the connection is in step: nothing, the head of
\* its response, or all of it, and then there is no more.
LEMMA ThreadHas ==
    ASSUME NEW p \in Nat, NEW c \in BOOLEAN, NEW ib, NEW up, NEW dn \in Seq(Chunk),
           NEW rb \in Seq(Chunk), NEW wr, InStep("read", p, c, ib, up, dn, rb, wr)
    PROVE  \/ rb = <<>>
           \/ rb = <<HeadOf(p)>>
           \/ /\ rb = <<HeadOf(p), BodyOf(p)>>
              /\ ib = <<>> /\ up = <<>> /\ dn = <<>> /\ wr = {}
<1> DEFINE q1 == <<HeadOf(p)>>
           q2 == <<HeadOf(p), BodyOf(p)>>
<1>0. /\ q1 \in Seq(Chunk) /\ Len(q1) <= 2 /\ q1[1] = HeadOf(p)
      /\ q2 \in Seq(Chunk) /\ Len(q2) <= 2 /\ q2[1] = HeadOf(p)
  BY PieceTypes
<1> HIDE DEF q1, q2
<1>1. \/ rb = <<>>
      \/ rb \o dn = q1
      \/ rb \o dn = q2 /\ ib = <<>> /\ up = <<>> /\ wr = {}
  BY DEF InStep, Asked, Answered, q1, q2
<1>2. CASE rb \o dn = q1
  <2>1. rb = <<>> \/ rb = <<q1[1]>> \/ rb = q1
    BY <1>0, <1>2, CatTwo
  <2> QED
    BY <1>0, <2>1 DEF q1
<1>3. CASE rb \o dn = q2 /\ ib = <<>> /\ up = <<>> /\ wr = {}
  <2>1. rb = <<>> \/ rb = <<q2[1]>> \/ (rb = q2 /\ dn = <<>>)
    BY <1>0, <1>3, CatTwo
  <2> QED
    BY <1>0, <1>3, <2>1 DEF q2
<1> QED
  BY <1>1, <1>2, <1>3

------------------------------------------------------------------------------
(* A step on one connection                                                *)

\* Connection k becomes what the fields say, and no other changes.
Becomes(k, up, dn, cl, sv, br) ==
    /\ net' \in [Conns -> Links]
    /\ net'[k].up = up /\ net'[k].down = dn /\ net'[k].client = cl
    /\ net'[k].server = sv /\ net'[k].broken = br
    /\ \A j \in Conns : j # k => net'[j] = net[j]

LEMMA LinkOpened ==
    ASSUME net \in [Conns -> Links], NEW k \in Conns,
           net' = [[net EXCEPT ![k].client = "open"] EXCEPT ![k].server = "backlog"]
    PROVE  Becomes(k, net[k].up, net[k].down, "open", "backlog", net[k].broken)
  BY DEF Links, Becomes

LEMMA LinkConnected ==
    ASSUME net \in [Conns -> Links], NEW k \in Conns,
           net' = [net EXCEPT ![k].client = "open", ![k].server = "backlog"]
    PROVE  Becomes(k, net[k].up, net[k].down, "open", "backlog", net[k].broken)
<1>1. net' = [[net EXCEPT ![k].client = "open"] EXCEPT ![k].server = "backlog"]
  BY Zenon
<1> QED
  BY <1>1, LinkOpened, Zenon

LEMMA LinkUp ==
    ASSUME net \in [Conns -> Links], NEW k \in Conns, NEW x \in Seq(Piece),
           net' = [net EXCEPT ![k].up = x]
    PROVE  Becomes(k, x, net[k].down, net[k].client, net[k].server, net[k].broken)
  BY DEF Links, Becomes

LEMMA LinkDown ==
    ASSUME net \in [Conns -> Links], NEW k \in Conns, NEW x \in Seq(Chunk),
           net' = [net EXCEPT ![k].down = x]
    PROVE  Becomes(k, net[k].up, x, net[k].client, net[k].server, net[k].broken)
  BY DEF Links, Becomes

LEMMA LinkClient ==
    ASSUME net \in [Conns -> Links], NEW k \in Conns,
           net' = [net EXCEPT ![k].client = "closed"]
    PROVE  Becomes(k, net[k].up, net[k].down, "closed", net[k].server, net[k].broken)
  BY DEF Links, Becomes

LEMMA LinkServer ==
    ASSUME net \in [Conns -> Links], NEW k \in Conns, NEW x \in {"open", "closed"},
           net' = [net EXCEPT ![k].server = x]
    PROVE  Becomes(k, net[k].up, net[k].down, net[k].client, x, net[k].broken)
  BY DEF Links, Becomes

LEMMA LinkEnded ==
    ASSUME net \in [Conns -> Links], NEW k \in Conns, NEW x \in Seq(Chunk),
           net' = [[net EXCEPT ![k].down = x] EXCEPT ![k].server = "closed"]
    PROVE  Becomes(k, net[k].up, x, net[k].client, "closed", net[k].broken)
  BY DEF Links, Becomes

LEMMA LinkCut ==
    ASSUME net \in [Conns -> Links], NEW k \in Conns, NEW x \in Seq(Piece),
           NEW y \in Seq(Chunk),
           net' = [[[net EXCEPT ![k].broken = TRUE] EXCEPT ![k].up = x] EXCEPT ![k].down = y]
    PROVE  Becomes(k, x, y, net[k].client, net[k].server, TRUE)
  BY DEF Links, Becomes

LEMMA LinkBroken ==
    ASSUME net \in [Conns -> Links], NEW k \in Conns,
           net' = [net EXCEPT ![k].broken = TRUE, ![k].up = <<>>, ![k].down = <<>>]
    PROVE  Becomes(k, <<>>, <<>>, net[k].client, net[k].server, TRUE)
<1>1. net' = [[[net EXCEPT ![k].broken = TRUE] EXCEPT ![k].up = <<>>] EXCEPT ![k].down = <<>>]
  BY Zenon
<1>2. <<>> \in Seq(Piece) /\ <<>> \in Seq(Chunk)
  OBVIOUS
<1> QED
  BY <1>1, <1>2, LinkCut, Zenon

LEMMA NobodyWrites ==
    ASSUME NEW k, \A w \in Workers : ~(hand[w].pc = "body" /\ hand[w].conn = k)
    PROVE  Writing(k) = {}
  BY Zenon DEF Writing

------------------------------------------------------------------------------
(* What a step leaves alone                                                *)

LEMMA ConnParts ==
    /\ \A k \in Conns : k[1] \in Threads /\ k[2] \in 1..Requests /\ k = <<k[1], k[2]>>
    /\ \A t \in Threads, n \in 1..Requests :
          <<t, n>> \in Conns /\ <<t, n>>[1] = t /\ <<t, n>>[2] = n
  BY DEF Conns

LEMMA LinkParts ==
    ASSUME HarnessType, NEW k \in Conns
    PROVE  /\ net[k] \in Links
           /\ net[k].up \in Seq(Piece) /\ net[k].down \in Seq(Chunk)
           /\ net[k].broken \in BOOLEAN
           /\ net[k].client \in {"none", "open", "closed"}
           /\ net[k].server \in {"none", "backlog", "open", "closed"}
           /\ inbuf[k] \in Seq(Piece)
  BY DEF HarnessType, Links

LEMMA OwnedFrame ==
    ASSUME HarnessType, Owned, UNCHANGED <<armed, tasks, hand>>,
           \A k \in Conns : net[k].server = "open" => net'[k].server = "open"
    PROVE  Owned'
<1>1. \A n \in 1..Len(tasks) : tasks[n] \in Conns
  BY DEF HarnessType
<1> QED
  BY <1>1 DEF HarnessType, Owned, Busy

LEMMA HandsFrame ==
    ASSUME HarnessType, Owned, HandsClosing, UNCHANGED <<hand, keep_alive>>,
           \A k \in Conns : net[k].server = "open" =>
               /\ net[k].client = "closed" => net'[k].client = "closed"
               /\ \A t \in Threads : sock'[t] = k => sock[t] = k
    PROVE  HandsClosing'
<1>1. \A w \in Workers : Busy(w) =>
          hand[w].conn \in Conns /\ net[hand[w].conn].server = "open"
  BY DEF Owned
<1> QED
  BY <1>1 DEF HandsClosing, Busy

\* A step of thread t, or of the network on one of its connections, does not
\* concern thread u.
LEMMA Elsewhere ==
    ASSUME IndInv, NEW t \in Threads, NEW u \in Threads, u # t,
           at'[u] = at[u], i'[u] = i[u], sock'[u] = sock[u], rbuf'[u] = rbuf[u],
           UNCHANGED <<keep_alive, g_keep_alive, inbuf, hand>>,
           \A k \in Conns : k[1] # t => net'[k] = net[k]
    PROVE  /\ PlacedOf(u)'
           /\ sock'[u] # NoSock => StreamOf(u)'
           /\ ClosedOf(u)'
           /\ (u \in Exposed)' <=> u \in Exposed
<1>0. HarnessType /\ PlacedOf(u) /\ (sock[u] # NoSock => StreamOf(u)) /\ ClosedOf(u)
  BY DEF IndInv, Placed, Streams, Closing
<1>1. \A n \in 1..Requests : <<u, n>> \in Conns /\ net'[<<u, n>>] = net[<<u, n>>]
  BY ConnParts
<1>2. sock[u] # NoSock => sock[u] \in Conns /\ net'[sock[u]] = net[sock[u]]
  BY <1>0 DEF HarnessType, PlacedOf
<1>3. PlacedOf(u)'
  BY <1>0, <1>1, <1>2 DEF PlacedOf
<1>4. \A k : Writing(k)' = Writing(k)
  BY DEF Writing
<1>5. sock'[u] # NoSock => StreamOf(u)'
  BY <1>0, <1>2, <1>4 DEF StreamOf, Bye
<1>6. ClosedOf(u)'
  BY <1>0, <1>2 DEF ClosedOf
<1>7. (u \in Exposed)' <=> u \in Exposed
  BY <1>0, <1>2 DEF Exposed
<1> QED
  BY <1>3, <1>5, <1>6, <1>7

\* The counters when one thread at most changes sides.
LEMMA ExposedMoves ==
    ASSUME NEW t \in Threads, \A u \in Threads \ {t} : (u \in Exposed)' <=> u \in Exposed
    PROVE  /\ Cardinality(Exposed) \in Nat /\ Cardinality(Exposed') \in Nat
           /\ (t \in Exposed' <=> t \in Exposed) => Cardinality(Exposed') = Cardinality(Exposed)
           /\ t \in Exposed' /\ t \notin Exposed =>
                 Cardinality(Exposed') = Cardinality(Exposed) + 1
           /\ t \notin Exposed' /\ t \in Exposed =>
                 Cardinality(Exposed') = Cardinality(Exposed) - 1
<1> DEFINE A == Exposed
           B == Exposed'
<1>0. A \subseteq Threads /\ B \subseteq Threads /\ IsFiniteSet(Threads)
  BY LoadAssumption DEF Exposed
<1>1. \A u \in Threads \ {t} : u \in B <=> u \in A
  OBVIOUS
<1> HIDE DEF A, B
<1>2. IsFiniteSet(A) /\ IsFiniteSet(B)
  BY <1>0, FS_Subset
<1>3. Cardinality(A) \in Nat /\ Cardinality(B) \in Nat
  BY <1>2, FS_CardinalityType
<1>4. (t \in B <=> t \in A) => B = A
  BY <1>0, <1>1
<1>5. t \in B /\ t \notin A => Cardinality(B) = Cardinality(A) + 1
  <2>1. t \in B /\ t \notin A => B = A \cup {t}
    BY <1>0, <1>1
  <2> QED
    BY <1>2, <2>1, FS_AddElement
<1>6. t \notin B /\ t \in A => Cardinality(B) = Cardinality(A) - 1
  <2>1. t \notin B /\ t \in A => B = A \ {t}
    BY <1>0, <1>1
  <2> QED
    BY <1>2, <2>1, FS_RemoveElement
<1> QED
  BY <1>3, <1>4, <1>5, <1>6 DEF A, B

\* One more request is finished.
LEMMA FinishedGrows ==
    ASSUME HarnessType, NEW t \in Threads, i[t] < Requests, i' = [i EXCEPT ![t] = @ + 1]
    PROVE  /\ Cardinality(Finished) \in Nat
           /\ Cardinality(Finished') = Cardinality(Finished) + 1
<1> DEFINE A == Finished
           B == Finished'
           k == <<t, i[t] + 1>>
<1>0. k \in Conns /\ i \in [Threads -> Nat]
  <2>1. i \in [Threads -> Nat] /\ i[t] + 1 \in 1..Requests
    BY LoadAssumption DEF HarnessType
  <2> QED
    BY <2>1, ConnParts
<1>1. A \subseteq Conns /\ IsFiniteSet(Conns)
  <2>1. IsFiniteSet(1..Requests)
    BY LoadAssumption, FS_Interval
  <2>2. IsFiniteSet(Conns)
    BY <2>1, LoadAssumption, FS_Product DEF Conns
  <2> QED
    BY <2>2 DEF Finished
<1>2. k \notin A /\ k \in B
  BY <1>0 DEF Finished
<1>3. \A j \in Conns : j # k => (j \in A <=> j \in B)
  <2> TAKE j \in Conns
  <2> HAVE j # k
  <2>1. CASE j[1] = t
    <3>1. j[2] # i[t] + 1 /\ j[2] \in Nat
      BY <2>1, ConnParts
    <3> QED
      BY <1>0, <2>1, <3>1 DEF Finished
  <2>2. CASE j[1] # t
    <3>1. i'[j[1]] = i[j[1]]
      BY <1>0, <2>2, ConnParts
    <3> QED
      BY <3>1 DEF Finished
  <2> QED
    BY <2>1, <2>2
<1>4. B \subseteq Conns
  BY DEF Finished
<1> HIDE DEF A, B, k
<1>5. B = A \cup {k}
  BY <1>1, <1>2, <1>3, <1>4, <1>0
<1>6. IsFiniteSet(A)
  BY <1>1, FS_Subset
<1> QED
  BY <1>2, <1>5, <1>6, FS_AddElement, FS_CardinalityType DEF A, B

\* What is left to show of a step of thread t, or of the network on one of its
\* connections.
LEMMA ThreadStep ==
    ASSUME IndInv, NEW t \in Threads,
           \A u \in Threads : u # t =>
               at'[u] = at[u] /\ i'[u] = i[u] /\ sock'[u] = sock[u] /\ rbuf'[u] = rbuf[u],
           UNCHANGED <<keep_alive, g_keep_alive, inbuf, armed, tasks, hand>>,
           \A k \in Conns : k[1] # t => net'[k] = net[k],
           \A k \in Conns : net[k].server = "open" =>
               /\ net'[k].server = "open"
               /\ net[k].client = "closed" => net'[k].client = "closed"
               /\ sock'[t] = k => sock[t] = k,
           HarnessType', PlacedOf(t)', sock'[t] # NoSock => StreamOf(t)', ClosedOf(t)',
           OwnResponse',
           (\A u \in Threads \ {t} : (u \in Exposed)' <=> u \in Exposed) => Counted'
    PROVE  IndInv'
<1>0. HarnessType /\ Owned /\ HandsClosing
  BY DEF IndInv, Closing
<1>1. Owned'
  BY <1>0, OwnedFrame
<1>2. HandsClosing'
  BY <1>0, HandsFrame
<1>3. \A u \in Threads : u # t =>
          /\ PlacedOf(u)'
          /\ sock'[u] # NoSock => StreamOf(u)'
          /\ ClosedOf(u)'
          /\ (u \in Exposed)' <=> u \in Exposed
  BY Elsewhere
<1>4. Placed' /\ Streams' /\ Closing'
  BY <1>2, <1>3 DEF Placed, Streams, Closing
<1>5. Counted'
  BY <1>3
<1> QED
  BY <1>1, <1>4, <1>5 DEF IndInv

------------------------------------------------------------------------------
(* The steps of a thread                                                   *)

LEMMA ConnectKeeps ==
    ASSUME IndInv, NEW t \in Threads, connect_to(t), UNCHANGED origin
    PROVE  IndInv'
<1> SUFFICES ASSUME NEW k, k = <<t, i[t] + 1>> PROVE IndInv'
  OBVIOUS
<1>0. /\ HarnessType /\ Owned /\ PlacedOf(t) /\ Counted /\ OwnResponse /\ HandsClosing
      /\ at[t] = "start" /\ sock[t] = NoSock
      /\ net' = [net EXCEPT ![k].client = "open", ![k].server = "backlog"]
      /\ sock' = [sock EXCEPT ![t] = k]
      /\ rbuf' = [rbuf EXCEPT ![t] = <<>>]
      /\ UNCHANGED <<faults, keep_alive, at, i, last, ok, failed>>
      /\ UNCHANGED <<g_keep_alive, inbuf, armed, tasks, hand>>
      /\ i \in [Threads -> Nat]
  BY DEF IndInv, Placed, Closing, connect_to, HarnessType, origin
<1>1. k \in Conns /\ i[t] < Requests
  <2>1. i[t] + 1 \in 1..Requests /\ i[t] < Requests
    BY <1>0, LoadAssumption DEF PlacedOf
  <2> QED
    BY <2>1, ConnParts
<1>2. k # NoSock /\ k[1] = t /\ k[2] = i[t] + 1
  BY <1>1, NoSockAssumption
<1>3. net[k] = Unused /\ inbuf[k] = <<>>
  <2>1. i[t] + 1 \in 1..Requests /\ i[t] + 1 > i[t]
    BY <1>0, <1>1, LoadAssumption
  <2> QED
    BY <1>0, <1>2, <2>1 DEF PlacedOf
<1>4. Becomes(k, net[k].up, net[k].down, "open", "backlog", net[k].broken)
  BY <1>0, <1>1, LinkConnected, Zenon DEF HarnessType
<1>5. /\ net'[k].up = <<>> /\ net'[k].down = <<>> /\ net'[k].client = "open"
      /\ net'[k].server = "backlog" /\ net'[k].broken = FALSE
      /\ \A j \in Conns : j # k => net'[j] = net[j]
  BY <1>3, <1>4 DEF Unused, Becomes
<1>6. net' \in [Conns -> Links]
  BY <1>4 DEF Becomes
<1>7. HarnessType'
  BY <1>0, <1>1, <1>6 DEF HarnessType
<1>8. \A j \in Conns : j[1] # t \/ net[j].server = "open" => net'[j] = net[j]
  BY <1>2, <1>3, <1>5 DEF Unused
<1>9. \A u \in Threads : u # t => sock'[u] = sock[u] /\ rbuf'[u] = rbuf[u]
  BY <1>0 DEF HarnessType
<1>10. sock'[t] = k /\ rbuf'[t] = <<>>
  BY <1>0 DEF HarnessType
<1>11. PlacedOf(t)'
  <2>1. \A n \in 1..Requests : <<t, n>> # k =>
            <<t, n>> \in Conns /\ net'[<<t, n>>] = net[<<t, n>>]
    BY <1>5, ConnParts
  <2>2. \A n \in 1..Requests : n > i[t] =>
            k = <<t, n>> \/ (net[<<t, n>>] = Unused /\ inbuf[<<t, n>>] = <<>>)
    <3>1. \A n \in 1..Requests : sock[t] # <<t, n>>
      BY <1>0, ConnParts, NoSockAssumption
    <3> QED
      BY <1>0, <3>1 DEF PlacedOf
  <2>3. \A n \in 1..Requests : n > i[t] /\ k # <<t, n>> =>
            net'[<<t, n>>] = Unused /\ inbuf[<<t, n>>] = <<>>
    BY <2>1, <2>2
  <2>4. k[2] <= i[t] + 1
    BY <1>0, <1>2
  <2> QED
    BY <1>0, <1>1, <1>2, <1>5, <1>10, <2>3, <2>4 DEF PlacedOf
<1>12. StreamOf(t)'
  <2>1. net[k].server = "none"
    BY <1>3 DEF Unused
  <2>2. \A w \in Workers : ~(hand[w].pc = "body" /\ hand[w].conn = k)
    BY <1>0, <2>1 DEF Owned, Busy
  <2>3. Writing(k) = {} /\ Writing(k)' = Writing(k)
    BY <1>0, <2>2, NobodyWrites DEF Writing
  <2>4. <<>> \o <<>> = <<>>
    OBVIOUS
  <2>5. InStep("start", i[t] + 1, ~keep_alive, <<>>, <<>>, <<>>, <<>>, {})
    BY <2>4 DEF InStep, Asked
  <2> QED
    BY <1>0, <1>3, <1>5, <1>10, <2>3, <2>5 DEF StreamOf, Bye
<1>13. ClosedOf(t)'
  BY <1>5, <1>10 DEF ClosedOf
<1>14. ASSUME \A u \in Threads \ {t} : (u \in Exposed)' <=> u \in Exposed
       PROVE  Counted'
  <2>1. Finished' = Finished
    BY <1>0 DEF Finished
  <2>2. ~(k[2] <= i[t])
    BY <1>0, <1>2
  <2>3. t \notin Exposed /\ t \notin Exposed'
    BY <1>0, <1>5, <1>10, <2>2 DEF Exposed
  <2>4. Cardinality(Exposed') = Cardinality(Exposed)
    BY <1>14, <2>3, ExposedMoves
  <2> QED
    BY <1>0, <2>1, <2>4 DEF Counted
<1>15. OwnResponse'
  BY <1>0 DEF OwnResponse
<1>16. \A j \in Conns : net[j].server = "open" => sock'[t] # j
  BY <1>3, <1>10 DEF Unused
<1> QED
  BY <1>0, <1>7, <1>8, <1>9, <1>11, <1>12, <1>13, <1>14, <1>15, <1>16, ThreadStep

\* A connection that cannot be made is a fault, and no connection changes.
LEMMA ConnectFailsKeeps ==
    ASSUME IndInv, NEW t \in Threads, ConnectFails(t), UNCHANGED origin
    PROVE  IndInv'
<1>0. /\ HarnessType /\ PlacedOf(t) /\ Counted /\ OwnResponse
      /\ at[t] = "start" /\ sock[t] = NoSock
      /\ faults' = faults + 1 /\ failed' = failed + 1
      /\ i' = [i EXCEPT ![t] = @ + 1]
      /\ at' = [at EXCEPT ![t] = IF i[t] + 1 = Requests THEN "end" ELSE "start"]
      /\ UNCHANGED <<net, keep_alive, sock, rbuf, last, ok>>
      /\ UNCHANGED <<g_keep_alive, inbuf, armed, tasks, hand>>
      /\ i \in [Threads -> Nat]
  BY DEF IndInv, Placed, ConnectFails, GoOn, HarnessType, origin
<1>1. HarnessType'
  BY <1>0 DEF HarnessType
<1>2. i[t] < Requests /\ i'[t] = i[t] + 1 /\ at'[t] \in {"start", "end"}
      /\ (at'[t] = "end" <=> i[t] + 1 = Requests)
  BY <1>0 DEF PlacedOf, HarnessType
<1>3. PlacedOf(t)'
  BY <1>0, <1>2, LoadAssumption DEF PlacedOf
<1>4. sock'[t] = NoSock
  BY <1>0
<1>5. ClosedOf(t)' /\ OwnResponse'
  BY <1>0, <1>4 DEF ClosedOf, OwnResponse
<1>6. ASSUME \A u \in Threads \ {t} : (u \in Exposed)' <=> u \in Exposed
      PROVE  Counted'
  <2>1. t \notin Exposed /\ t \notin Exposed'
    BY <1>0, <1>4 DEF Exposed
  <2>2. Cardinality(Exposed') = Cardinality(Exposed) /\ Cardinality(Exposed) \in Nat
    BY <1>6, <2>1, ExposedMoves
  <2>3. Cardinality(Finished) \in Nat /\ Cardinality(Finished') = Cardinality(Finished) + 1
    BY <1>0, <1>2, FinishedGrows
  <2> QED
    BY <1>0, <2>2, <2>3 DEF Counted, HarnessType
<1>7. \A u \in Threads : u # t => at'[u] = at[u] /\ i'[u] = i[u]
  BY <1>0 DEF HarnessType
<1> QED
  BY <1>0, <1>1, <1>3, <1>4, <1>5, <1>6, <1>7, ThreadStep

\* A piece of the request goes out.
LEMMA SendPieceKeeps ==
    ASSUME IndInv, NEW t \in Threads, NEW from \in {"start", "rest"},
           NEW to \in {"rest", "read"}, NEW x \in Piece,
           SendPiece(t, from, to, x), UNCHANGED origin,
           \A ib, up \in Seq(Piece) : \A dn, rb, wr :
               InStep(from, i[t] + 1, ~keep_alive, ib, up, dn, rb, wr) =>
                   InStep(to, i[t] + 1, ~keep_alive, ib, Append(up, x), dn, rb, wr)
    PROVE  IndInv'
<1> SUFFICES ASSUME NEW k, k = sock[t] PROVE IndInv'
  OBVIOUS
<1>0. /\ HarnessType /\ PlacedOf(t) /\ ClosedOf(t) /\ Counted /\ OwnResponse
      /\ at[t] = from /\ k # NoSock /\ ~net[k].broken /\ StreamOf(t)
      /\ net' = [net EXCEPT ![k].up = Append(net[k].up, x)]
      /\ at' = [at EXCEPT ![t] = to]
      /\ UNCHANGED <<faults, keep_alive, i, sock, rbuf, last, ok, failed>>
      /\ UNCHANGED <<g_keep_alive, inbuf, armed, tasks, hand>>
  BY DEF IndInv, Placed, Streams, Closing, SendPiece, origin
<1>1. k \in Conns /\ k[1] = t /\ i[t] < Requests /\ net[k].client = "open"
  BY <1>0 DEF HarnessType, PlacedOf
<1>2. net[k].up \in Seq(Piece) /\ inbuf[k] \in Seq(Piece) /\ Append(net[k].up, x) \in Seq(Piece)
  BY <1>0, <1>1, LinkParts, AppendProperties
<1>3. Becomes(k, Append(net[k].up, x), net[k].down, net[k].client, net[k].server,
              net[k].broken)
  BY <1>0, <1>1, <1>2, LinkUp, Zenon DEF HarnessType
<1>4. at'[t] = to /\ \A u \in Threads : u # t => at'[u] = at[u]
  BY <1>0 DEF HarnessType
<1>5. HarnessType'
  BY <1>0, <1>3 DEF HarnessType, Becomes
<1>6. PlacedOf(t)'
  <2>1. \A n \in 1..Requests : sock[t] # <<t, n>> =>
            <<t, n>> \in Conns /\ net'[<<t, n>>] = net[<<t, n>>]
    BY <1>3, ConnParts DEF Becomes
  <2> QED
    BY <1>0, <1>1, <1>3, <1>4, <2>1 DEF PlacedOf, Becomes
<1>7. StreamOf(t)'
  <2>1. InStep(from, i[t] + 1, ~keep_alive, inbuf[k], net[k].up, net[k].down, rbuf[t],
               Writing(k))
    BY <1>0 DEF StreamOf, Bye
  <2>2. InStep(to, i[t] + 1, ~keep_alive, inbuf[k], Append(net[k].up, x), net[k].down,
               rbuf[t], Writing(k))
    BY <1>2, <2>1
  <2>3. Writing(k)' = Writing(k)
    BY <1>0 DEF Writing
  <2> QED
    BY <1>0, <1>3, <1>4, <2>2, <2>3 DEF StreamOf, Bye, Becomes
<1>8. ClosedOf(t)'
  BY <1>0, <1>3, <1>4 DEF ClosedOf, Becomes
<1>9. ASSUME \A u \in Threads \ {t} : (u \in Exposed)' <=> u \in Exposed
      PROVE  Counted'
  <2>1. Finished' = Finished
    BY <1>0 DEF Finished
  <2>2. t \in Exposed' <=> t \in Exposed
    BY <1>0, <1>3, <1>4 DEF Exposed, Becomes
  <2>3. Cardinality(Exposed') = Cardinality(Exposed)
    BY <1>9, <2>2, ExposedMoves
  <2> QED
    BY <1>0, <2>1, <2>3 DEF Counted
<1>10. OwnResponse'
  BY <1>0 DEF OwnResponse
<1>11. \A j \in Conns : /\ j[1] # t => net'[j] = net[j]
                        /\ net'[j].server = net[j].server
                        /\ net'[j].client = net[j].client
  BY <1>1, <1>3 DEF Becomes
<1> QED
  BY <1>0, <1>4, <1>5, <1>6, <1>7, <1>8, <1>9, <1>10, <1>11, ThreadStep

LEMMA SendKeeps ==
    ASSUME IndInv, NEW t \in Threads, send_all(t), UNCHANGED origin
    PROVE  IndInv'
<1>0. i[t] + 1 \in Nat /\ (~keep_alive) \in BOOLEAN
  <2>1. i[t] + 1 \in Nat
    BY DEF IndInv, HarnessType
  <2>2. (~keep_alive) \in BOOLEAN
    BY Zenon DEF IndInv, HarnessType
  <2> QED
    BY <2>1, <2>2
<1>1. Part(i[t] + 1) \in Piece /\ Req(i[t] + 1, ~keep_alive) \in Piece
  BY <1>0, PieceTypes
<1>2. CASE SendPiece(t, "start", "rest", Part(i[t] + 1))
  <2>1. \A ib, up \in Seq(Piece) : \A dn, rb, wr :
            InStep("start", i[t] + 1, ~keep_alive, ib, up, dn, rb, wr) =>
                InStep("rest", i[t] + 1, ~keep_alive, ib, Append(up, Part(i[t] + 1)), dn, rb, wr)
    BY <1>0, SendsPart
  <2> QED
    BY <1>1, <1>2, <2>1, SendPieceKeeps
<1>3. CASE SendPiece(t, "rest", "read", Req(i[t] + 1, ~keep_alive))
  <2>1. \A ib, up \in Seq(Piece) : \A dn, rb, wr :
            InStep("rest", i[t] + 1, ~keep_alive, ib, up, dn, rb, wr) =>
                InStep("read", i[t] + 1, ~keep_alive, ib,
                       Append(up, Req(i[t] + 1, ~keep_alive)), dn, rb, wr)
    BY <1>0, SendsRest
  <2> QED
    BY <1>1, <1>3, <2>1, SendPieceKeeps
<1> QED
  BY <1>2, <1>3 DEF send_all, Path, Part, Req

\* A thread closes its connection and goes on, with its request counted.
LEMMA LeaveKeeps ==
    ASSUME IndInv, NEW t \in Threads, at[t] \in {"start", "rest", "read"},
           sock[t] # NoSock, UNCHANGED origin,
           net' = [net EXCEPT ![sock[t]].client = "closed"],
           sock' = [sock EXCEPT ![t] = NoSock],
           GoOn(t), UNCHANGED <<faults, keep_alive>>,
           rbuf' \in [Threads -> Seq(Chunk)],
           \A u \in Threads : u # t => rbuf'[u] = rbuf[u],
           last' \in [Threads -> {<<>>} \cup (Nat \X Seq(Chunk))], OwnResponse',
           \/ failed' = failed + 1 /\ ok' = ok /\ t \in Exposed
           \/ failed' = failed /\ ok' = ok + 1
    PROVE  IndInv'
<1> SUFFICES ASSUME NEW k, k = sock[t] PROVE IndInv'
  OBVIOUS
<1>0. /\ HarnessType /\ PlacedOf(t) /\ Counted
      /\ net' = [net EXCEPT ![k].client = "closed"]
      /\ i' = [i EXCEPT ![t] = @ + 1]
      /\ at' = [at EXCEPT ![t] = IF i[t] + 1 = Requests THEN "end" ELSE "start"]
      /\ UNCHANGED <<g_keep_alive, inbuf, armed, tasks, hand>>
      /\ i \in [Threads -> Nat]
  BY DEF IndInv, Placed, GoOn, HarnessType, origin
<1>1. k \in Conns /\ k[1] = t /\ k[2] <= i[t] + 1 /\ i[t] < Requests
  BY <1>0 DEF HarnessType, PlacedOf
<1>2. Becomes(k, net[k].up, net[k].down, "closed", net[k].server, net[k].broken)
  BY <1>0, <1>1, LinkClient, Zenon DEF HarnessType
<1>3. i'[t] = i[t] + 1 /\ sock'[t] = NoSock /\ at'[t] \in {"start", "end"}
      /\ (at'[t] = "end" <=> i[t] + 1 = Requests)
  BY <1>0 DEF HarnessType
<1>4. \A u \in Threads : u # t => at'[u] = at[u] /\ i'[u] = i[u] /\ sock'[u] = sock[u]
  BY <1>0 DEF HarnessType
<1>5. HarnessType'
  <2>1. /\ i' \in [Threads -> Nat] /\ sock' \in [Threads -> Conns \cup {NoSock}]
        /\ failed' \in Nat /\ ok' \in Nat
    BY <1>0 DEF HarnessType
  <2>2. at' \in [Threads -> {"start", "rest", "read", "end", "done"}]
    BY <1>0 DEF HarnessType
  <2> QED
    BY <1>0, <1>2, <2>1, <2>2 DEF HarnessType, Becomes
<1>6. PlacedOf(t)'
  <2>1. \A n \in 1..Requests : n > i[t] + 1 => n > i[t] /\ sock[t] # <<t, n>>
    BY <1>0, <1>1, ConnParts, LoadAssumption
  <2>2. \A n \in 1..Requests : n > i[t] + 1 =>
            net[<<t, n>>] = Unused /\ inbuf[<<t, n>>] = <<>>
    BY <1>0, <2>1 DEF PlacedOf
  <2>3. \A n \in 1..Requests : n > i[t] + 1 => net'[<<t, n>>] = net[<<t, n>>]
    BY <1>2, <2>1, ConnParts DEF Becomes
  <2> QED
    BY <1>0, <1>1, <1>3, <2>2, <2>3, LoadAssumption DEF PlacedOf
<1>7. ClosedOf(t)'
  BY <1>3 DEF ClosedOf
<1>8. ASSUME \A u \in Threads \ {t} : (u \in Exposed)' <=> u \in Exposed
      PROVE  Counted'
  <2>1. t \notin Exposed'
    BY <1>3 DEF Exposed
  <2>2. /\ Cardinality(Exposed) \in Nat /\ Cardinality(Exposed') \in Nat
        /\ Cardinality(Exposed') <= Cardinality(Exposed)
        /\ t \in Exposed => Cardinality(Exposed') = Cardinality(Exposed) - 1
    BY <1>8, <2>1, ExposedMoves
  <2>3. Cardinality(Finished) \in Nat /\ Cardinality(Finished') = Cardinality(Finished) + 1
    BY <1>0, <1>1, FinishedGrows
  <2>4. ok \in Nat /\ failed \in Nat /\ faults \in Nat /\ UNCHANGED <<faults, keep_alive, g_keep_alive>>
    BY <1>0 DEF HarnessType
  <2>5. CASE failed' = failed + 1 /\ ok' = ok /\ t \in Exposed
    BY <1>0, <2>2, <2>3, <2>4, <2>5, SMTT(60) DEF Counted
  <2>6. CASE failed' = failed /\ ok' = ok + 1
    <3>1. ok' + failed' = Cardinality(Finished')
      BY <1>0, <2>3, <2>4, <2>6 DEF Counted
    <3>2. CASE keep_alive /\ ~g_keep_alive
      <4>1. failed + Cardinality(Exposed) <= faults + ok
        BY <1>0, <3>2 DEF Counted
      <4>2. failed' + Cardinality(Exposed') <= faults' + ok'
        BY <2>2, <2>4, <2>6, <4>1
      <4> QED
        BY <2>4, <3>1, <3>2, <4>2 DEF Counted
    <3>3. CASE ~(keep_alive /\ ~g_keep_alive)
      <4>1. failed + Cardinality(Exposed) <= faults + 0
        BY <1>0, <3>3 DEF Counted
      <4>2. failed' + Cardinality(Exposed') <= faults' + 0
        BY <2>2, <2>4, <2>6, <4>1
      <4> QED
        BY <2>4, <3>1, <3>3, <4>2 DEF Counted
    <3> QED
      BY <3>2, <3>3
  <2> QED
    BY <2>5, <2>6
<1>9. \A j \in Conns : /\ j[1] # t => net'[j] = net[j]
                       /\ net'[j].server = net[j].server
                       /\ net'[j].client = net[j].client \/ net'[j].client = "closed"
  BY <1>1, <1>2 DEF Becomes
<1>10. \A j \in Conns : sock'[t] # j
  BY <1>3, NoSockAssumption
<1> QED
  BY <1>0, <1>3, <1>4, <1>5, <1>6, <1>7, <1>8, <1>9, <1>10, ThreadStep

\* A request fails on a connection that is broken, or that was answered before.
LEMMA FailKeeps ==
    ASSUME IndInv, NEW t \in Threads, at[t] \in {"start", "rest", "read"},
           sock[t] # NoSock, t \in Exposed, Fail(t), UNCHANGED origin
    PROVE  IndInv'
<1>1. /\ failed' = failed + 1 /\ ok' = ok
      /\ net' = [net EXCEPT ![sock[t]].client = "closed"]
      /\ sock' = [sock EXCEPT ![t] = NoSock]
      /\ GoOn(t) /\ UNCHANGED <<faults, keep_alive, rbuf, last>>
  BY DEF Fail
<1>2. /\ rbuf \in [Threads -> Seq(Chunk)]
      /\ last \in [Threads -> {<<>>} \cup (Nat \X Seq(Chunk))]
      /\ OwnResponse
  BY DEF IndInv, HarnessType
<1>3. OwnResponse'
  BY <1>1, <1>2 DEF OwnResponse
<1> QED
  BY <1>1, <1>2, <1>3, LeaveKeeps

\* After a failed send the connection is broken, or the origin has closed it
\* after an earlier answer.
LEMMA SendFailsKeeps ==
    ASSUME IndInv, NEW t \in Threads, SendFails(t), UNCHANGED origin
    PROVE  IndInv'
<1>1. /\ HarnessType /\ PlacedOf(t) /\ ClosedOf(t) /\ at[t] \in {"start", "rest"}
      /\ sock[t] # NoSock /\ Fail(t)
      /\ net[sock[t]].broken \/ net[sock[t]].server = "closed"
  BY DEF IndInv, Placed, Closing, SendFails
<1>2. i[t] \in Nat /\ sock[t][2] <= i[t] + 1 /\ (~keep_alive => sock[t][2] = i[t] + 1)
  BY <1>1 DEF HarnessType, PlacedOf
<1>3. sock[t][2] <= i[t] => keep_alive
  BY <1>2
<1>4. t \in Exposed
  BY <1>1, <1>3 DEF Exposed, ClosedOf
<1> QED
  BY <1>1, <1>4, FailKeeps

\* recv() moves pieces of the response from the kernel to the thread.
LEMMA RecvSomeKeeps ==
    ASSUME IndInv, NEW t \in Threads, RecvSome(t), UNCHANGED origin
    PROVE  IndInv'
<1> SUFFICES ASSUME NEW k, k = sock[t] PROVE IndInv'
  OBVIOUS
<1>0. /\ HarnessType /\ PlacedOf(t) /\ ClosedOf(t) /\ Counted /\ OwnResponse
      /\ at[t] = "read"
      /\ sock[t] # NoSock => StreamOf(t)
      /\ UNCHANGED <<faults, keep_alive, at, i, sock, last, ok, failed>>
      /\ UNCHANGED <<g_keep_alive, inbuf, armed, tasks, hand>>
  BY DEF IndInv, Placed, Streams, Closing, RecvSome, origin
<1>1. k \in Conns /\ k # NoSock /\ k[1] = t /\ StreamOf(t)
  BY <1>0 DEF HarnessType, PlacedOf
<1>2. PICK n \in 1..Len(net[k].down) :
        /\ rbuf' = [rbuf EXCEPT ![t] = rbuf[t] \o SubSeq(net[k].down, 1, n)]
        /\ net' = [net EXCEPT ![k].down = SubSeq(net[k].down, n + 1, Len(net[k].down))]
  BY DEF RecvSome
<1> DEFINE dn == net[k].down
           rb == rbuf[t] \o SubSeq(dn, 1, n)
           rest == SubSeq(dn, n + 1, Len(dn))
<1>3. dn \in Seq(Chunk) /\ rbuf[t] \in Seq(Chunk) /\ n \in 0..Len(dn) /\ dn # <<>>
  <2>1. dn \in Seq(Chunk) /\ rbuf[t] \in Seq(Chunk)
    BY <1>0, <1>1, LinkParts DEF HarnessType
  <2> QED
    BY <2>1, EmptySeq
<1>4. rb \in Seq(Chunk) /\ rest \in Seq(Chunk) /\ rb \o rest = rbuf[t] \o dn
  <2>1. \A u, v \in Seq(Chunk) : \A m \in 0..Len(v) :
            /\ u \o SubSeq(v, 1, m) \in Seq(Chunk) /\ SubSeq(v, m + 1, Len(v)) \in Seq(Chunk)
            /\ (u \o SubSeq(v, 1, m)) \o SubSeq(v, m + 1, Len(v)) = u \o v
    BY CutMoves
  <2> QED
    BY <1>3, <2>1, Zenon
<1>5. Becomes(k, net[k].up, rest, net[k].client, net[k].server, net[k].broken)
  BY <1>0, <1>1, <1>2, <1>4, LinkDown, Zenon DEF HarnessType
<1>6. rbuf'[t] = rb /\ \A u \in Threads : u # t => rbuf'[u] = rbuf[u]
  BY <1>0, <1>2 DEF HarnessType
<1>7. HarnessType'
  <2>1. rbuf' \in [Threads -> Seq(Chunk)]
    BY <1>0, <1>2, <1>4 DEF HarnessType
  <2> QED
    BY <1>0, <1>5, <2>1 DEF HarnessType, Becomes
<1>8. PlacedOf(t)'
  <2>1. \A m \in 1..Requests : sock[t] # <<t, m>> =>
            <<t, m>> \in Conns /\ net'[<<t, m>>] = net[<<t, m>>]
    BY <1>5, ConnParts DEF Becomes
  <2> QED
    BY <1>0, <1>1, <1>5, <2>1 DEF PlacedOf, Becomes
<1>9. ~net[k].broken
  BY <1>0, <1>1, <1>3 DEF StreamOf, Bye, CutOff
<1>10. StreamOf(t)'
  <2>0. i[t] + 1 \in Nat /\ (~keep_alive) \in BOOLEAN
    <3>1. i[t] + 1 \in Nat
      BY <1>0 DEF HarnessType
    <3>2. (~keep_alive) \in BOOLEAN
      BY <1>0, Zenon DEF HarnessType
    <3> QED
      BY <3>1, <3>2
  <2>1. InStep("read", i[t] + 1, ~keep_alive, inbuf[k], net[k].up, dn, rbuf[t], Writing(k))
    BY <1>0, <1>1, <1>9 DEF StreamOf, Bye
  <2>2. InStep("read", i[t] + 1, ~keep_alive, inbuf[k], net[k].up, rest, rb, Writing(k))
    BY <1>3, <2>0, <2>1, ThreadReads
  <2>3. Writing(k)' = Writing(k)
    BY <1>0 DEF Writing
  <2> QED
    BY <1>0, <1>5, <1>6, <1>9, <2>2, <2>3 DEF StreamOf, Bye, Becomes
<1> HIDE DEF dn, rb, rest
<1>11. ClosedOf(t)'
  BY <1>0, <1>4, <1>5, <1>6 DEF ClosedOf, Becomes, dn
<1>12. ASSUME \A u \in Threads \ {t} : (u \in Exposed)' <=> u \in Exposed
       PROVE  Counted'
  <2>1. Finished' = Finished
    BY <1>0 DEF Finished
  <2>2. t \in Exposed' <=> t \in Exposed
    BY <1>0, <1>5 DEF Exposed, Becomes
  <2>3. Cardinality(Exposed') = Cardinality(Exposed)
    BY <1>12, <2>2, ExposedMoves
  <2> QED
    BY <1>0, <2>1, <2>3 DEF Counted
<1>13. OwnResponse'
  BY <1>0 DEF OwnResponse
<1>14. \A j \in Conns : /\ j[1] # t => net'[j] = net[j]
                        /\ net'[j].server = net[j].server
                        /\ net'[j].client = net[j].client
  BY <1>1, <1>5 DEF Becomes
<1> QED
  BY <1>0, <1>6, <1>7, <1>8, <1>10, <1>11, <1>12, <1>13, <1>14, ThreadStep

\* At the end of a connection that is not broken the response of the request in
\* hand has not begun, so the origin closed after an earlier one.
LEMMA RecvFailsKeeps ==
    ASSUME IndInv, NEW t \in Threads, RecvFails(t), UNCHANGED origin
    PROVE  IndInv'
<1>1. /\ HarnessType /\ PlacedOf(t) /\ ClosedOf(t) /\ at[t] = "read" /\ Fail(t)
      /\ ResponseEnd(t) = 0 /\ net[sock[t]].down = <<>>
      /\ net[sock[t]].broken \/ net[sock[t]].server = "closed"
  BY DEF IndInv, Placed, Closing, RecvFails
<1>2. i[t] \in Nat /\ sock[t] # NoSock /\ rbuf[t] \in Seq(Chunk)
      /\ (~keep_alive => sock[t][2] = i[t] + 1)
  BY <1>1 DEF HarnessType, PlacedOf
<1>3. rbuf[t] \o <<>> # <<HeadOf(i[t] + 1), BodyOf(i[t] + 1)>>
  <2>1. rbuf[t] \o <<>> = rbuf[t]
    BY <1>2, ConcatEmptySeq
  <2>2. rbuf[t] # <<HeadOf(i[t] + 1), BodyOf(i[t] + 1)>>
    BY <1>1, ResponseIs
  <2> QED
    BY <2>1, <2>2
<1>4. net[sock[t]].broken \/ (sock[t][2] <= i[t] /\ (keep_alive => ~g_keep_alive))
  BY <1>1, <1>2, <1>3 DEF ClosedOf
<1>5. sock[t][2] <= i[t] => keep_alive
  BY <1>2
<1>6. t \in Exposed
  BY <1>1, <1>2, <1>4, <1>5 DEF Exposed
<1> QED
  BY <1>1, <1>2, <1>6, FailKeeps

\* When a response is found it is all there is on the connection, the answer to
\* the request in hand.
LEMMA OkIs ==
    ASSUME IndInv, NEW t \in Threads, at[t] = "read", ResponseEnd(t) > 0
    PROVE  /\ sock[t] \in Conns /\ sock[t] # NoSock
           /\ ResponseEnd(t) = 2
           /\ rbuf[t] = <<HeadOf(i[t] + 1), BodyOf(i[t] + 1)>>
           /\ net[sock[t]].up = <<>> /\ net[sock[t]].down = <<>>
           /\ ~net[sock[t]].broken => inbuf[sock[t]] = <<>> /\ Writing(sock[t]) = {}
<1> SUFFICES ASSUME NEW k, k = sock[t], NEW p, p = i[t] + 1
             PROVE  /\ k \in Conns /\ k # NoSock
                    /\ ResponseEnd(t) = 2
                    /\ rbuf[t] = <<HeadOf(p), BodyOf(p)>>
                    /\ net[k].up = <<>> /\ net[k].down = <<>>
                    /\ ~net[k].broken => inbuf[k] = <<>> /\ Writing(k) = {}
  OBVIOUS
<1>0. HarnessType /\ PlacedOf(t) /\ (k # NoSock => StreamOf(t))
  BY DEF IndInv, Placed, Streams
<1>1. k \in Conns /\ k # NoSock /\ StreamOf(t)
  BY <1>0 DEF HarnessType, PlacedOf
<1>2. rbuf[t] # <<>> /\ rbuf[t] # <<HeadOf(p)>>
  <2>1. ~(0 > 0)
    OBVIOUS
  <2> QED
    BY <2>1, ResponseIs
<1>3. CASE net[k].broken
  <2>1. CutOff("read", p, net[k].up, net[k].down, rbuf[t])
    BY <1>1, <1>3 DEF StreamOf, Bye
  <2> QED
    BY <1>1, <1>2, <1>3, <2>1, ResponseIs DEF CutOff
<1>4. CASE ~net[k].broken
  <2>0. p \in Nat /\ (~keep_alive) \in BOOLEAN
    <3>1. p \in Nat
      BY <1>0 DEF HarnessType
    <3>2. (~keep_alive) \in BOOLEAN
      BY <1>0, Zenon DEF HarnessType
    <3> QED
      BY <3>1, <3>2
  <2>1. InStep("read", p, ~keep_alive, inbuf[k], net[k].up, net[k].down, rbuf[t], Writing(k))
    BY <1>1, <1>4 DEF StreamOf, Bye
  <2>2. net[k].down \in Seq(Chunk) /\ rbuf[t] \in Seq(Chunk)
    BY <1>0, <1>1, LinkParts DEF HarnessType
  <2>3. /\ rbuf[t] = <<HeadOf(p), BodyOf(p)>>
        /\ inbuf[k] = <<>> /\ net[k].up = <<>> /\ net[k].down = <<>> /\ Writing(k) = {}
    BY <1>2, <2>0, <2>1, <2>2, ThreadHas
  <2> QED
    BY <1>1, <2>3, ResponseIs
<1> QED
  BY <1>3, <1>4

\* The counters when a request of thread t is ok.
LEMMA OkCounts ==
    ASSUME HarnessType, Counted, NEW t \in Threads, i[t] < Requests,
           i' = [i EXCEPT ![t] = @ + 1], ok' = ok + 1,
           UNCHANGED <<failed, faults, keep_alive, g_keep_alive>>,
           \A u \in Threads \ {t} : (u \in Exposed)' <=> u \in Exposed,
           t \in Exposed' => t \in Exposed \/ (keep_alive /\ ~g_keep_alive)
    PROVE  Counted'
<1>1. Cardinality(Finished) \in Nat /\ Cardinality(Finished') = Cardinality(Finished) + 1
  BY FinishedGrows
<1>2. ok \in Nat /\ failed \in Nat /\ faults \in Nat
  BY DEF HarnessType
<1>3. ok' + failed' = Cardinality(Finished')
  BY <1>1, <1>2 DEF Counted
<1>4. /\ Cardinality(Exposed) \in Nat /\ Cardinality(Exposed') \in Nat
      /\ Cardinality(Exposed') <= Cardinality(Exposed) + 1
      /\ (t \in Exposed' => t \in Exposed) => Cardinality(Exposed') <= Cardinality(Exposed)
  BY ExposedMoves
<1>5. CASE keep_alive /\ ~g_keep_alive
  <2>1. failed + Cardinality(Exposed) <= faults + ok
    BY <1>5 DEF Counted
  <2>2. failed' + Cardinality(Exposed') <= faults' + ok'
    BY <1>2, <1>4, <2>1
  <2> QED
    BY <1>3, <1>5, <2>2 DEF Counted
<1>6. CASE ~(keep_alive /\ ~g_keep_alive)
  <2>1. failed + Cardinality(Exposed) <= faults + 0
    BY <1>6 DEF Counted
  <2>2. failed' + Cardinality(Exposed') <= faults' + 0
    BY <1>2, <1>4, <1>6, <2>1
  <2> QED
    BY <1>3, <1>6, <2>2 DEF Counted
<1> QED
  BY <1>5, <1>6

\* A whole response was read: with -k the thread goes on with a connection on
\* which nothing is left, otherwise with none.
LEMMA OkKeeps ==
    ASSUME IndInv, NEW t \in Threads, Ok(t), UNCHANGED origin
    PROVE  IndInv'
<1> SUFFICES ASSUME NEW k, k = sock[t], NEW p, p = i[t] + 1 PROVE IndInv'
  OBVIOUS
<1>0. /\ HarnessType /\ PlacedOf(t) /\ ClosedOf(t) /\ Counted /\ OwnResponse
      /\ at[t] = "read" /\ ResponseEnd(t) > 0
      /\ last' = [last EXCEPT ![t] = <<p, SubSeq(rbuf[t], 1, ResponseEnd(t))>>]
      /\ rbuf' = [rbuf EXCEPT ![t] = SubSeq(rbuf[t], ResponseEnd(t) + 1, Len(rbuf[t]))]
      /\ ok' = ok + 1 /\ GoOn(t)
      /\ i' = [i EXCEPT ![t] = @ + 1]
      /\ at' = [at EXCEPT ![t] = IF p = Requests THEN "end" ELSE "start"]
      /\ UNCHANGED <<faults, keep_alive, failed>>
      /\ UNCHANGED <<g_keep_alive, inbuf, armed, tasks, hand>>
      /\ i \in [Threads -> Nat] /\ p \in Nat
  BY SMTT(60) DEF IndInv, Placed, Closing, Ok, GoOn, Path, HarnessType, origin
<1>1. /\ k \in Conns /\ k # NoSock /\ ResponseEnd(t) = 2
      /\ rbuf[t] = <<HeadOf(p), BodyOf(p)>>
      /\ net[k].up = <<>> /\ net[k].down = <<>>
      /\ ~net[k].broken => inbuf[k] = <<>> /\ Writing(k) = {}
  BY <1>0, OkIs
<1>2. k[1] = t /\ k[2] <= p /\ i[t] < Requests /\ net[k].client = "open"
  BY <1>0, <1>1 DEF PlacedOf
<1>3. /\ rbuf' = [rbuf EXCEPT ![t] = <<>>]
      /\ last' = [last EXCEPT ![t] = <<p, <<HeadOf(p), BodyOf(p)>>>>]
  <2>1. SubSeq(<<HeadOf(p), BodyOf(p)>>, 1, 2) = <<HeadOf(p), BodyOf(p)>>
    BY AllOfTwo
  <2>2. SubSeq(<<HeadOf(p), BodyOf(p)>>, 3, 2) = <<>>
    BY AllOfTwo
  <2>3. Len(<<HeadOf(p), BodyOf(p)>>) = 2 /\ 2 + 1 = 3
    OBVIOUS
  <2> QED
    BY <1>0, <1>1, <2>1, <2>2, <2>3
<1>4. /\ rbuf'[t] = <<>> /\ \A u \in Threads : u # t => rbuf'[u] = rbuf[u]
      /\ rbuf' \in [Threads -> Seq(Chunk)]
  <2>1. rbuf \in [Threads -> Seq(Chunk)] /\ <<>> \in Seq(Chunk)
    BY <1>0 DEF HarnessType
  <2> QED
    BY <1>3, <2>1
<1>5. last' \in [Threads -> {<<>>} \cup (Nat \X Seq(Chunk))]
  <2>1. <<HeadOf(p), BodyOf(p)>> \in Seq(Chunk)
    <3>1. HeadOf(p) \in Chunk /\ BodyOf(p) \in Chunk
      BY <1>0, PieceTypes
    <3> QED
      BY <3>1
  <2>2. <<p, <<HeadOf(p), BodyOf(p)>>>> \in Nat \X Seq(Chunk)
    BY <1>0, <2>1
  <2> QED
    BY <1>0, <1>3, <2>2 DEF HarnessType
<1>6. OwnResponse'
  <2> SUFFICES ASSUME NEW u \in Threads, last'[u] # <<>>
               PROVE  last'[u][2] = <<HeadOf(last'[u][1]), BodyOf(last'[u][1])>>
    BY DEF OwnResponse, HeadOf, BodyOf
  <2>1. CASE u = t
    <3>1. last'[t] = <<p, <<HeadOf(p), BodyOf(p)>>>>
      BY <1>0, <1>3 DEF HarnessType
    <3> QED
      BY <2>1, <3>1
  <2>2. CASE u # t
    <3>1. last'[u] = last[u]
      BY <1>0, <1>3, <2>2 DEF HarnessType
    <3> QED
      BY <1>0, <3>1 DEF OwnResponse, HeadOf, BodyOf
  <2> QED
    BY <2>1, <2>2
<1>7. CASE ~keep_alive
  <2>1. /\ net' = [net EXCEPT ![k].client = "closed"]
        /\ sock' = [sock EXCEPT ![t] = NoSock]
    BY <1>7 DEF Ok
  <2> QED
    BY <1>0, <1>1, <1>4, <1>5, <1>6, <2>1, LeaveKeeps
<1>8. CASE keep_alive
  <2>0. UNCHANGED <<net, sock>>
    BY <1>8 DEF Ok
  <2>1. i'[t] = p /\ at'[t] \in {"start", "end"} /\ (at'[t] = "end" <=> p = Requests)
    BY <1>0 DEF HarnessType
  <2>2. \A u \in Threads : u # t => at'[u] = at[u] /\ i'[u] = i[u]
    BY <1>0 DEF HarnessType
  <2>3. HarnessType'
    <3>1. i' \in [Threads -> Nat] /\ ok' \in Nat
      BY <1>0 DEF HarnessType
    <3>2. at' \in [Threads -> {"start", "rest", "read", "end", "done"}]
      BY <1>0 DEF HarnessType
    <3> QED
      BY <1>0, <1>4, <1>5, <2>0, <3>1, <3>2 DEF HarnessType
  <2>4. PlacedOf(t)'
    <3>1. k[2] <= p + 1
      BY <1>0, <1>1, <1>2, ConnParts
    <3>2. \A n \in 1..Requests : n > p /\ k # <<t, n>> =>
              net[<<t, n>>] = Unused /\ inbuf[<<t, n>>] = <<>>
      <4>1. \A n \in 1..Requests : n > p => n > i[t]
        BY <1>0
      <4> QED
        BY <1>0, <4>1 DEF PlacedOf
    <3>3. p <= Requests /\ (p # Requests => p < Requests)
      BY <1>0, <1>2, LoadAssumption
    <3> QED
      BY <1>0, <1>1, <1>2, <1>8, <2>0, <2>1, <3>1, <3>2, <3>3 DEF PlacedOf
  <2>5. StreamOf(t)'
    <3>1. Writing(k)' = Writing(k)
      BY <1>0 DEF Writing
    <3>2. CASE net[k].broken
      BY <1>1, <1>4, <2>0, <2>1, <3>2 DEF StreamOf, Bye, CutOff
    <3>3. CASE ~net[k].broken
      <4>1. <<>> \o <<>> = <<>>
        OBVIOUS
      <4>2. InStep(at'[t], p + 1, ~keep_alive, <<>>, <<>>, <<>>, <<>>, {})
        BY <2>1, <4>1 DEF InStep, Asked
      <4> QED
        BY <1>0, <1>1, <1>4, <2>0, <2>1, <3>1, <3>3, <4>2 DEF StreamOf, Bye
    <3> QED
      BY <3>2, <3>3
  <2>6. ClosedOf(t)'
    BY <1>0, <1>2, <2>0, <2>1 DEF ClosedOf
  <2>7. ASSUME \A u \in Threads \ {t} : (u \in Exposed)' <=> u \in Exposed
        PROVE  Counted'
    <3>1. t \in Exposed' => t \in Exposed \/ (keep_alive /\ ~g_keep_alive)
      BY <1>0, <2>0 DEF Exposed
    <3> QED
      BY <1>0, <1>2, <2>7, <3>1, OkCounts
  <2> QED
    BY <1>0, <1>4, <1>6, <2>0, <2>2, <2>3, <2>4, <2>5, <2>6, <2>7, ThreadStep
<1> QED
  BY <1>7, <1>8

\* A thread that is through closes its socket.
LEMMA EndKeeps ==
    ASSUME IndInv, NEW t \in Threads, End(t), UNCHANGED origin
    PROVE  IndInv'
<1> SUFFICES ASSUME NEW k, k = sock[t] PROVE IndInv'
  OBVIOUS
<1>0. /\ HarnessType /\ PlacedOf(t) /\ Counted /\ OwnResponse
      /\ at[t] = "end" /\ at' = [at EXCEPT ![t] = "done"]
      /\ net' = IF k = NoSock THEN net ELSE [net EXCEPT ![k].client = "closed"]
      /\ sock' = [sock EXCEPT ![t] = NoSock]
      /\ UNCHANGED <<faults, keep_alive, i, rbuf, last, ok, failed>>
      /\ UNCHANGED <<g_keep_alive, inbuf, armed, tasks, hand>>
  BY DEF IndInv, Placed, End, origin
<1>1. i[t] = Requests /\ at'[t] = "done" /\ sock'[t] = NoSock
  BY <1>0 DEF HarnessType, PlacedOf
<1>2. \A u \in Threads : u # t => at'[u] = at[u] /\ sock'[u] = sock[u]
  BY <1>0 DEF HarnessType
<1>3. net' \in [Conns -> Links] /\ \A j \in Conns :
          /\ j[1] # t => net'[j] = net[j]
          /\ net'[j].server = net[j].server
          /\ net'[j].client = net[j].client \/ net'[j].client = "closed"
  <2>1. CASE k = NoSock
    BY <1>0, <2>1 DEF HarnessType
  <2>2. CASE k # NoSock
    <3>1. k \in Conns /\ k[1] = t
      BY <1>0, <2>2 DEF HarnessType, PlacedOf
    <3>2. Becomes(k, net[k].up, net[k].down, "closed", net[k].server, net[k].broken)
      BY <1>0, <2>2, <3>1, LinkClient, Zenon DEF HarnessType
    <3> QED
      BY <3>1, <3>2 DEF Becomes
  <2> QED
    BY <2>1, <2>2
<1>4. HarnessType'
  <2>1. /\ sock' \in [Threads -> Conns \cup {NoSock}]
        /\ at' \in [Threads -> {"start", "rest", "read", "end", "done"}]
    BY <1>0 DEF HarnessType
  <2> QED
    BY <1>0, <1>3, <2>1 DEF HarnessType
<1>5. PlacedOf(t)'
  <2>1. \A n \in 1..Requests : ~(n > i[t])
    BY <1>1, LoadAssumption
  <2> QED
    BY <1>0, <1>1, <2>1, LoadAssumption DEF PlacedOf
<1>6. ClosedOf(t)' /\ OwnResponse'
  BY <1>0, <1>1 DEF ClosedOf, OwnResponse
<1>7. ASSUME \A u \in Threads \ {t} : (u \in Exposed)' <=> u \in Exposed
      PROVE  Counted'
  <2>1. Finished' = Finished
    BY <1>0 DEF Finished
  <2>2. t \notin Exposed /\ t \notin Exposed'
    BY <1>0, <1>1 DEF Exposed
  <2>3. Cardinality(Exposed') = Cardinality(Exposed)
    BY <1>7, <2>2, ExposedMoves
  <2> QED
    BY <1>0, <2>1, <2>3 DEF Counted
<1>8. \A j \in Conns : sock'[t] # j
  BY <1>1, NoSockAssumption
<1> QED
  BY <1>0, <1>1, <1>2, <1>3, <1>4, <1>5, <1>6, <1>7, <1>8, ThreadStep

\* A reset on a connection its thread still has: what the thread has read so far
\* begins the response, and the fault pays for the failure to come.
LEMMA BreakKeeps ==
    ASSUME IndInv, NEW k \in Conns, Break(k), UNCHANGED <<origin, generator>>
    PROVE  IndInv'
<1> SUFFICES ASSUME NEW t \in Threads, t = k[1] PROVE IndInv'
  BY ConnParts
<1>0. /\ HarnessType /\ PlacedOf(t) /\ ClosedOf(t) /\ Counted /\ OwnResponse
      /\ sock[t] # NoSock => StreamOf(t)
      /\ faults' = faults + 1 /\ net[k].client = "open" /\ ~net[k].broken
      /\ net' = [net EXCEPT ![k].broken = TRUE, ![k].up = <<>>, ![k].down = <<>>]
      /\ UNCHANGED <<keep_alive, at, i, sock, rbuf, last, ok, failed>>
      /\ UNCHANGED <<g_keep_alive, inbuf, armed, tasks, hand>>
  BY DEF IndInv, Placed, Streams, Closing, Break, origin, generator
<1>1. Becomes(k, <<>>, <<>>, net[k].client, net[k].server, TRUE)
  BY <1>0, LinkBroken, Zenon DEF HarnessType
<1>2. HarnessType'
  BY <1>0, <1>1, SMTT(60) DEF HarnessType, Becomes
<1>3. PlacedOf(t)'
  <2>1. \A n \in 1..Requests : <<t, n>> # k =>
            <<t, n>> \in Conns /\ net'[<<t, n>>] = net[<<t, n>>]
    BY <1>1, ConnParts DEF Becomes
  <2>2. net[k] # Unused
    BY <1>0 DEF Unused
  <2>3. \A n \in 1..Requests : n > i[t] /\ sock[t] # <<t, n>> =>
            net[<<t, n>>] = Unused /\ inbuf[<<t, n>>] = <<>>
    BY <1>0 DEF PlacedOf
  <2>4. \A n \in 1..Requests : n > i[t] /\ sock[t] # <<t, n>> =>
            net'[<<t, n>>] = Unused /\ inbuf[<<t, n>>] = <<>>
    BY <2>1, <2>2, <2>3
  <2>5. sock[t] # NoSock => /\ net'[sock[t]].client = net[sock[t]].client
                            /\ net'[sock[t]].server = net[sock[t]].server
    BY <1>0, <1>1 DEF HarnessType, Becomes
  <2> QED
    BY <1>0, <2>4, <2>5 DEF PlacedOf
<1>4. ASSUME sock[t] # NoSock PROVE StreamOf(t)'
  <2>1. CASE sock[t] # k
    <3>1. net'[sock[t]] = net[sock[t]]
      BY <1>0, <1>1, <1>4, <2>1 DEF HarnessType, Becomes
    <3>2. Writing(sock[t])' = Writing(sock[t])
      BY <1>0 DEF Writing
    <3> QED
      BY <1>0, <1>4, <3>1, <3>2 DEF StreamOf, Bye
  <2>2. CASE sock[t] = k
    <3>0. i[t] + 1 \in Nat /\ (~keep_alive) \in BOOLEAN
      <4>1. i[t] + 1 \in Nat
        BY <1>0 DEF HarnessType
      <4>2. (~keep_alive) \in BOOLEAN
        BY <1>0, Zenon DEF HarnessType
      <4> QED
        BY <4>1, <4>2
    <3>1. InStep(at[t], i[t] + 1, ~keep_alive, inbuf[k], net[k].up, net[k].down, rbuf[t],
                 Writing(k))
      BY <1>0, <1>4, <2>2 DEF StreamOf, Bye
    <3>2. net[k].down \in Seq(Chunk) /\ rbuf[t] \in Seq(Chunk)
      BY <1>0, LinkParts DEF HarnessType
    <3>3. at[t] = "read" => rbuf[t] \in {<<>>, <<HeadOf(i[t] + 1)>>,
                                         <<HeadOf(i[t] + 1), BodyOf(i[t] + 1)>>}
      <4> SUFFICES ASSUME at[t] = "read"
                   PROVE  \/ rbuf[t] = <<>> \/ rbuf[t] = <<HeadOf(i[t] + 1)>>
                          \/ rbuf[t] = <<HeadOf(i[t] + 1), BodyOf(i[t] + 1)>>
        OBVIOUS
      <4>1. InStep("read", i[t] + 1, ~keep_alive, inbuf[k], net[k].up, net[k].down,
                   rbuf[t], Writing(k))
        BY <3>1
      <4> HIDE <1>0
      <4> QED
        BY <3>0, <3>2, <4>1, ThreadHas
    <3>4. at[t] \in {"start", "rest"} => rbuf[t] = <<>>
      BY <3>1 DEF InStep, Asked
    <3> QED
      BY <1>0, <1>1, <2>2, <3>3, <3>4 DEF StreamOf, Bye, CutOff, Becomes
  <2> QED
    BY <2>1, <2>2
<1>5. ClosedOf(t)'
  <2>1. CASE sock[t] = k
    BY <1>0, <1>1, <2>1 DEF ClosedOf, Becomes
  <2>2. CASE sock[t] # k /\ sock[t] # NoSock
    <3>1. net'[sock[t]] = net[sock[t]]
      BY <1>0, <1>1, <2>2 DEF HarnessType, Becomes
    <3> QED
      BY <1>0, <3>1 DEF ClosedOf
  <2>3. CASE sock[t] = NoSock
    BY <1>0, <2>3 DEF ClosedOf
  <2> QED
    BY <2>1, <2>2, <2>3
<1>6. ASSUME \A u \in Threads \ {t} : (u \in Exposed)' <=> u \in Exposed
      PROVE  Counted'
  <2>1. Finished' = Finished
    BY <1>0 DEF Finished
  <2>2. /\ Cardinality(Exposed) \in Nat /\ Cardinality(Exposed') \in Nat
        /\ Cardinality(Exposed') <= Cardinality(Exposed) + 1
    BY <1>6, ExposedMoves
  <2>3. ok \in Nat /\ failed \in Nat /\ faults \in Nat
    BY <1>0 DEF HarnessType
  <2> DEFINE b == IF keep_alive /\ ~g_keep_alive THEN ok ELSE 0
  <2>4. b \in Nat /\ failed + Cardinality(Exposed) <= faults + b
    BY <1>0, <2>3 DEF Counted
  <2> HIDE DEF b
  <2>5. failed' + Cardinality(Exposed') <= faults' + b
    BY <1>0, <2>2, <2>3, <2>4
  <2> QED
    BY <1>0, <2>1, <2>5 DEF Counted, b
<1>7. OwnResponse'
  BY <1>0 DEF OwnResponse
<1>8. \A j \in Conns : /\ j[1] # t => net'[j] = net[j]
                       /\ net'[j].server = net[j].server
                       /\ net'[j].client = net[j].client
  BY <1>1 DEF Becomes
<1> QED
  BY <1>0, <1>2, <1>3, <1>4, <1>5, <1>6, <1>7, <1>8, ThreadStep

------------------------------------------------------------------------------
(* The steps of the origin                                                 *)

\* Worker w becomes what the fields say, and no other changes.
HandBecomes(w, pc, conn, peer, wants, path) ==
    /\ hand' \in [Workers -> Hands]
    /\ hand'[w].pc = pc /\ hand'[w].conn = conn /\ hand'[w].peer_closed = peer
    /\ hand'[w].wants_close = wants /\ hand'[w].path = path
    /\ \A v \in Workers : v # w => hand'[v] = hand[v]

LEMMA HandParts ==
    ASSUME HarnessType, NEW w \in Workers
    PROVE  /\ hand[w].pc \in {"pop", "parse", "body"} /\ hand[w].conn \in Conns \cup {None}
           /\ hand[w].peer_closed \in BOOLEAN /\ hand[w].wants_close \in BOOLEAN
           /\ hand[w].path \in Nat \cup {None}
  BY DEF HarnessType, Hands

LEMMA HandFree ==
    ASSUME HarnessType, NEW w \in Workers, hand' = [hand EXCEPT ![w] = Free]
    PROVE  HandBecomes(w, "pop", None, FALSE, FALSE, None)
  BY DEF HarnessType, Hands, Free, HandBecomes

LEMMA HandTakes ==
    ASSUME HarnessType, NEW w \in Workers, NEW k \in Conns, NEW b \in BOOLEAN,
           hand' = [hand EXCEPT ![w] =
                       [pc |-> "parse", conn |-> k, peer_closed |-> b,
                        wants_close |-> FALSE, path |-> None]]
    PROVE  HandBecomes(w, "parse", k, b, FALSE, None)
  BY DEF HarnessType, Hands, HandBecomes

LEMMA HandParses ==
    ASSUME HarnessType, NEW w \in Workers, NEW p \in Nat, NEW b \in BOOLEAN,
           hand' = [hand EXCEPT ![w].pc = "body", ![w].path = p, ![w].wants_close = b]
    PROVE  HandBecomes(w, "body", hand[w].conn, hand[w].peer_closed, b, p)
<1> DEFINE h1 == [hand EXCEPT ![w].pc = "body"]
           h2 == [h1 EXCEPT ![w].path = p]
           h3 == [h2 EXCEPT ![w].wants_close = b]
<1>1. hand' = h3
  BY Zenon
<1>2. hand \in [Workers -> Hands]
  BY DEF HarnessType
<1>3. /\ h1 \in [Workers -> Hands] /\ h1[w].pc = "body"
      /\ h1[w].conn = hand[w].conn /\ h1[w].peer_closed = hand[w].peer_closed
      /\ \A v \in Workers : v # w => h1[v] = hand[v]
  BY <1>2 DEF Hands
<1> HIDE DEF h1
<1>4. /\ h2 \in [Workers -> Hands] /\ h2[w].pc = "body" /\ h2[w].path = p
      /\ h2[w].conn = hand[w].conn /\ h2[w].peer_closed = hand[w].peer_closed
      /\ \A v \in Workers : v # w => h2[v] = hand[v]
  BY <1>3 DEF Hands
<1> HIDE DEF h2
<1>5. /\ h3 \in [Workers -> Hands] /\ h3[w].pc = "body" /\ h3[w].path = p
      /\ h3[w].conn = hand[w].conn /\ h3[w].peer_closed = hand[w].peer_closed
      /\ h3[w].wants_close = b
      /\ \A v \in Workers : v # w => h3[v] = hand[v]
  BY <1>4 DEF Hands
<1> HIDE DEF h3
<1> QED
  BY <1>1, <1>5 DEF HandBecomes

LEMMA HandAgain ==
    ASSUME HarnessType, NEW w \in Workers, hand' = [hand EXCEPT ![w].pc = "parse"]
    PROVE  HandBecomes(w, "parse", hand[w].conn, hand[w].peer_closed, hand[w].wants_close,
                       hand[w].path)
  BY DEF HarnessType, Hands, HandBecomes

LEMMA WritesElsewhere ==
    ASSUME NEW w \in Workers, NEW j, \A v \in Workers : v # w => hand'[v] = hand[v],
           ~(hand[w].pc = "body" /\ hand[w].conn = j),
           ~(hand'[w].pc = "body" /\ hand'[w].conn = j)
    PROVE  Writing(j)' = Writing(j)
<1> DEFINE A == {v \in Workers : hand[v].pc = "body" /\ hand[v].conn = j}
           B == {v \in Workers : hand'[v].pc = "body" /\ hand'[v].conn = j}
<1>1. A = B /\ \A v \in A : hand'[v] = hand[v]
  OBVIOUS
<1>2. Writing(j) = {hand[v].path : v \in A} /\ Writing(j)' = {hand'[v].path : v \in B}
  BY DEF Writing
<1> HIDE DEF A, B
<1> QED
  BY <1>1, <1>2

LEMMA BusyAfter ==
    ASSUME NEW w \in Workers, \A v \in Workers : v # w => hand'[v] = hand[v]
    PROVE  \A v \in Workers : (Busy(v))' => v = w \/ (Busy(v) /\ hand'[v] = hand[v])
  BY DEF Busy

\* The writers on j after a step of worker w, when no other worker has it.
LEMMA WritesAlone ==
    ASSUME NEW w \in Workers, NEW j,
           \A v \in Workers : v # w => hand'[v] = hand[v],
           \A v \in Workers : v # w => ~(hand[v].pc = "body" /\ hand[v].conn = j)
    PROVE  /\ hand'[w].pc = "body" /\ hand'[w].conn = j => Writing(j)' = {hand'[w].path}
           /\ hand'[w].pc # "body" => Writing(j)' = {}
<1> DEFINE A == {v \in Workers : hand'[v].pc = "body" /\ hand'[v].conn = j}
<1>1. /\ hand'[w].pc = "body" /\ hand'[w].conn = j => A = {w}
      /\ hand'[w].pc # "body" => A = {}
  OBVIOUS
<1>2. Writing(j)' = {hand'[v].path : v \in A}
  BY DEF Writing
<1> HIDE DEF A
<1> QED
  BY <1>1, <1>2

\* What is left to show of a step of the origin on connection k.
LEMMA OriginStep ==
    ASSUME IndInv, NEW k \in Conns, UNCHANGED <<generator, faults, g_keep_alive>>,
           net[k].server # "none", net'[k].server # "none",
           net'[k].client = net[k].client, net'[k].broken = net[k].broken,
           \A j \in Conns : j # k =>
               net'[j] = net[j] /\ inbuf'[j] = inbuf[j] /\ Writing(j)' = Writing(j),
           HarnessType', Owned', HandsClosing',
           \A t \in Threads : sock[t] = k => StreamOf(t)' /\ ClosedOf(t)'
    PROVE  IndInv'
<1>0. /\ HarnessType /\ Placed /\ Streams /\ Counted /\ OwnResponse
      /\ \A t \in Threads : ClosedOf(t)
      /\ UNCHANGED <<keep_alive, at, i, sock, rbuf, last, ok, failed>>
  BY DEF IndInv, Closing, generator
<1>1. \A t \in Threads : sock[t] # NoSock => sock[t] \in Conns
  BY <1>0 DEF HarnessType
<1>2. \A j \in Conns : net'[j].client = net[j].client /\ net'[j].broken = net[j].broken
  OBVIOUS
<1>3. Placed'
  <2> SUFFICES ASSUME NEW t \in Threads PROVE PlacedOf(t)'
    BY DEF Placed
  <2>1. PlacedOf(t)
    BY <1>0 DEF Placed
  <2>2. sock[t] # NoSock => net'[sock[t]].server # "none" /\ net'[sock[t]].client = net[sock[t]].client
    BY <1>1, <1>2, <2>1 DEF PlacedOf
  <2>3. \A n \in 1..Requests : n > i[t] /\ sock[t] # <<t, n>> =>
            net'[<<t, n>>] = Unused /\ inbuf'[<<t, n>>] = <<>>
    <3>1. net[k] # Unused
      BY DEF Unused
    <3>2. \A n \in 1..Requests : <<t, n>> \in Conns
      BY ConnParts
    <3>3. \A n \in 1..Requests : n > i[t] /\ sock[t] # <<t, n>> =>
              net[<<t, n>>] = Unused /\ inbuf[<<t, n>>] = <<>>
      BY <2>1 DEF PlacedOf
    <3> QED
      BY <3>1, <3>2, <3>3
  <2> QED
    BY <1>0, <2>1, <2>2, <2>3 DEF PlacedOf
<1>4. ASSUME NEW t \in Threads PROVE (sock'[t] # NoSock => StreamOf(t)') /\ ClosedOf(t)'
  <2>1. CASE sock[t] = k
    BY <2>1
  <2>2. CASE sock[t] = NoSock
    BY <1>0, <2>2 DEF ClosedOf
  <2>3. CASE sock[t] # k /\ sock[t] # NoSock
    <3>1. /\ net'[sock[t]] = net[sock[t]] /\ inbuf'[sock[t]] = inbuf[sock[t]]
          /\ Writing(sock[t])' = Writing(sock[t])
      BY <1>0, <1>1, <2>3
    <3>2. StreamOf(t) /\ ClosedOf(t)
      BY <1>0, <2>3 DEF Streams
    <3>3. StreamOf(t)'
      BY <1>0, <3>1, <3>2 DEF StreamOf, Bye
    <3>4. ClosedOf(t)'
      BY <1>0, <3>1, <3>2 DEF ClosedOf
    <3> QED
      BY <3>3, <3>4
  <2> QED
    BY <2>1, <2>2, <2>3
<1>5. Streams' /\ Closing'
  BY <1>4 DEF Streams, Closing
<1>6. Finished' = Finished /\ Exposed' = Exposed
  <2>1. Finished' = Finished
    BY <1>0 DEF Finished
  <2>2. \A t \in Threads : sock[t] # NoSock => net'[sock[t]].broken = net[sock[t]].broken
    BY <1>1, <1>2
  <2>3. \A t : t \in Exposed' <=> t \in Exposed
    BY <1>0, <2>2 DEF Exposed
  <2> QED
    BY <2>1, <2>3
<1>7. Counted' /\ OwnResponse'
  BY <1>0, <1>6 DEF Counted, OwnResponse
<1> QED
  BY <1>3, <1>5, <1>7 DEF IndInv

LEMMA TaskParts ==
    ASSUME HarnessType
    PROVE  /\ Len(tasks) \in Nat /\ \A n \in 1..Len(tasks) : tasks[n] \in Conns
           /\ \A w \in Workers : Busy(w) <=> hand[w].pc \in {"parse", "body"}
<1>1. Len(tasks) \in Nat /\ \A n \in 1..Len(tasks) : tasks[n] \in Conns
  BY LenProperties, ElementOfSeq DEF HarnessType
<1>2. \A w \in Workers : Busy(w) <=> hand[w].pc \in {"parse", "body"}
  BY DEF HarnessType, Hands, Busy
<1> QED
  BY <1>1, <1>2

\* What a thread sees of a connection whose pieces the origin leaves alone.
LEMMA StreamSame ==
    ASSUME NEW t \in Threads, NEW k, sock[t] = k, StreamOf(t), UNCHANGED generator,
           net'[k].up = net[k].up, net'[k].down = net[k].down,
           net'[k].broken = net[k].broken,
           ~net[k].broken => inbuf'[k] = inbuf[k] /\ Writing(k)' = Writing(k)
    PROVE  StreamOf(t)'
<1>1. UNCHANGED <<keep_alive, at, i, sock, rbuf>>
  BY DEF generator
<1> QED
  BY <1>1 DEF StreamOf, Bye

\* A connection comes out of the backlog and is armed.
LEMMA AcceptKeeps ==
    ASSUME IndInv, NEW k \in Conns, Accept(k), UNCHANGED generator
    PROVE  IndInv'
<1>0. /\ HarnessType /\ Owned /\ Streams /\ HandsClosing
      /\ net[k].server = "backlog"
      /\ net' = [net EXCEPT ![k].server = "open"]
      /\ armed' = armed \cup {k}
      /\ UNCHANGED <<faults, g_keep_alive, inbuf, tasks, hand>>
      /\ UNCHANGED <<keep_alive, at, i, sock, rbuf, last, ok, failed>>
  BY DEF IndInv, Closing, Accept, generator
<1>1. Becomes(k, net[k].up, net[k].down, net[k].client, "open", net[k].broken)
  BY <1>0, LinkServer, Zenon DEF HarnessType
<1>2. HarnessType'
  BY <1>0, <1>1 DEF HarnessType, Becomes
<1>3. \A j \in Conns : net[j].server = "open" => net'[j].server = "open" /\ j # k
  BY <1>0, <1>1 DEF Becomes
<1>4. Owned'
  <2>1. \A n \in 1..Len(tasks) : tasks[n] \in Conns
    BY <1>0, TaskParts
  <2>2. net'[k].server = "open"
    BY <1>1 DEF Becomes
  <2>3. \A j \in armed : j \in Conns
    BY <1>0 DEF HarnessType
  <2> QED
    BY <1>0, <1>3, <2>1, <2>2, <2>3 DEF Owned, Busy
<1>5. HandsClosing'
  <2>1. \A j \in Conns : net'[j].client = net[j].client
    BY <1>1 DEF Becomes
  <2> QED
    BY <1>0, <2>1, HandsFrame
<1>6. \A j : Writing(j)' = Writing(j)
  BY <1>0 DEF Writing
<1>7. ASSUME NEW t \in Threads, sock[t] = k PROVE StreamOf(t)' /\ ClosedOf(t)'
  <2>1. StreamOf(t)
    BY <1>0, <1>7, NoSockAssumption DEF Streams
  <2>2. StreamOf(t)'
    BY <1>0, <1>1, <1>6, <1>7, <2>1, StreamSame DEF Becomes
  <2>3. ClosedOf(t)'
    BY <1>0, <1>1, <1>7 DEF ClosedOf, Becomes
  <2> QED
    BY <2>2, <2>3
<1>8. /\ net[k].server # "none" /\ net'[k].server # "none"
      /\ net'[k].client = net[k].client /\ net'[k].broken = net[k].broken
      /\ \A j \in Conns : j # k => net'[j] = net[j]
  BY <1>0, <1>1 DEF Becomes
<1> QED
  BY <1>0, <1>2, <1>4, <1>5, <1>6, <1>7, <1>8, OriginStep

\* An event disarms the connection, and it is in the one task now.
LEMMA DispatchKeeps ==
    ASSUME IndInv, NEW k \in Conns, Dispatch(k), UNCHANGED generator
    PROVE  IndInv'
<1>0. /\ HarnessType /\ Owned /\ Streams /\ HandsClosing
      /\ \A t \in Threads : ClosedOf(t)
      /\ k \in armed
      /\ armed' = armed \ {k} /\ tasks' = Append(tasks, k)
      /\ UNCHANGED <<net, faults, g_keep_alive, inbuf, hand>>
      /\ UNCHANGED <<keep_alive, at, i, sock, rbuf, last, ok, failed>>
  BY DEF IndInv, Closing, Dispatch, generator
<1>1. /\ tasks \in Seq(Conns) /\ tasks' \in Seq(Conns) /\ Len(tasks') = Len(tasks) + 1
      /\ \A n \in 1..Len(tasks) : tasks'[n] = tasks[n]
      /\ tasks'[Len(tasks) + 1] = k /\ Len(tasks) \in Nat
  BY <1>0, AppendProperties, TaskParts DEF HarnessType
<1>2. HarnessType'
  BY <1>0, <1>1 DEF HarnessType
<1>3. net[k].server = "open"
  BY <1>0 DEF Owned
<1>4. Owned'
  <2>1. \A n \in 1..Len(tasks') : n \in 1..Len(tasks) \/ n = Len(tasks) + 1
    BY <1>1
  <2>2. \A n \in 1..Len(tasks') :
            \/ n \in 1..Len(tasks) /\ tasks'[n] = tasks[n] /\ tasks[n] # k
            \/ n = Len(tasks) + 1 /\ tasks'[n] = k
    BY <1>0, <1>1, <2>1 DEF Owned
  <2>3. \A j \in armed' : \A n \in 1..Len(tasks') : tasks'[n] # j
    BY <1>0, <2>2 DEF Owned
  <2>4. \A n \in 1..Len(tasks') : /\ net[tasks'[n]].server = "open"
                                  /\ \A w \in Workers : Busy(w) => hand[w].conn # tasks'[n]
    BY <1>0, <1>3, <2>2 DEF Owned
  <2>5. \A n, m \in 1..Len(tasks') : tasks'[n] = tasks'[m] => n = m
    BY <1>0, <2>2 DEF Owned
  <2> QED
    BY <1>0, <2>3, <2>4, <2>5 DEF Owned, Busy
<1>5. HandsClosing'
  BY <1>0, HandsFrame
<1>6. \A j : Writing(j)' = Writing(j)
  BY <1>0 DEF Writing
<1>7. ASSUME NEW t \in Threads, sock[t] = k PROVE StreamOf(t)' /\ ClosedOf(t)'
  <2>1. StreamOf(t)
    BY <1>0, <1>7, NoSockAssumption DEF Streams
  <2>2. StreamOf(t)'
    BY <1>0, <1>6, <1>7, <2>1, StreamSame
  <2>3. ClosedOf(t)'
    BY <1>0 DEF ClosedOf
  <2> QED
    BY <2>2, <2>3
<1> QED
  BY <1>0, <1>2, <1>3, <1>4, <1>5, <1>6, <1>7, OriginStep

\* A worker has taken the first task: the connection is with it, or is closed.
LEMMA TaskTaken ==
    ASSUME HarnessType, Owned, NEW w \in Workers, NEW k, hand[w].pc = "pop",
           tasks # <<>>, k = Head(tasks), tasks' = Tail(tasks), UNCHANGED armed,
           \A v \in Workers : v # w => hand'[v] = hand[v],
           \A j \in Conns : j # k => net'[j].server = net[j].server,
           \/ hand'[w].pc = "pop"
           \/ hand'[w].conn = k /\ net'[k].server = net[k].server
    PROVE  /\ k \in Conns /\ net[k].server = "open" /\ tasks' \in Seq(Conns)
           /\ Owned'
<1>1. /\ tasks \in Seq(Conns) /\ Len(tasks) \in Nat /\ Len(tasks) # 0
      /\ k = tasks[1] /\ tasks' \in Seq(Conns)
      /\ Len(tasks') = Len(tasks) - 1
      /\ \A n \in 1..Len(tasks') : tasks'[n] = tasks[n + 1]
  BY HeadTailProperties, LenProperties, EmptySeq DEF HarnessType
<1>2. /\ 1 \in 1..Len(tasks)
      /\ \A n \in 1..Len(tasks') : n \in Nat /\ n + 1 \in 1..Len(tasks) /\ n + 1 # 1
  BY <1>1
<1>3. k \in Conns /\ net[k].server = "open"
  BY <1>1, <1>2, TaskParts DEF Owned
<1>4. \A n \in 1..Len(tasks') : tasks'[n] # k /\ tasks'[n] \in Conns
  BY <1>1, <1>2, TaskParts DEF Owned
<1>5. \A n \in 1..Len(tasks') : net'[tasks'[n]].server = "open"
  BY <1>1, <1>2, <1>4 DEF Owned
<1>6. \A v \in Workers : (Busy(v))' => v = w \/ (v # w /\ Busy(v) /\ hand'[v] = hand[v])
  BY DEF Busy
<1>7. \A v \in Workers : Busy(v) => hand[v].conn # k
  BY <1>1, <1>2 DEF Owned
<1>8. (Busy(w))' => hand'[w].conn = k /\ net'[k].server = "open"
  BY <1>3 DEF Busy
<1>9. \A j \in armed : /\ net'[j].server = "open" /\ j # k
                       /\ \A n \in 1..Len(tasks') : tasks'[n] # j
  <2> SUFFICES ASSUME NEW j \in armed
               PROVE  /\ net'[j].server = "open" /\ j # k
                      /\ \A n \in 1..Len(tasks') : tasks'[n] # j
    OBVIOUS
  <2>1. /\ j \in Conns /\ net[j].server = "open"
        /\ \A n \in 1..Len(tasks) : tasks[n] # j
    BY DEF Owned, HarnessType
  <2>2. j # k
    BY <1>1, <1>2, <2>1
  <2>3. \A n \in 1..Len(tasks') : tasks'[n] # j
    BY <1>1, <1>2, <2>1
  <2> QED
    BY <2>1, <2>2, <2>3
<1>10. \A j \in armed : \A v \in Workers : (Busy(v))' => hand'[v].conn # j
  BY <1>6, <1>8, <1>9 DEF Owned
<1>11. \A n \in 1..Len(tasks') : \A v \in Workers : (Busy(v))' => hand'[v].conn # tasks'[n]
  BY <1>1, <1>2, <1>4, <1>6, <1>8 DEF Owned
<1>12. \A n, m \in 1..Len(tasks') : tasks'[n] = tasks'[m] => n = m
  <2> TAKE n, m \in 1..Len(tasks')
  <2> HAVE tasks'[n] = tasks'[m]
  <2>1. tasks[n + 1] = tasks[m + 1]
    BY <1>1
  <2>2. n + 1 = m + 1
    BY <1>2, <2>1 DEF Owned
  <2> QED
    BY <1>2, <2>2
<1>13. \A v \in Workers : (Busy(v))' =>
          hand'[v].conn \in Conns /\ net'[hand'[v].conn].server = "open"
  BY <1>3, <1>6, <1>7, <1>8 DEF Owned
<1>14. \A u, v \in Workers :
          (Busy(u))' /\ (Busy(v))' /\ hand'[u].conn = hand'[v].conn => u = v
  BY <1>6, <1>7, <1>8 DEF Owned
<1> QED
  BY <1>1, <1>3, <1>5, <1>9, <1>10, <1>11, <1>12, <1>13, <1>14 DEF Owned

\* A worker reads what there is, or closes a connection that is broken.
LEMMA RecvKeeps ==
    ASSUME IndInv, NEW w \in Workers, Recv(w), UNCHANGED generator
    PROVE  IndInv'
<1> SUFFICES ASSUME NEW k, k = Head(tasks) PROVE IndInv'
  OBVIOUS
<1>0. /\ HarnessType /\ Owned /\ Streams /\ HandsClosing
      /\ hand[w].pc = "pop" /\ tasks # <<>> /\ tasks' = Tail(tasks)
      /\ UNCHANGED <<faults, g_keep_alive, armed>>
      /\ UNCHANGED <<keep_alive, at, i, sock, rbuf, last, ok, failed>>
  BY DEF IndInv, Closing, Recv, generator
<1>1. k \in Conns /\ inbuf \in [Conns -> Seq(Piece)]
  BY <1>0, HeadTailProperties DEF HarnessType
<1>2. /\ net[k].up \in Seq(Piece) /\ inbuf[k] \in Seq(Piece)
      /\ inbuf[k] \o net[k].up \in Seq(Piece) /\ <<>> \in Seq(Piece)
      /\ net[k].broken \in BOOLEAN
  BY <1>0, <1>1, LinkParts, ConcatProperties
<1>3. CASE net[k].broken
  <2>0. /\ net' = [net EXCEPT ![k].server = "closed"]
        /\ hand' = [hand EXCEPT ![w] = Free] /\ UNCHANGED inbuf
    BY <1>3 DEF Recv, close_conn
  <2>1. Becomes(k, net[k].up, net[k].down, net[k].client, "closed", net[k].broken)
    BY <1>0, <1>1, <2>0, LinkServer, Zenon DEF HarnessType
  <2>2. HandBecomes(w, "pop", None, FALSE, FALSE, None)
    BY <1>0, <2>0, HandFree
  <2>3. /\ k \in Conns /\ net[k].server = "open" /\ tasks' \in Seq(Conns)
        /\ Owned'
    BY <1>0, <2>1, <2>2, TaskTaken DEF Becomes, HandBecomes
  <2>4. HarnessType'
    BY <1>0, <2>0, <2>1, <2>2, <2>3 DEF HarnessType, Becomes, HandBecomes
  <2>5. HandsClosing'
    <3>1. \A v \in Workers : (Busy(v))' => Busy(v) /\ hand'[v] = hand[v]
      BY <2>2 DEF Busy, HandBecomes
    <3>2. \A v \in Workers : Busy(v) => net'[hand[v].conn].client = net[hand[v].conn].client
      BY <1>0, <2>1 DEF Owned, Becomes
    <3> QED
      BY <1>0, <3>1, <3>2 DEF HandsClosing
  <2>6. \A j \in Conns : Writing(j)' = Writing(j)
    BY <1>0, <2>2, WritesElsewhere DEF HandBecomes
  <2>7. ASSUME NEW t \in Threads, sock[t] = k PROVE StreamOf(t)' /\ ClosedOf(t)'
    <3>1. StreamOf(t)
      BY <1>0, <1>1, <2>7, NoSockAssumption DEF Streams
    <3>2. StreamOf(t)'
      BY <1>0, <1>3, <2>1, <2>7, <3>1, StreamSame DEF Becomes
    <3>3. ClosedOf(t)'
      BY <1>0, <1>3, <2>1, <2>7 DEF ClosedOf, Becomes
    <3> QED
      BY <3>2, <3>3
  <2>8. /\ net[k].server # "none" /\ net'[k].server # "none"
        /\ net'[k].client = net[k].client /\ net'[k].broken = net[k].broken
        /\ \A j \in Conns : j # k => net'[j] = net[j]
    BY <2>1, <2>3 DEF Becomes
  <2> QED
    BY <1>0, <1>1, <2>0, <2>3, <2>4, <2>5, <2>6, <2>7, <2>8, OriginStep
<1>4. CASE ~net[k].broken
  <2> SUFFICES ASSUME NEW b \in BOOLEAN, b = (net[k].client = "closed") PROVE IndInv'
    OBVIOUS
  <2>0. /\ net' = [net EXCEPT ![k].up = <<>>]
        /\ inbuf' = [inbuf EXCEPT ![k] = inbuf[k] \o net[k].up]
        /\ hand' = [hand EXCEPT ![w] =
                       [pc |-> "parse", conn |-> k, peer_closed |-> b,
                        wants_close |-> FALSE, path |-> None]]
    BY <1>4 DEF Recv
  <2>1. Becomes(k, <<>>, net[k].down, net[k].client, net[k].server, net[k].broken)
    BY <1>0, <1>1, <1>2, <2>0, LinkUp, Zenon DEF HarnessType
  <2>2. HandBecomes(w, "parse", k, b, FALSE, None)
    BY <1>0, <1>1, <2>0, HandTakes, Zenon
  <2>3. /\ k \in Conns /\ net[k].server = "open" /\ tasks' \in Seq(Conns)
        /\ Owned'
    BY <1>0, <2>1, <2>2, TaskTaken DEF Becomes, HandBecomes
  <2>4. /\ inbuf' \in [Conns -> Seq(Piece)] /\ inbuf'[k] = inbuf[k] \o net[k].up
        /\ \A j \in Conns : j # k => inbuf'[j] = inbuf[j]
    BY <1>1, <1>2, <2>0
  <2>5. HarnessType'
    BY <1>0, <2>1, <2>2, <2>3, <2>4 DEF HarnessType, Becomes, HandBecomes
  <2>6. HandsClosing'
    <3>1. \A v \in Workers : (Busy(v))' => v = w \/ (Busy(v) /\ hand'[v] = hand[v])
      <4>1. \A v \in Workers : v # w => hand'[v] = hand[v]
        BY <2>2 DEF HandBecomes
      <4> QED
        BY <4>1, BusyAfter, Zenon
    <3>2. \A v \in Workers : Busy(v) => net'[hand[v].conn].client = net[hand[v].conn].client
      BY <1>0, <2>1 DEF Owned, Becomes
    <3>3. /\ hand'[w].peer_closed => net'[hand'[w].conn].client = "closed"
          /\ ~hand'[w].wants_close
      BY <2>1, <2>2 DEF Becomes, HandBecomes
    <3> QED
      BY <1>0, <3>1, <3>2, <3>3 DEF HandsClosing
  <2>7. \A j \in Conns : Writing(j)' = Writing(j)
    BY <1>0, <2>2, WritesElsewhere DEF HandBecomes
  <2>8. ASSUME NEW t \in Threads, sock[t] = k PROVE StreamOf(t)' /\ ClosedOf(t)'
    <3>0. i[t] + 1 \in Nat /\ (~keep_alive) \in BOOLEAN
      <4>1. i[t] + 1 \in Nat
        BY <1>0 DEF HarnessType
      <4>2. (~keep_alive) \in BOOLEAN
        BY <1>0, Zenon DEF HarnessType
      <4> QED
        BY <4>1, <4>2
    <3>1. StreamOf(t)
      BY <1>0, <1>1, <2>8, NoSockAssumption DEF Streams
    <3>2. InStep(at[t], i[t] + 1, ~keep_alive, inbuf[k], net[k].up, net[k].down, rbuf[t],
                 Writing(k))
      BY <1>4, <2>8, <3>1 DEF StreamOf, Bye
    <3>3. InStep(at[t], i[t] + 1, ~keep_alive, inbuf[k] \o net[k].up, <<>>, net[k].down,
                 rbuf[t], Writing(k))
      BY <1>2, <3>0, <3>2, OriginReads
    <3>4. StreamOf(t)'
      BY <1>0, <1>1, <1>4, <2>1, <2>4, <2>7, <2>8, <3>3 DEF StreamOf, Bye, Becomes
    <3>5. ClosedOf(t)'
      BY <1>0, <2>1, <2>3, <2>8 DEF ClosedOf, Becomes
    <3> QED
      BY <3>4, <3>5
  <2>9. /\ net[k].server # "none" /\ net'[k].server # "none"
        /\ net'[k].client = net[k].client /\ net'[k].broken = net[k].broken
        /\ \A j \in Conns : j # k => net'[j] = net[j]
    BY <2>1, <2>3 DEF Becomes
  <2> QED
    BY <1>0, <1>1, <2>3, <2>4, <2>5, <2>6, <2>7, <2>8, <2>9, OriginStep
<1> QED
  BY <1>3, <1>4

\* A worker goes on with the connection it has.
LEMMA HandKept ==
    ASSUME HarnessType, Owned, NEW w \in Workers, Busy(w), UNCHANGED <<armed, tasks>>,
           \A v \in Workers : v # w => hand'[v] = hand[v],
           hand'[w].conn = hand[w].conn,
           \A j \in Conns : net'[j].server = net[j].server
    PROVE  Owned'
<1>1. \A v \in Workers : (Busy(v))' => Busy(v) /\ hand'[v].conn = hand[v].conn
  BY BusyAfter
<1>2. \A n \in 1..Len(tasks) : tasks[n] \in Conns
  BY TaskParts
<1>3. \A j \in armed : j \in Conns
  BY DEF HarnessType
<1> QED
  BY <1>1, <1>2, <1>3 DEF Owned

\* A worker is done with its connection: it has closed it or armed it again.
LEMMA HandLeft ==
    ASSUME HarnessType, Owned, NEW w \in Workers, Busy(w), NEW k, k = hand[w].conn,
           UNCHANGED tasks, hand'[w].pc = "pop",
           \A v \in Workers : v # w => hand'[v] = hand[v],
           \A j \in Conns : j # k => net'[j].server = net[j].server,
           armed' = armed \/ (armed' = armed \cup {k} /\ net'[k].server = net[k].server)
    PROVE  Owned'
<1>0. /\ k \in Conns /\ net[k].server = "open" /\ k \notin armed
      /\ \A n \in 1..Len(tasks) : tasks[n] # k
  BY DEF Owned
<1>1. \A v \in Workers : (Busy(v))' => Busy(v) /\ hand'[v] = hand[v] /\ v # w
  BY BusyAfter DEF Busy
<1>2. \A v \in Workers : (Busy(v))' => hand'[v].conn # k
  BY <1>1 DEF Owned
<1>3. \A n \in 1..Len(tasks) : tasks[n] \in Conns
  BY TaskParts
<1>4. \A j \in armed' : /\ j \in Conns /\ net'[j].server = "open"
                        /\ \A n \in 1..Len(tasks) : tasks[n] # j
                        /\ \A v \in Workers : (Busy(v))' => hand'[v].conn # j
  BY <1>0, <1>1, <1>2 DEF Owned, HarnessType
<1>5. \A n \in 1..Len(tasks) : /\ net'[tasks[n]].server = "open"
                               /\ \A v \in Workers : (Busy(v))' => hand'[v].conn # tasks[n]
  BY <1>0, <1>1, <1>3 DEF Owned
<1>6. \A v \in Workers : (Busy(v))' =>
          hand'[v].conn \in Conns /\ net'[hand'[v].conn].server = "open"
  BY <1>1, <1>2 DEF Owned
<1>7. \A u, v \in Workers :
          (Busy(u))' /\ (Busy(v))' /\ hand'[u].conn = hand'[v].conn => u = v
  BY <1>1 DEF Owned
<1>8. \A n, m \in 1..Len(tasks) : tasks[n] = tasks[m] => n = m
  BY DEF Owned
<1> QED
  BY <1>4, <1>5, <1>6, <1>7, <1>8 DEF Owned

\* The reasons to close when worker w has let go of its connection.
LEMMA HandsLeft ==
    ASSUME HarnessType, Owned, HandsClosing, NEW w \in Workers, hand'[w].pc = "pop",
           \A v \in Workers : v # w => hand'[v] = hand[v], UNCHANGED <<sock, keep_alive>>,
           \A j \in Conns : net'[j].client = net[j].client
    PROVE  HandsClosing'
<1>1. \A v \in Workers : (Busy(v))' => Busy(v) /\ hand'[v] = hand[v]
  BY BusyAfter DEF Busy
<1>2. \A v \in Workers : Busy(v) => net'[hand[v].conn].client = net[hand[v].conn].client
  BY DEF Owned
<1> QED
  BY <1>1, <1>2 DEF HandsClosing

\* A worker closes its connection: one that is broken, or that no thread has.
LEMMA CloseKeeps ==
    ASSUME IndInv, NEW w \in Workers, Busy(w), NEW k, k = hand[w].conn, close_conn(w, k),
           UNCHANGED <<faults, g_keep_alive, armed, tasks, generator>>,
           inbuf' \in [Conns -> Seq(Piece)],
           \A j \in Conns : j # k => inbuf'[j] = inbuf[j],
           net[k].broken \/ net[k].client = "closed"
    PROVE  IndInv'
<1>0. /\ HarnessType /\ Owned /\ Placed /\ Streams /\ HandsClosing
      /\ net' = [net EXCEPT ![k].server = "closed"]
      /\ hand' = [hand EXCEPT ![w] = Free]
      /\ UNCHANGED <<keep_alive, at, i, sock, rbuf, last, ok, failed>>
  BY DEF IndInv, Closing, close_conn, generator
<1>1. k \in Conns /\ net[k].server = "open"
  BY <1>0 DEF Owned
<1>2. Becomes(k, net[k].up, net[k].down, net[k].client, "closed", net[k].broken)
  BY <1>0, <1>1, LinkServer, Zenon DEF HarnessType
<1>3. HandBecomes(w, "pop", None, FALSE, FALSE, None)
  BY <1>0, HandFree
<1>4. Owned'
  BY <1>0, <1>2, <1>3, HandLeft DEF Becomes, HandBecomes
<1>5. HarnessType'
  BY <1>0, <1>2, <1>3 DEF HarnessType, Becomes, HandBecomes
<1>6. HandsClosing'
  BY <1>0, <1>2, <1>3, HandsLeft DEF Becomes, HandBecomes
<1>7. \A j \in Conns : j # k => Writing(j)' = Writing(j)
  BY <1>3, WritesElsewhere DEF HandBecomes
<1>8. ASSUME NEW t \in Threads, sock[t] = k PROVE StreamOf(t)' /\ ClosedOf(t)'
  <2>0. k # NoSock
    BY <1>1, NoSockAssumption
  <2>1. StreamOf(t) /\ PlacedOf(t)
    BY <1>0, <1>8, <2>0 DEF Streams, Placed
  <2>2. net[k].broken
    BY <1>8, <2>0, <2>1 DEF PlacedOf
  <2>3. StreamOf(t)'
    BY <1>8, <1>2, <2>1, <2>2, StreamSame DEF Becomes
  <2>4. ClosedOf(t)'
    BY <1>0, <1>2, <1>8, <2>2 DEF ClosedOf, Becomes
  <2> QED
    BY <2>3, <2>4
<1>9. /\ net[k].server # "none" /\ net'[k].server # "none"
      /\ net'[k].client = net[k].client /\ net'[k].broken = net[k].broken
      /\ \A j \in Conns : j # k => net'[j] = net[j]
  BY <1>1, <1>2 DEF Becomes
<1> QED
  BY <1>0, <1>1, <1>4, <1>5, <1>6, <1>7, <1>8, <1>9, OriginStep

\* No whole request is left: after the client's end of file the connection is
\* closed, otherwise it is armed again.
LEMMA RearmKeeps ==
    ASSUME IndInv, NEW w \in Workers, Rearm(w), UNCHANGED generator
    PROVE  IndInv'
<1> SUFFICES ASSUME NEW k, k = hand[w].conn PROVE IndInv'
  OBVIOUS
<1>0. /\ HarnessType /\ Owned /\ Streams /\ HandsClosing
      /\ \A t \in Threads : ClosedOf(t)
      /\ hand[w].pc = "parse" /\ Busy(w)
      /\ UNCHANGED <<faults, g_keep_alive, inbuf, tasks>>
      /\ UNCHANGED <<keep_alive, at, i, sock, rbuf, last, ok, failed>>
  BY DEF IndInv, Closing, Rearm, Busy, generator
<1>1. k \in Conns /\ net[k].server = "open"
  BY <1>0 DEF Owned
<1>2. CASE hand[w].peer_closed
  <2>1. net[k].client = "closed"
    BY <1>0, <1>2 DEF HandsClosing
  <2>2. close_conn(w, k) /\ UNCHANGED armed
    BY <1>2 DEF Rearm
  <2>3. inbuf \in [Conns -> Seq(Piece)]
    BY <1>0 DEF HarnessType
  <2> QED
    BY <1>0, <2>1, <2>2, <2>3, CloseKeeps
<1>3. CASE ~hand[w].peer_closed
  <2>0. armed' = armed \cup {k} /\ hand' = [hand EXCEPT ![w] = Free] /\ UNCHANGED net
    BY <1>3 DEF Rearm
  <2>1. HandBecomes(w, "pop", None, FALSE, FALSE, None)
    BY <1>0, <2>0, HandFree
  <2>2. Owned'
    BY <1>0, <2>0, <2>1, HandLeft DEF HandBecomes
  <2>3. HarnessType'
    BY <1>0, <1>1, <2>0, <2>1 DEF HarnessType, HandBecomes
  <2>4. HandsClosing'
    BY <1>0, <2>0, <2>1, HandsLeft DEF HandBecomes
  <2>5. \A j : Writing(j)' = Writing(j)
    BY <1>0, <2>1, WritesElsewhere DEF HandBecomes
  <2>6. ASSUME NEW t \in Threads, sock[t] = k PROVE StreamOf(t)' /\ ClosedOf(t)'
    <3>1. StreamOf(t) /\ ClosedOf(t)
      BY <1>0, <1>1, <2>6, NoSockAssumption DEF Streams
    <3>2. StreamOf(t)'
      BY <1>0, <2>0, <2>5, <2>6, <3>1, StreamSame
    <3>3. ClosedOf(t)'
      BY <1>0, <2>0, <3>1 DEF ClosedOf
    <3> QED
      BY <3>2, <3>3
  <2> QED
    BY <1>0, <1>1, <2>0, <2>2, <2>3, <2>4, <2>5, <2>6, OriginStep
<1> QED
  BY <1>2, <1>3

LEMMA LeastIndex ==
    ASSUME NEW T, T \subseteq Nat, T # {}
    PROVE  \E x \in T : \A y \in T : x <= y
<1> DEFINE R == {ss \in Nat \X Nat : ss[1] < ss[2]}
<1>1. IsWellFoundedOn(R, Nat)
  BY NatLessThanWellFounded, Zenon DEF OpToRel
<1>2. PICK x \in T : \A y \in T : ~(<<y, x>> \in R)
  BY <1>1, WFMin, Zenon
<1>3. \A y \in T : x \in Nat /\ y \in Nat /\ ~(y < x)
  BY <1>2
<1> QED
  BY <1>3

\* The first whole request in a connection's buffer, and what is behind it.
LEMMA FirstWhole ==
    ASSUME HarnessType, NEW k \in Conns, Whole(k) # {},
           NEW n, n = CHOOSE m \in Whole(k) : \A l \in Whole(k) : m <= l
    PROVE  /\ ReqThere(inbuf[k], n)
           /\ inbuf[k][n].path \in Nat /\ inbuf[k][n].close \in BOOLEAN
           /\ SubSeq(inbuf[k], n + 1, Len(inbuf[k])) \in Seq(Piece)
<1>1. inbuf[k] \in Seq(Piece) /\ Len(inbuf[k]) \in Nat
  BY LinkParts, LenProperties
<1>2. Whole(k) = {m \in 1..Len(inbuf[k]) : inbuf[k][m].kind = "req"}
  BY DEF Whole
<1>3. Whole(k) \subseteq Nat
  BY <1>1, <1>2
<1>4. \E m \in Whole(k) : \A l \in Whole(k) : m <= l
  BY <1>3, LeastIndex
<1>5. n \in Whole(k)
  BY <1>4
<1>6. n \in 1..Len(inbuf[k]) /\ inbuf[k][n].kind = "req"
  BY <1>2, <1>5
<1>7. inbuf[k][n] \in Piece
  BY <1>1, <1>6, ElementOfSeq
<1>8. inbuf[k][n].path \in Nat /\ inbuf[k][n].close \in BOOLEAN
  BY <1>7 DEF Piece
<1>9. n \in 0..Len(inbuf[k])
  BY <1>1, <1>6
<1>10. SubSeq(inbuf[k], n + 1, Len(inbuf[k])) \in Seq(Piece)
  BY <1>1, <1>9, CutMoves
<1> QED
  BY <1>6, <1>8, <1>10 DEF ReqThere

\* What the thread of a connection knows when the origin finds a request there.
LEMMA ByeIs ==
    ASSUME HarnessType
    PROVE  Bye \in BOOLEAN /\ (Bye <=> ~keep_alive)
  BY Zenon DEF Bye, HarnessType

LEMMA WholeIsOwn ==
    ASSUME IndInv, NEW t \in Threads, NEW k \in Conns, sock[t] = k, ~net[k].broken,
           NEW n, ReqThere(inbuf[k], n)
    PROVE  /\ at[t] = "read" /\ ReqLast(inbuf[k], n, i[t] + 1, Bye)
           /\ InStep("read", i[t] + 1, Bye, <<>>, net[k].up,
                     Append(net[k].down, HeadOf(i[t] + 1)), rbuf[t], {i[t] + 1})
<1>0. HarnessType /\ PlacedOf(t) /\ StreamOf(t)
  BY NoSockAssumption DEF IndInv, Placed, Streams
<1>1. at[t] \in {"start", "rest", "read", "end"}
  BY <1>0, NoSockAssumption DEF HarnessType, PlacedOf
<1>2. i[t] + 1 \in Nat /\ Bye \in BOOLEAN
  BY <1>0, ByeIs DEF HarnessType
<1>3. net[k].up \in Seq(Piece) /\ inbuf[k] \in Seq(Piece)
  BY <1>0, LinkParts
<1>4. InStep(at[t], i[t] + 1, Bye, inbuf[k], net[k].up, net[k].down, rbuf[t], Writing(k))
  BY <1>0 DEF StreamOf
<1>5. /\ at[t] = "read" /\ ReqLast(inbuf[k], n, i[t] + 1, Bye)
      /\ InStep(at[t], i[t] + 1, Bye, <<>>, net[k].up,
                Append(net[k].down, HeadOf(i[t] + 1)), rbuf[t], {i[t] + 1})
  BY <1>1, <1>2, <1>3, <1>4, OriginParses
<1> QED
  BY <1>5

\* The origin starts the answer to the request in its buffer.
LEMMA Head200Keeps ==
    ASSUME IndInv, NEW w \in Workers, Head200(w), UNCHANGED generator
    PROVE  IndInv'
<1> SUFFICES ASSUME NEW k, k = hand[w].conn,
                    NEW n, n = CHOOSE m \in Whole(k) : \A l \in Whole(k) : m <= l,
                    NEW r, r = inbuf[k][n]
             PROVE  IndInv'
  OBVIOUS
<1>0. /\ HarnessType /\ Owned /\ Streams /\ HandsClosing
      /\ hand[w].pc = "parse" /\ Busy(w) /\ Whole(k) # {}
      /\ inbuf' = [inbuf EXCEPT ![k] = SubSeq(inbuf[k], n + 1, Len(inbuf[k]))]
      /\ UNCHANGED <<faults, g_keep_alive, armed, tasks>>
      /\ UNCHANGED <<keep_alive, at, i, sock, rbuf, last, ok, failed>>
  BY DEF IndInv, Closing, Head200, Busy, generator
<1>1. k \in Conns /\ net[k].server = "open" /\ inbuf \in [Conns -> Seq(Piece)]
  BY <1>0 DEF Owned, HarnessType
<1>2. /\ ReqThere(inbuf[k], n)
      /\ r.path \in Nat /\ r.close \in BOOLEAN
      /\ SubSeq(inbuf[k], n + 1, Len(inbuf[k])) \in Seq(Piece)
  BY <1>0, <1>1, FirstWhole
<1>3. /\ inbuf' \in [Conns -> Seq(Piece)]
      /\ inbuf'[k] = SubSeq(inbuf[k], n + 1, Len(inbuf[k]))
      /\ \A j \in Conns : j # k => inbuf'[j] = inbuf[j]
  BY <1>0, <1>1, <1>2
<1>4. CASE net[k].broken
  <2>1. close_conn(w, k)
    BY <1>4 DEF Head200
  <2> QED
    BY <1>0, <1>3, <1>4, <2>1, CloseKeeps
<1>5. CASE ~net[k].broken
  <2> SUFFICES ASSUME NEW b \in BOOLEAN, b <=> (hand[w].wants_close \/ r.close) PROVE IndInv'
    OBVIOUS
  <2>0. /\ net' = [net EXCEPT ![k].down = Append(net[k].down, HeadOf(r.path))]
        /\ hand' = [hand EXCEPT ![w].pc = "body", ![w].path = r.path, ![w].wants_close = b]
    BY <1>5, Zenon DEF Head200, HeadOf
  <2>1. net[k].down \in Seq(Chunk) /\ Append(net[k].down, HeadOf(r.path)) \in Seq(Chunk)
    BY <1>0, <1>1, <1>2, LinkParts, PieceTypes, AppendProperties
  <2>2. Becomes(k, net[k].up, Append(net[k].down, HeadOf(r.path)), net[k].client,
                net[k].server, net[k].broken)
    BY <1>0, <1>1, <2>0, <2>1, LinkDown, Zenon DEF HarnessType
  <2>3. HandBecomes(w, "body", k, hand[w].peer_closed, b, r.path)
    BY <1>0, <1>2, <2>0, HandParses, Zenon
  <2>4. HarnessType'
    BY <1>0, <1>3, <2>2, <2>3 DEF HarnessType, Becomes, HandBecomes
  <2>5. \A v \in Workers : v # w => hand'[v] = hand[v]
    BY <2>3 DEF HandBecomes
  <2>6. Owned'
    <3>1. \A j \in Conns : net'[j].server = net[j].server
      BY <2>2 DEF Becomes
    <3>2. hand'[w].conn = hand[w].conn
      BY <2>3 DEF HandBecomes
    <3> QED
      BY <1>0, <2>5, <3>1, <3>2, HandKept, Zenon
  <2>7. ASSUME NEW t \in Threads, sock[t] = k
        PROVE  /\ r.path = i[t] + 1 /\ at[t] = "read" /\ inbuf'[k] = <<>>
               /\ r.close = Bye
               /\ InStep("read", i[t] + 1, Bye, <<>>, net[k].up,
                         Append(net[k].down, HeadOf(i[t] + 1)), rbuf[t], {i[t] + 1})
    <3>1. /\ at[t] = "read" /\ ReqLast(inbuf[k], n, i[t] + 1, Bye)
          /\ InStep("read", i[t] + 1, Bye, <<>>, net[k].up,
                    Append(net[k].down, HeadOf(i[t] + 1)), rbuf[t], {i[t] + 1})
      BY <1>1, <1>2, <1>5, <2>7, WholeIsOwn, Zenon
    <3> QED
      BY <1>3, <3>1, Zenon DEF ReqLast
  <2>8. HandsClosing'
    <3>1. \A v \in Workers : (Busy(v))' => v = w \/ (Busy(v) /\ hand'[v] = hand[v])
      BY <2>5, BusyAfter, Zenon
    <3>2. \A v \in Workers : Busy(v) => net'[hand[v].conn].client = net[hand[v].conn].client
      BY <1>0, <2>2 DEF Owned, Becomes
    <3>3. /\ hand'[w].conn = k /\ hand'[w].peer_closed = hand[w].peer_closed
          /\ hand'[w].wants_close = b
      BY <2>3 DEF HandBecomes
    <3>4. \A t \in Threads : b /\ sock[t] = k => ~keep_alive
      <4> SUFFICES ASSUME NEW t \in Threads, b, sock[t] = k PROVE ~keep_alive
        BY Zenon
      <4>1. r.close <=> ~keep_alive
        <5>1. r.close = Bye
          BY <2>7
        <5> QED
          BY <1>0, <5>1, ByeIs, Zenon
      <4>2. hand[w].wants_close => ~keep_alive
        BY <1>0 DEF HandsClosing
      <4> QED
        BY <4>1, <4>2, Zenon
    <3> QED
      BY <1>0, <3>1, <3>2, <3>3, <3>4, Zenon DEF HandsClosing
  <2>9. /\ Writing(k)' = {r.path}
        /\ \A j \in Conns : j # k => Writing(j)' = Writing(j)
    <3>1. hand'[w].pc = "body" /\ hand'[w].conn = k /\ hand'[w].path = r.path
      BY <2>3 DEF HandBecomes
    <3>2. \A v \in Workers : v # w => ~(hand[v].pc = "body" /\ hand[v].conn = k)
      BY <1>0 DEF Owned, Busy
    <3>3. Writing(k)' = {r.path}
      BY <2>5, <3>1, <3>2, WritesAlone
    <3>4. \A j \in Conns : j # k => Writing(j)' = Writing(j)
      BY <1>0, <2>5, <3>1, WritesElsewhere
    <3> QED
      BY <3>3, <3>4
  <2>10. ASSUME NEW t \in Threads, sock[t] = k PROVE StreamOf(t)' /\ ClosedOf(t)'
    <3>1. r.path = i[t] + 1
      BY <2>7, <2>10
    <3>2. StreamOf(t)'
      <4>1. Bye' = Bye
        BY <1>0 DEF Bye
      <4> QED
        BY <1>0, <1>5, <2>2, <2>7, <2>9, <2>10, <3>1, <4>1 DEF StreamOf, Becomes
    <3>3. ClosedOf(t)'
      BY <1>0, <1>1, <2>2, <2>10 DEF ClosedOf, Becomes
    <3> QED
      BY <3>2, <3>3
  <2>11. /\ net[k].server # "none" /\ net'[k].server # "none"
         /\ net'[k].client = net[k].client /\ net'[k].broken = net[k].broken
         /\ \A j \in Conns : j # k => net'[j] = net[j]
    BY <1>1, <2>2 DEF Becomes
  <2> QED
    BY <1>0, <1>1, <1>3, <2>4, <2>6, <2>8, <2>9, <2>10, <2>11, OriginStep
<1> QED
  BY <1>4, <1>5

\* A worker that is to write a body on a thread's connection writes the one the
\* thread waits for.
LEMMA BodyIsOwn ==
    ASSUME IndInv, NEW t \in Threads, NEW k \in Conns, sock[t] = k, ~net[k].broken,
           NEW p \in Writing(k)
    PROVE  /\ at[t] = "read" /\ p = i[t] + 1
           /\ Answered(<<HeadOf(i[t] + 1), BodyOf(i[t] + 1)>>, inbuf[k], net[k].up,
                       Append(net[k].down, BodyOf(i[t] + 1)), rbuf[t])
<1>0. HarnessType /\ PlacedOf(t) /\ StreamOf(t)
  BY NoSockAssumption DEF IndInv, Placed, Streams
<1>1. at[t] \in {"start", "rest", "read", "end"}
  BY <1>0, NoSockAssumption DEF HarnessType, PlacedOf
<1>2. i[t] + 1 \in Nat /\ Bye \in BOOLEAN
  BY <1>0, ByeIs DEF HarnessType
<1>3. net[k].down \in Seq(Chunk) /\ rbuf[t] \in Seq(Chunk)
  BY <1>0, LinkParts DEF HarnessType
<1>4. InStep(at[t], i[t] + 1, Bye, inbuf[k], net[k].up, net[k].down, rbuf[t], Writing(k))
  BY <1>0 DEF StreamOf
<1>5. BodyNext(at[t], p, i[t] + 1, inbuf[k], net[k].up, net[k].down, rbuf[t])
  BY <1>1, <1>2, <1>3, <1>4, OriginWrites
<1> QED
  BY <1>5 DEF BodyNext

\* The origin ends the answer it has begun, and closes if the client or it does
\* not keep the connection.
LEMMA BodyKeeps ==
    ASSUME IndInv, NEW w \in Workers, Body(w), UNCHANGED generator
    PROVE  IndInv'
<1> SUFFICES ASSUME NEW k, k = hand[w].conn, NEW x, x = BodyOf(hand[w].path) PROVE IndInv'
  OBVIOUS
<1>0. /\ HarnessType /\ Owned /\ Placed /\ Streams /\ HandsClosing
      /\ hand[w].pc = "body" /\ Busy(w)
      /\ UNCHANGED <<faults, g_keep_alive, inbuf, armed, tasks>>
      /\ UNCHANGED <<keep_alive, at, i, sock, rbuf, last, ok, failed>>
  BY DEF IndInv, Closing, Body, Busy, generator
<1>1. k \in Conns /\ net[k].server = "open" /\ inbuf \in [Conns -> Seq(Piece)]
  BY <1>0 DEF Owned, HarnessType
<1>2. CASE net[k].broken
  <2>1. close_conn(w, k)
    BY <1>2 DEF Body
  <2> QED
    BY <1>0, <1>1, <1>2, <2>1, CloseKeeps
<1>3. CASE ~net[k].broken
  <2>0. net[k].down \in Seq(Chunk) /\ Append(net[k].down, x) \in Seq(Chunk)
    <3>1. x \in Chunk
      BY <1>0, HandParts DEF BodyOf, Chunk
    <3>2. net[k].down \in Seq(Chunk)
      BY <1>0, <1>1, LinkParts
    <3> QED
      BY <3>1, <3>2, AppendProperties
  <2>1. ASSUME NEW t \in Threads, sock[t] = k
        PROVE  /\ at[t] = "read"
               /\ Answered(<<HeadOf(i[t] + 1), BodyOf(i[t] + 1)>>, inbuf[k], net[k].up,
                           Append(net[k].down, x), rbuf[t])
    <3>1. hand[w].path \in Writing(k)
      BY <1>0 DEF Writing
    <3>2. /\ at[t] = "read" /\ hand[w].path = i[t] + 1
          /\ Answered(<<HeadOf(i[t] + 1), BodyOf(i[t] + 1)>>, inbuf[k], net[k].up,
                      Append(net[k].down, BodyOf(i[t] + 1)), rbuf[t])
      BY <1>1, <1>3, <2>1, <3>1, BodyIsOwn, Zenon
    <3> QED
      BY <3>2, Zenon
  <2>2. \A v \in Workers : v # w => ~(hand[v].pc = "body" /\ hand[v].conn = k)
    BY <1>0 DEF Owned, Busy
  \* What is left for each of the two ways to end.
  <2>3. ASSUME NEW sv, Becomes(k, net[k].up, Append(net[k].down, x), net[k].client, sv,
                               net[k].broken),
               sv \in {"open", "closed"},
               sv = "closed" => (\A t \in Threads : sock[t] = k =>
                                     (keep_alive => ~g_keep_alive)),
               hand' \in [Workers -> Hands], hand'[w].pc # "body",
               \A v \in Workers : v # w => hand'[v] = hand[v],
               Owned', HandsClosing'
        PROVE  IndInv'
    <3>1. HarnessType'
      BY <1>0, <2>3 DEF HarnessType, Becomes
    <3>2. /\ Writing(k)' = {}
          /\ \A j \in Conns : j # k => Writing(j)' = Writing(j)
      BY <2>2, <2>3, WritesAlone, WritesElsewhere
    <3>3. ASSUME NEW t \in Threads, sock[t] = k PROVE StreamOf(t)' /\ ClosedOf(t)'
      <4>1. /\ at[t] = "read"
            /\ Answered(<<HeadOf(i[t] + 1), BodyOf(i[t] + 1)>>, inbuf[k], net[k].up,
                        Append(net[k].down, x), rbuf[t])
        BY <2>1, <3>3
      <4>2. InStep("read", i[t] + 1, Bye, inbuf[k], net[k].up, Append(net[k].down, x),
                   rbuf[t], {})
        BY <4>1 DEF InStep
      <4>3. Bye' = Bye
        BY <1>0 DEF Bye
      <4>4. StreamOf(t)'
        BY <1>0, <1>3, <2>3, <3>2, <3>3, <4>1, <4>2, <4>3 DEF StreamOf, Becomes
      <4>5. rbuf[t] \o Append(net[k].down, x) = <<HeadOf(i[t] + 1), BodyOf(i[t] + 1)>>
        BY <4>1 DEF Answered
      <4>6. ClosedOf(t)'
        BY <1>0, <2>3, <3>3, <4>1, <4>5 DEF ClosedOf, Becomes
      <4> QED
        BY <4>4, <4>6
    <3>4. /\ net[k].server # "none" /\ net'[k].server # "none"
          /\ net'[k].client = net[k].client /\ net'[k].broken = net[k].broken
          /\ \A j \in Conns : j # k => net'[j] = net[j]
      BY <1>1, <2>3 DEF Becomes
    <3> QED
      BY <1>0, <1>1, <2>3, <3>1, <3>2, <3>3, <3>4, OriginStep
  <2>4. CASE g_keep_alive /\ ~hand[w].wants_close
    <3>0. /\ net' = [net EXCEPT ![k].down = Append(net[k].down, x)]
          /\ hand' = [hand EXCEPT ![w].pc = "parse"]
      BY <1>3, <2>4, Zenon DEF Body, BodyOf
    <3>1. Becomes(k, net[k].up, Append(net[k].down, x), net[k].client, net[k].server,
                  net[k].broken)
      BY <1>0, <1>1, <2>0, <3>0, LinkDown, Zenon DEF HarnessType
    <3>2. HandBecomes(w, "parse", k, hand[w].peer_closed, hand[w].wants_close, hand[w].path)
      BY <1>0, <3>0, HandAgain, Zenon
    <3>3. /\ hand' \in [Workers -> Hands] /\ hand'[w].pc = "parse" /\ hand'[w].conn = k
          /\ hand'[w].peer_closed = hand[w].peer_closed
          /\ hand'[w].wants_close = hand[w].wants_close
          /\ \A v \in Workers : v # w => hand'[v] = hand[v]
      BY <3>2 DEF HandBecomes
    <3>4. Owned'
      BY <1>0, <3>1, <3>3, HandKept DEF Becomes
    <3>5. HandsClosing'
      <4>1. \A v \in Workers : (Busy(v))' => /\ Busy(v) /\ hand'[v].conn = hand[v].conn
                                             /\ hand'[v].peer_closed = hand[v].peer_closed
                                             /\ hand'[v].wants_close = hand[v].wants_close
        BY <1>0, <3>3, BusyAfter
      <4>2. \A v \in Workers : Busy(v) => net'[hand[v].conn].client = net[hand[v].conn].client
        BY <1>0, <3>1 DEF Owned, Becomes
      <4> QED
        BY <1>0, <4>1, <4>2 DEF HandsClosing
    <3> QED
      BY <1>1, <2>3, <3>1, <3>3, <3>4, <3>5
  <2>5. CASE ~(g_keep_alive /\ ~hand[w].wants_close)
    <3>0. /\ net' = [[net EXCEPT ![k].down = Append(net[k].down, x)]
                         EXCEPT ![k].server = "closed"]
          /\ hand' = [hand EXCEPT ![w] = Free]
      BY <1>3, <2>5, Zenon DEF Body, BodyOf
    <3>1. Becomes(k, net[k].up, Append(net[k].down, x), net[k].client, "closed",
                  net[k].broken)
      BY <1>0, <1>1, <2>0, <3>0, LinkEnded, Zenon DEF HarnessType
    <3>2. HandBecomes(w, "pop", None, FALSE, FALSE, None)
      BY <1>0, <3>0, HandFree, Zenon
    <3>3. /\ hand' \in [Workers -> Hands] /\ hand'[w].pc = "pop"
          /\ \A v \in Workers : v # w => hand'[v] = hand[v]
      BY <3>2 DEF HandBecomes
    <3>4. Owned'
      BY <1>0, <3>1, <3>3, HandLeft, SMTT(60) DEF Becomes
    <3>5. HandsClosing'
      BY <1>0, <3>1, <3>3, HandsLeft DEF Becomes
    <3>6. \A t \in Threads : sock[t] = k => (keep_alive => ~g_keep_alive)
      BY <1>0, <2>5, Zenon DEF HandsClosing
    <3> QED
      BY <2>3, <3>1, <3>3, <3>4, <3>5, <3>6
  <2> QED
    BY <2>4, <2>5
<1> QED
  BY <1>2, <1>3

------------------------------------------------------------------------------
(* The theorems                                                            *)

LEMMA InitKeeps ==
    ASSUME Init
    PROVE  IndInv
<1>0. /\ net = [k \in Conns |-> Unused] /\ faults = 0
      /\ g_keep_alive \in BOOLEAN /\ inbuf = [k \in Conns |-> <<>>] /\ armed = {}
      /\ tasks = <<>> /\ hand = [w \in Workers |-> Free]
      /\ keep_alive \in BOOLEAN
      /\ at = [t \in Threads |-> IF Requests = 0 THEN "end" ELSE "start"]
      /\ i = [t \in Threads |-> 0]
      /\ sock = [t \in Threads |-> NoSock]
      /\ rbuf = [t \in Threads |-> <<>>] /\ last = [t \in Threads |-> <<>>]
      /\ ok = 0 /\ failed = 0
  BY DEF Init, NetInit, OriginInit, GenInit
<1>1. HarnessType
  <2>1. Unused \in Links /\ Free \in Hands
    BY DEF Unused, Links, Free, Hands
  <2> QED
    BY <1>0, <2>1 DEF HarnessType
<1>2. Owned
  <2>1. \A w \in Workers : ~Busy(w)
    BY <1>0 DEF Busy, Free
  <2>2. \A n \in 1..Len(tasks) : FALSE
    BY <1>0
  <2> QED
    BY <1>0, <2>1, <2>2 DEF Owned
<1>3. Placed
  <2> SUFFICES ASSUME NEW t \in Threads PROVE PlacedOf(t)
    BY DEF Placed
  <2>1. /\ i[t] = 0 /\ sock[t] = NoSock
        /\ at[t] = IF Requests = 0 THEN "end" ELSE "start"
    BY <1>0
  <2>2. \A n \in 1..Requests : net[<<t, n>>] = Unused /\ inbuf[<<t, n>>] = <<>>
    BY <1>0, ConnParts
  <2> QED
    BY <2>1, <2>2, LoadAssumption DEF PlacedOf
<1>4. Streams
  BY <1>0 DEF Streams
<1>5. Closing
  BY <1>0 DEF Closing, HandsClosing, ClosedOf, Busy, Free
<1>6. Counted
  <2>1. Finished = {} /\ Exposed = {}
    <3>1. \A k \in Conns : ~(k[2] <= i[k[1]])
      BY <1>0, ConnParts
    <3> QED
      BY <1>0, <3>1 DEF Finished, Exposed
  <2> QED
    BY <1>0, <2>1, FS_EmptySet DEF Counted
<1>7. OwnResponse
  BY <1>0 DEF OwnResponse
<1> QED
  BY <1>1, <1>2, <1>3, <1>4, <1>5, <1>6, <1>7 DEF IndInv

LEMMA StutterKeeps ==
    ASSUME IndInv, UNCHANGED vars
    PROVE  IndInv'
<1>1. /\ UNCHANGED <<net, faults, g_keep_alive, inbuf, armed, tasks, hand>>
      /\ UNCHANGED <<keep_alive, at, i, sock, rbuf, last, ok, failed>>
  BY DEF vars, origin, generator
<1>2. HarnessType' /\ Owned' /\ Placed'
  BY <1>1 DEF IndInv, HarnessType, Owned, Busy, Placed, PlacedOf
<1>3. Streams'
  <2>1. \A k : Writing(k)' = Writing(k)
    BY <1>1 DEF Writing
  <2> QED
    BY <1>1, <2>1 DEF IndInv, Streams, StreamOf, Bye
<1>4. Closing'
  BY <1>1 DEF IndInv, Closing, HandsClosing, ClosedOf, Busy
<1>5. Counted' /\ OwnResponse'
  BY <1>1 DEF IndInv, Counted, Finished, Exposed, OwnResponse
<1> QED
  BY <1>2, <1>3, <1>4, <1>5 DEF IndInv

LEMMA NextKeeps ==
    ASSUME IndInv, [Next]_vars
    PROVE  IndInv'
<1>1. ASSUME NEW t \in Threads, worker(t), UNCHANGED origin PROVE IndInv'
  BY <1>1, ConnectKeeps, ConnectFailsKeeps, SendKeeps, SendFailsKeeps, RecvSomeKeeps,
     RecvFailsKeeps, OkKeeps, EndKeeps DEF worker
<1>2. ASSUME Origin, UNCHANGED generator PROVE IndInv'
  BY <1>2, AcceptKeeps, DispatchKeeps DEF Origin
<1>3. ASSUME NEW w \in Workers, handle(w), UNCHANGED generator PROVE IndInv'
  BY <1>3, RecvKeeps, Head200Keeps, BodyKeeps, RearmKeeps DEF handle
<1>4. ASSUME NEW k \in Conns, Break(k), UNCHANGED <<origin, generator>> PROVE IndInv'
  BY <1>4, BreakKeeps
<1>5. CASE UNCHANGED vars
  BY <1>5, StutterKeeps
<1> QED
  BY <1>1, <1>2, <1>3, <1>4, <1>5 DEF Next

\* The inductive invariant of the load generator and the test origin together.
THEOREM Invariance == SafetySpec => []IndInv
<1>1. Init => IndInv
  BY InitKeeps
<1>2. IndInv /\ [Next]_vars => IndInv'
  BY NextKeeps
<1> QED
  BY <1>1, <1>2, PTL DEF SafetySpec

\* Whatever read_one_response() counts as ok is the whole answer to the request
\* its thread has just sent, on a connection that is reused or not, with resets
\* at any point, for any number of threads, requests and origin workers.
THEOREM ResponseIsOwn == SafetySpec => []OwnResponse
<1>1. IndInv => OwnResponse
  BY DEF IndInv
<1> QED
  BY <1>1, Invariance, PTL

\* The benchmark's figures: when all threads have ended, ok and failed add up to
\* the requests that were asked for, and at any time the failures are no more than
\* the faults of the network and, with -k against an origin started with --close,
\* one for each ok: worker() does not look at "Connection: close".
THEOREM EveryRequestCounted == SafetySpec => []Tallied
<1>1. ASSUME IndInv PROVE Tallied
  <2>0. HarnessType /\ Placed /\ Counted
    BY <1>1 DEF IndInv
  <2>1. ASSUME AllDone PROVE ok + failed = Requests * Cardinality(Threads)
    <3>1. \A t \in Threads : i[t] = Requests
      BY <2>0, <2>1 DEF AllDone, Placed, PlacedOf
    <3>2. Finished = Conns
      BY <3>1, ConnParts, LoadAssumption DEF Finished
    <3>3. IsFiniteSet(1..Requests) /\ Cardinality(1..Requests) = Requests
      BY LoadAssumption, FS_Interval
    <3>4. Cardinality(Conns) = Cardinality(Threads) * Requests
      BY <3>3, LoadAssumption, FS_Product DEF Conns
    <3>5. Cardinality(Threads) \in Nat
      BY LoadAssumption, FS_CardinalityType
    <3> QED
      BY <2>0, <3>2, <3>4, <3>5, LoadAssumption DEF Counted
  <2>2. failed <= faults + (IF keep_alive /\ ~g_keep_alive THEN ok ELSE 0)
    <3>1. Cardinality(Exposed) \in Nat
      <4>1. Exposed \subseteq Threads
        BY DEF Exposed
      <4> QED
        BY <4>1, LoadAssumption, FS_Subset, FS_CardinalityType
    <3> QED
      BY <2>0, <3>1 DEF Counted, HarnessType
  <2> QED
    BY <2>1, <2>2 DEF Tallied
<1> QED
  BY <1>1, Invariance, PTL

\* Two workers of the origin never have the same connection.
OneHandler ==
    \A v, w \in Workers : hand[v].pc # "pop" /\ hand[w].pc # "pop" /\
                          hand[v].conn = hand[w].conn => v = w

\* EPOLLONESHOT in the origin: a connection is with one worker of the pool at
\* most, so handle() needs no lock on Conn::inbuf.
THEOREM OneHandlerAtATime == SafetySpec => []OneHandler
<1>1. IndInv => OneHandler
  BY DEF IndInv, Owned, Busy, OneHandler
<1> QED
  BY <1>1, Invariance, PTL
==============================================================================
