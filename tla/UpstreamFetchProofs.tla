------------------------- MODULE UpstreamFetchProofs -------------------------
(***************************************************************************)
(* Proofs about UpstreamFetch and ResponseFraming, for any responses and   *)
(* any limits: what response_complete has found complete stays complete as *)
(* more arrives; a fetch that the framing ends has the whole response, and *)
(* none waits for one it has; and every way out of fetch_upstream releases *)
(* the socket and the address list.                                        *)
(***************************************************************************)
EXTENDS UpstreamFetch, WellFoundedInduction, TLAPS

------------------------------------------------------------------------------
(* The inductive invariant.                                                *)

\* The framing of m says that it is complete once n symbols are in.
Complete(m, n) == CompleteAt[m][n - m.header]

FetchType ==
    /\ msg \in Responses
    /\ sent \in Nat /\ buf \in Nat /\ buf <= sent /\ sent <= Total
    /\ stream \in {"open", "closed", "reset"}
    /\ pc \in {"resolve", "socket", "connect", "send", "recv", "done"}
    /\ have_headers \in BOOLEAN

\* What is allocated where, and that nothing arrives before the request is out.
Holding ==
    /\ ai = IF pc \in {"socket", "connect"} THEN TRUE ELSE FALSE
    /\ sock = IF pc \in {"connect", "send", "recv"} THEN TRUE ELSE FALSE
    /\ pc \notin {"recv", "done"} => sent = 0 /\ have_headers = FALSE
    /\ pc # "done" => result = "none"

\* A header block that is in has been parsed, and the loop has gone on past it
\* only within the limit and short of the end of the framing.
Reading ==
    /\ have_headers => buf >= msg.header /\ msg.head.status_ok
    /\ pc = "recv" /\ buf >= msg.header =>
          have_headers /\ buf <= MaxBody /\ ~Complete(msg, buf)

\* Why the fetch ended.
Ending ==
    /\ result = "ok" =>
          /\ have_headers /\ buf <= MaxBody
          /\ stream = "open" => Complete(msg, buf)
    /\ result = "timeout" => (buf >= msg.header => have_headers /\ ~Complete(msg, buf))

IndInv == FetchType /\ Holding /\ Reading /\ Ending

LEMMA TotalNat ==
    \A m \in Responses : m.header \in Nat /\ Len(m.body) \in Nat
  BY ResponsesAssumption

LEMMA InitInv == Init => IndInv
<1> SUFFICES ASSUME Init PROVE IndInv
  OBVIOUS
<1>1. FetchType
  <2>1. msg \in Responses /\ sent = 0 /\ buf = 0 /\ stream = "open" /\ pc = "resolve"
    BY DEF Init
  <2>2. msg.header \in Nat /\ Len(msg.body) \in Nat
    BY <2>1, TotalNat
  <2>3. have_headers \in BOOLEAN
    BY DEF Init
  <2> QED
    BY <2>1, <2>2, <2>3 DEF FetchType, Total
<1>2. Holding /\ Reading /\ Ending
  <2>1. msg.header \in Nat \ {0}
    BY ResponsesAssumption DEF Init
  <2>2. have_headers = FALSE /\ buf = 0 /\ result = "none" /\ sent = 0 /\ pc = "resolve"
        /\ ai = FALSE /\ sock = FALSE
    BY DEF Init
  <2>3. Holding
    BY <2>2 DEF Holding
  <2>4. ~ (buf >= msg.header)
    BY <2>1, <2>2
  <2> QED
    BY <2>2, <2>3, <2>4 DEF Reading, Ending
<1> QED
  BY <1>1, <1>2 DEF IndInv

LEMMA BeforeInv ==
    IndInv /\ (Resolve \/ Socket \/ Connect \/ SendRequest) => IndInv'
<1> SUFFICES ASSUME IndInv, Resolve \/ Socket \/ Connect \/ SendRequest PROVE IndInv'
  OBVIOUS
<1>1. msg.header \in Nat \ {0} /\ Len(msg.body) \in Nat
  BY ResponsesAssumption DEF IndInv, FetchType
<1>2. UNCHANGED <<msg, sent, stream, buf, have_headers>>
  BY DEF Resolve, Socket, Connect, SendRequest
<1>3. /\ pc \in {"resolve", "socket", "connect", "send"}
      /\ pc' \in {"socket", "connect", "send", "recv", "done"}
      /\ result' \notin {"ok", "timeout"}
  BY DEF IndInv, Holding, Resolve, Socket, Connect, SendRequest, Return
<1>4. sent = 0 /\ buf = 0 /\ have_headers = FALSE
  BY <1>3 DEF IndInv, FetchType, Holding
<1>5. FetchType'
  BY <1>2, <1>3 DEF IndInv, FetchType, Total
<1>6. Holding'
  BY <1>2, <1>4 DEF IndInv, Holding, Resolve, Socket, Connect, SendRequest, Return
<1>7. Reading' /\ Ending'
  BY <1>1, <1>2, <1>3, <1>4 DEF Reading, Ending
<1> QED
  BY <1>5, <1>6, <1>7 DEF IndInv

LEMMA RecvDataInv == IndInv /\ RecvData => IndInv'
<1> SUFFICES ASSUME IndInv, RecvData PROVE IndInv'
  OBVIOUS
<1>1. msg.header \in Nat \ {0} /\ Len(msg.body) \in Nat /\ MaxHeader \in Nat /\ MaxBody \in Nat
  BY ResponsesAssumption, LimitAssumption DEF IndInv, FetchType
<1>2. PICK b \in (buf + 1)..sent :
        /\ buf' = b
        /\ have_headers' = (have_headers \/ (b >= msg.header /\ msg.head.status_ok))
        /\ IF b >= msg.header /\ ~msg.head.status_ok THEN Return("malformed", ai, FALSE)
           ELSE IF b < msg.header
           THEN IF b > MaxHeader THEN Return("headers too large", ai, FALSE)
                ELSE UNCHANGED <<pc, result, ai, sock>>
           ELSE IF b > MaxBody THEN Return("body too large", ai, FALSE)
           ELSE IF Complete(msg, b) THEN Return("ok", ai, FALSE)
           ELSE UNCHANGED <<pc, result, ai, sock>>
  BY DEF RecvData, ResponseComplete, Complete
<1>3. pc = "recv" /\ UNCHANGED <<msg, sent, stream>>
  BY DEF RecvData
<1>4. /\ buf \in Nat /\ sent \in Nat /\ sent <= Total /\ msg \in Responses
      /\ stream \in {"open", "closed", "reset"} /\ have_headers \in BOOLEAN
      /\ result = "none" /\ ai = FALSE /\ sock = TRUE
  BY <1>3 DEF IndInv, FetchType, Holding
<1>5. b \in Nat /\ b > buf /\ b <= sent
  BY <1>4
<1>6. /\ msg.head.status_ok \in BOOLEAN
      /\ have_headers => buf >= msg.header /\ msg.head.status_ok
  BY <1>4, ResponsesAssumption DEF IndInv, Reading
<1>7. \/ /\ b >= msg.header /\ ~msg.head.status_ok /\ Return("malformed", ai, FALSE)
      \/ b < msg.header /\ Return("headers too large", ai, FALSE)
      \/ b < msg.header /\ UNCHANGED <<pc, result, ai, sock>>
      \/ b >= msg.header /\ msg.head.status_ok /\ Return("body too large", ai, FALSE)
      \/ /\ b >= msg.header /\ msg.head.status_ok /\ b <= MaxBody /\ Complete(msg, b)
         /\ Return("ok", ai, FALSE)
      \/ /\ b >= msg.header /\ msg.head.status_ok /\ b <= MaxBody /\ ~Complete(msg, b)
         /\ UNCHANGED <<pc, result, ai, sock>>
  <2> DEFINE h == msg.header
             good == msg.head.status_ok
             Out(r) == Return(r, ai, FALSE)
             In == UNCHANGED <<pc, result, ai, sock>>
  <2>1. IF b >= h /\ ~good THEN Out("malformed")
        ELSE IF b < h THEN IF b > MaxHeader THEN Out("headers too large") ELSE In
        ELSE IF b > MaxBody THEN Out("body too large")
        ELSE IF Complete(msg, b) THEN Out("ok")
        ELSE In
    BY <1>2
  <2>2. h \in Nat /\ b \in Nat
    BY <1>1, <1>5
  <2> HIDE DEF h, good, Out, In
  <2>3. \/ b >= h /\ ~good /\ Out("malformed")
        \/ b < h /\ Out("headers too large")
        \/ b < h /\ In
        \/ b >= h /\ good /\ Out("body too large")
        \/ b >= h /\ good /\ b <= MaxBody /\ Complete(msg, b) /\ Out("ok")
        \/ b >= h /\ good /\ b <= MaxBody /\ ~Complete(msg, b) /\ In
    <3>1. CASE b < h
      BY <2>1, <2>2, <3>1
    <3>2. CASE b >= h
      <4>1. ~ (b < h) /\ (b > MaxBody \/ b <= MaxBody)
        BY <1>1, <2>2, <3>2
      <4> QED
        BY <2>1, <3>2, <4>1
    <3>3. b < h \/ b >= h
      BY <2>2
    <3> QED
      BY <3>1, <3>2, <3>3
  <2> QED
    BY <2>3 DEF h, good, Out, In
<1>8. /\ pc' \in {"recv", "done"} /\ ai' = FALSE
      /\ sock' = IF pc' = "recv" THEN TRUE ELSE FALSE
      /\ pc' # "done" => result' = "none"
      /\ result' # "timeout"
  BY <1>3, <1>4, <1>7 DEF Return
<1>9. FetchType'
  BY <1>2, <1>3, <1>4, <1>5, <1>8 DEF FetchType, Total
<1>10. Holding'
  BY <1>8 DEF Holding
<1>11. Reading'
  <2>1. have_headers' => b >= msg.header /\ msg.head.status_ok
    <3>1. have_headers' => have_headers \/ (b >= msg.header /\ msg.head.status_ok)
      BY <1>2
    <3>2. have_headers => b >= msg.header /\ msg.head.status_ok
      BY <1>1, <1>4, <1>5, <1>6
    <3> QED
      BY <3>1, <3>2
  <2>2. pc' = "recv" /\ b >= msg.header =>
           msg.head.status_ok /\ b <= MaxBody /\ ~Complete(msg, b)
    BY <1>1, <1>5, <1>7 DEF Return
  <2>3. have_headers' = (have_headers \/ (b >= msg.header /\ msg.head.status_ok))
    BY <1>2
  <2> QED
    BY <1>2, <1>3, <2>1, <2>2, <2>3 DEF Reading
<1>12. Ending'
  <2>1. result' = "ok" =>
           b >= msg.header /\ msg.head.status_ok /\ b <= MaxBody /\ Complete(msg, b)
    BY <1>4, <1>7 DEF Return
  <2> QED
    BY <1>2, <1>3, <1>8, <2>1 DEF Ending
<1> QED
  BY <1>9, <1>10, <1>11, <1>12 DEF IndInv

\* The ways out of the loop that no data brings.
LEMMA RecvOutInv == IndInv /\ (RecvEnd \/ RecvReset \/ RecvTimeout) => IndInv'
<1> SUFFICES ASSUME IndInv, RecvEnd \/ RecvReset \/ RecvTimeout PROVE IndInv'
  OBVIOUS
<1>1. pc = "recv" /\ UNCHANGED <<msg, sent, stream, buf, have_headers>>
  BY DEF RecvEnd, RecvReset, RecvTimeout
<1>2. pc' = "done" /\ ai' = ai /\ sock' = FALSE
  BY DEF RecvEnd, RecvReset, RecvTimeout, Return
<1>3. ai = FALSE /\ msg \in Responses /\ buf \in Nat /\ have_headers \in BOOLEAN
  BY <1>1 DEF IndInv, Holding, FetchType
<1>4. /\ result' = "ok" => have_headers /\ stream = "closed"
      /\ result' = "timeout" => stream = "open"
  BY DEF RecvEnd, RecvReset, RecvTimeout, Return
<1>5. FetchType' /\ Holding'
  BY <1>1, <1>2, <1>3 DEF IndInv, FetchType, Holding, Total
<1>6. Reading'
  BY <1>1, <1>2 DEF IndInv, Reading
<1>7. Ending'
  BY <1>1, <1>4 DEF IndInv, Reading, Ending
<1> QED
  BY <1>5, <1>6, <1>7 DEF IndInv

LEMMA OriginInv == IndInv /\ (OriginSend \/ OriginEnd) => IndInv'
<1> SUFFICES ASSUME IndInv, OriginSend \/ OriginEnd PROVE IndInv'
  OBVIOUS
<1>1. /\ pc = "recv" /\ UNCHANGED <<msg, pc, ai, sock, buf, have_headers, result>>
      /\ stream' \in {"open", "closed", "reset"}
      /\ sent' = sent \/ (sent' = sent + 1 /\ sent < Total)
  BY DEF IndInv, FetchType, OriginSend, OriginEnd
<1>2. msg.header \in Nat /\ Len(msg.body) \in Nat
  BY TotalNat DEF IndInv, FetchType
<1>3. FetchType'
  BY <1>1, <1>2 DEF IndInv, FetchType, Total
<1>4. Holding' /\ Reading'
  BY <1>1 DEF IndInv, Holding, Reading
<1>5. Ending'
  BY <1>1 DEF IndInv, Holding, Ending
<1> QED
  BY <1>3, <1>4, <1>5 DEF IndInv

LEMMA NextInv == IndInv /\ [Next]_vars => IndInv'
<1> SUFFICES ASSUME IndInv, [Next]_vars PROVE IndInv'
  OBVIOUS
<1>1. CASE UNCHANGED vars
  BY <1>1 DEF vars, IndInv, FetchType, Holding, Reading, Ending, Total
<1>2. CASE Next
  <2>1. CASE Done
    BY <1>1, <2>1 DEF Done
  <2> QED
    BY <1>2, <2>1, BeforeInv, RecvDataInv, RecvOutInv, OriginInv DEF Next, Fetch
<1> QED
  BY <1>1, <1>2

------------------------------------------------------------------------------
(* Least elements, and induction over an initial part of the naturals.     *)

LEMMA LeastNatural ==
    ASSUME NEW S \in SUBSET Nat, S # {}
    PROVE  \E m \in S : \A n \in S : m <= n
<1>1. PICK m \in S : \A n \in S : <<n, m>> \notin OpToRel(<, Nat)
  BY NatLessThanWellFounded, WFMin
<1>2. \A n \in S : ~ (n < m)
  BY <1>1 DEF OpToRel
<1> QED
  BY <1>2

LEMMA MinIs ==
    ASSUME NEW S \in SUBSET Nat, S # {}
    PROVE  Min(S) \in S /\ \A n \in S : Min(S) <= n
<1>1. \E m \in S : \A n \in S : m <= n
  BY LeastNatural
<1> QED
  BY <1>1 DEF Min

LEMMA MinUnique ==
    ASSUME NEW S \in SUBSET Nat, NEW m \in S, \A n \in S : m <= n
    PROVE  Min(S) = m
<1> DEFINE k == Min(S)
<1>1. k \in S /\ k <= m /\ m <= k
  BY MinIs
<1> HIDE DEF k
<1>2. k \in Nat /\ m \in Nat
  BY <1>1
<1>3. k = m
  BY <1>1, <1>2
<1> QED
  BY <1>3 DEF k

LEMMA UpTo ==
    ASSUME NEW N \in Nat, NEW S, 0 \in S, \A n \in 0..N : n \in S /\ n < N => n + 1 \in S
    PROVE  0..N \subseteq S
<1> DEFINE Bad == {n \in 0..N : n \notin S}
<1> SUFFICES ASSUME Bad # {} PROVE FALSE
  OBVIOUS
<1>1. PICK m \in Bad : \A n \in Bad : m <= n
  <2>1. Bad \in SUBSET Nat
    OBVIOUS
  <2> QED
    BY <2>1, LeastNatural
<1>2. m \in 0..N /\ m \notin S /\ m # 0
  OBVIOUS
<1>3. m - 1 \in 0..N /\ m - 1 < N /\ (m - 1) + 1 = m /\ m - 1 \notin Bad
  BY <1>1, <1>2
<1> QED
  BY <1>2, <1>3

------------------------------------------------------------------------------
(* The size field of a chunk.                                              *)

LEMMA DigitIsInt == ASSUME NEW size \in Int, NEW c PROVE AddDigit(size, c) \in Int
<1>1. \A d \in DOMAIN Hex : Hex[d] \in Int
  BY DEF Hex
<1> DEFINE base == IF size = NoDigit THEN 0 ELSE size
           n == 16 * base + Hex[c]
<1>2. AddDigit(size, c) = IF size = Malformed \/ c \notin DOMAIN Hex \cup {"SP"} THEN Malformed
                          ELSE IF c = "SP" THEN size
                          ELSE IF n > MaxChunk THEN Malformed ELSE n
  BY DEF AddDigit
<1>3. base \in Int
  OBVIOUS
<1>4. c \in DOMAIN Hex => n \in Int
  <2> HIDE DEF base
  <2> QED
    BY <1>1, <1>3
<1>5. Malformed \in Int
  BY DEF Malformed
<1> HIDE DEF n
<1>6. c \notin DOMAIN Hex \cup {"SP"} \/ c = "SP" \/ c \in DOMAIN Hex
  OBVIOUS
<1> QED
  BY <1>2, <1>4, <1>5, <1>6

\* g is Sizes(raw, pos, pos + m).
SizesTo(g, raw, pos, m) ==
    g = [i \in pos..(pos + m) |->
            IF i = pos THEN NoDigit ELSE AddDigit(g[i - 1], raw[i - 1])]

LEMMA SizesExtend ==
    ASSUME NEW raw, NEW pos \in Nat, NEW m \in Nat, \E g : SizesTo(g, raw, pos, m)
    PROVE  \E h : SizesTo(h, raw, pos, m + 1)
<1>1. PICK g : SizesTo(g, raw, pos, m)
  OBVIOUS
<1> DEFINE k == pos + m + 1
           h == [i \in pos..k |-> IF i = k THEN AddDigit(g[k - 1], raw[k - 1]) ELSE g[i]]
<1>2. \A i \in pos..(pos + m) :
          g[i] = IF i = pos THEN NoDigit ELSE AddDigit(g[i - 1], raw[i - 1])
  BY <1>1 DEF SizesTo
<1>3. ASSUME NEW i \in pos..k
      PROVE  h[i] = IF i = pos THEN NoDigit ELSE AddDigit(h[i - 1], raw[i - 1])
  <2>1. CASE i = k
    BY <2>1
  <2>2. CASE i # k
    BY <1>2, <2>2
  <2> QED
    BY <2>1, <2>2
<1>4. h = [i \in pos..k |-> h[i]] /\ k = pos + (m + 1)
  OBVIOUS
<1> HIDE DEF h, k
<1>5. [i \in pos..k |-> h[i]] =
          [i \in pos..k |-> IF i = pos THEN NoDigit ELSE AddDigit(h[i - 1], raw[i - 1])]
  BY <1>3
<1>6. SizesTo(h, raw, pos, m + 1)
  BY <1>4, <1>5 DEF SizesTo
<1> QED
  BY <1>6

LEMMA SizesDefined ==
    ASSUME NEW raw, NEW pos \in Nat, NEW stop \in Nat, pos <= stop
    PROVE  Sizes(raw, pos, stop) = [i \in pos..stop |->
              IF i = pos THEN NoDigit
              ELSE AddDigit(Sizes(raw, pos, stop)[i - 1], raw[i - 1])]
<1> DEFINE N == stop - pos
           S == {m \in Nat : \E g : SizesTo(g, raw, pos, m)}
<1>1. N \in Nat /\ pos + N = stop
  OBVIOUS
<1>2. 0 \in S
  <2>1. SizesTo([i \in pos..(pos + 0) |-> NoDigit], raw, pos, 0)
    BY DEF SizesTo
  <2> QED
    BY <2>1
<1>3. ASSUME NEW m \in Nat, m \in S PROVE m + 1 \in S
  BY <1>3, SizesExtend
<1>4. N \in S
  <2> HIDE DEF N, S
  <2>1. 0..N \subseteq S
    BY <1>1, <1>2, <1>3, UpTo
  <2> QED
    BY <1>1, <2>1
<1>5. \E g : SizesTo(g, raw, pos, N)
  BY <1>4
<1>6. \E g : g = [i \in pos..stop |->
                    IF i = pos THEN NoDigit ELSE AddDigit(g[i - 1], raw[i - 1])]
  <2> HIDE DEF N
  <2> QED
    BY <1>1, <1>5 DEF SizesTo
<1> QED
  BY <1>6 DEF Sizes

\* The size depends on the symbols before stop only.
LEMMA SizesAgree ==
    ASSUME NEW raw, NEW p, NEW pos \in Nat, NEW stop \in Nat, pos <= stop,
           \A i \in pos..(stop - 1) : p[i] = raw[i]
    PROVE  Sizes(raw, pos, stop)[stop] \in Int
           /\ Sizes(p, pos, stop)[stop] = Sizes(raw, pos, stop)[stop]
<1> DEFINE f == Sizes(raw, pos, stop)
           g == Sizes(p, pos, stop)
           N == stop - pos
           S == {m \in Nat : f[pos + m] \in Int /\ g[pos + m] = f[pos + m]}
<1>1. \A i \in pos..stop :
          f[i] = IF i = pos THEN NoDigit ELSE AddDigit(f[i - 1], raw[i - 1])
  <2>1. f = [i \in pos..stop |-> IF i = pos THEN NoDigit ELSE AddDigit(f[i - 1], raw[i - 1])]
    BY SizesDefined
  <2> HIDE DEF f
  <2> QED
    BY <2>1
<1>2. \A i \in pos..stop :
          g[i] = IF i = pos THEN NoDigit ELSE AddDigit(g[i - 1], p[i - 1])
  <2>1. g = [i \in pos..stop |-> IF i = pos THEN NoDigit ELSE AddDigit(g[i - 1], p[i - 1])]
    BY SizesDefined
  <2> HIDE DEF g
  <2> QED
    BY <2>1
<1> HIDE DEF f, g
<1>3. N \in Nat /\ pos + N = stop
  OBVIOUS
<1>4. 0 \in S
  BY <1>1, <1>2 DEF NoDigit
<1>5. ASSUME NEW m \in 0..N, m \in S, m < N PROVE m + 1 \in S
  <2> DEFINE i == pos + m + 1
  <2>1. i \in pos..stop /\ i # pos /\ i - 1 = pos + m /\ i - 1 \in pos..(stop - 1)
    BY <1>3, <1>5
  <2>2. f[i - 1] \in Int /\ g[i - 1] = f[i - 1] /\ p[i - 1] = raw[i - 1]
    BY <1>5, <2>1
  <2> HIDE DEF i
  <2>3. f[i] = AddDigit(f[i - 1], raw[i - 1]) /\ g[i] = AddDigit(g[i - 1], p[i - 1])
    BY <1>1, <1>2, <2>1
  <2>4. f[i] \in Int /\ g[i] = f[i]
    BY <2>2, <2>3, DigitIsInt
  <2> QED
    BY <1>5, <2>4 DEF i
<1>6. N \in S
  <2> HIDE DEF N, S
  <2>1. 0..N \subseteq S
    BY <1>3, <1>4, <1>5, UpTo
  <2> QED
    BY <1>3, <2>1
<1> QED
  BY <1>3, <1>6 DEF f, g

------------------------------------------------------------------------------
(* The walk along the chunks.                                              *)

\* The line end behind the size field at pos, that size, and the next chunk.
LineOf(raw, pos) == Min(LineEnds(raw, pos))
ChunkOf(raw, pos) == SizeAt(raw, pos, LineOf(raw, pos))
After(raw, pos) == LineOf(raw, pos) + 2 + ChunkOf(raw, pos) + 2

\* One step of the walk, with g for what is found further on.
WalkStep(raw, g, pos) ==
    IF LineEnds(raw, pos) = {} THEN FALSE
    ELSE IF ChunkOf(raw, pos) < 0 THEN FALSE
    ELSE IF ChunkOf(raw, pos) = 0 THEN TrailersEnd(raw, LineOf(raw, pos) + 2)
    ELSE After(raw, pos) <= Len(raw) + 1 /\ g[After(raw, pos)]

\* The size field up to a line end at e, of a body and of one that begins like it.
LEMMA SizeAtAgrees ==
    ASSUME NEW raw, NEW p, NEW pos \in Nat, NEW e \in Nat, pos <= e,
           \A i \in pos..e : p[i] = raw[i]
    PROVE  SizeAt(raw, pos, e) \in Int /\ SizeAt(p, pos, e) = SizeAt(raw, pos, e)
<1> DEFINE S == {i \in pos..e : i = e \/ raw[i] = ";"}
           T == {i \in pos..e : i = e \/ p[i] = ";"}
           stop == Min(S)
<1>1. S = T
  <2>1. \A i \in pos..e : (i = e \/ raw[i] = ";") <=> (i = e \/ p[i] = ";")
    OBVIOUS
  <2> QED
    BY <2>1, Zenon
<1>2. S \in SUBSET Nat /\ S # {} /\ S \subseteq pos..e
  <2>1. e \in S
    OBVIOUS
  <2>2. S \subseteq pos..e
    BY Zenon
  <2>3. pos..e \subseteq Nat
    OBVIOUS
  <2> HIDE DEF S
  <2> QED
    BY <2>1, <2>2, <2>3
<1>3. SizeAt(raw, pos, e) = Sizes(raw, pos, stop)[stop]
      /\ SizeAt(p, pos, e) = Sizes(p, pos, Min(T))[Min(T)]
  BY DEF SizeAt
<1> HIDE DEF S, T
<1>4. stop \in pos..e
  BY <1>2, MinIs
<1>5. SizeAt(p, pos, e) = Sizes(p, pos, stop)[stop]
  BY <1>1, <1>3
<1> HIDE DEF stop
<1>6. stop \in Nat /\ pos <= stop /\ \A i \in pos..(stop - 1) : p[i] = raw[i]
  BY <1>4
<1>7. Sizes(raw, pos, stop)[stop] \in Int
      /\ Sizes(p, pos, stop)[stop] = Sizes(raw, pos, stop)[stop]
  BY <1>6, SizesAgree
<1> QED
  BY <1>3, <1>5, <1>7

LEMMA ChunkFacts ==
    ASSUME NEW raw, Len(raw) \in Nat, NEW pos \in 1..(Len(raw) + 1),
           LineEnds(raw, pos) # {}
    PROVE  /\ LineOf(raw, pos) \in pos..Len(raw)
           /\ LineOf(raw, pos) \in LineEnds(raw, pos)
           /\ \A i \in LineEnds(raw, pos) : LineOf(raw, pos) <= i
           /\ ChunkOf(raw, pos) \in Int
<1>1. LineEnds(raw, pos) \in SUBSET Nat /\ LineEnds(raw, pos) \subseteq pos..Len(raw)
  BY DEF LineEnds
<1>2. LineOf(raw, pos) \in LineEnds(raw, pos)
      /\ \A i \in LineEnds(raw, pos) : LineOf(raw, pos) <= i
  BY <1>1, MinIs DEF LineOf
<1>3. LineOf(raw, pos) \in pos..Len(raw)
  BY <1>1, <1>2
<1>4. LineOf(raw, pos) \in Nat /\ pos \in Nat /\ pos <= LineOf(raw, pos)
  BY <1>3
<1>5. ChunkOf(raw, pos) \in Int
  BY <1>4, SizeAtAgrees DEF ChunkOf
<1> QED
  BY <1>2, <1>3, <1>5

\* A chunk with data lies behind the one before it.
LEMMA Onwards ==
    ASSUME NEW raw, Len(raw) \in Nat, NEW pos \in 1..(Len(raw) + 1),
           LineEnds(raw, pos) # {}, ~(ChunkOf(raw, pos) < 0), ChunkOf(raw, pos) # 0
    PROVE  After(raw, pos) \in Nat /\ After(raw, pos) > pos
<1> DEFINE e == LineOf(raw, pos)
           c == ChunkOf(raw, pos)
<1>1. e \in pos..Len(raw) /\ c \in Int /\ ~(c < 0) /\ c # 0
  BY ChunkFacts
<1>2. After(raw, pos) = e + 2 + c + 2
  BY DEF After
<1> HIDE DEF e, c
<1> QED
  BY <1>1, <1>2

\* g is Walk(raw) on the last m positions.
WalkFrom(g, raw, m) ==
    g = [pos \in (Len(raw) + 1 - m)..(Len(raw) + 1) |-> WalkStep(raw, g, pos)]

LEMMA WalkExtend ==
    ASSUME NEW raw, Len(raw) \in Nat, NEW m \in Nat, m < Len(raw),
           \E g : WalkFrom(g, raw, m)
    PROVE  \E h : WalkFrom(h, raw, m + 1)
<1>1. PICK g : WalkFrom(g, raw, m)
  OBVIOUS
<1> DEFINE N == Len(raw) + 1
           k == N - m - 1
           h == [pos \in k..N |-> IF pos = k THEN WalkStep(raw, g, k) ELSE g[pos]]
<1>2. k \in 1..N /\ k + 1 = N - m /\ k = N - (m + 1) /\ N \in Nat
  OBVIOUS
<1>3. ASSUME NEW pos \in (k + 1)..N
      PROVE  g[pos] = WalkStep(raw, g, pos) /\ h[pos] = g[pos]
  <2>1. g = [q \in (k + 1)..N |-> WalkStep(raw, g, q)]
    <3>1. g = [q \in (Len(raw) + 1 - m)..N |-> WalkStep(raw, g, q)]
      BY <1>1, Zenon DEF WalkFrom
    <3>2. Len(raw) + 1 - m = k + 1
      BY <1>2
    <3> HIDE DEF k, N
    <3> QED
      BY <3>1, <3>2
  <2>2. pos \in k..N /\ pos # k
    BY <1>2
  <2>3. h[pos] = g[pos]
    BY <2>2
  <2> HIDE DEF h, k, N
  <2> QED
    BY <2>1, <2>3, Zenon
<1>4. h[k] = WalkStep(raw, g, k)
  BY <1>2
<1>5. h = [pos \in k..N |-> h[pos]]
  OBVIOUS
<1> HIDE DEF h, k
<1>6. ASSUME NEW pos \in k..N
      PROVE  WalkStep(raw, h, pos) = WalkStep(raw, g, pos)
  <2>1. pos \in 1..(Len(raw) + 1)
    BY <1>2
  <2>2. CASE LineEnds(raw, pos) = {} \/ ChunkOf(raw, pos) < 0 \/ ChunkOf(raw, pos) = 0
    BY <2>2 DEF WalkStep
  <2>3. CASE ~ (LineEnds(raw, pos) = {} \/ ChunkOf(raw, pos) < 0 \/ ChunkOf(raw, pos) = 0)
    <3> DEFINE a == After(raw, pos)
    <3>1. a \in Nat /\ a > pos
      BY <2>1, <2>3, Onwards
    <3>2. WalkStep(raw, h, pos) = (a <= N /\ h[a])
          /\ WalkStep(raw, g, pos) = (a <= N /\ g[a])
      BY <2>3 DEF WalkStep
    <3> HIDE DEF a
    <3>3. CASE a <= N
      <4>1. a \in (k + 1)..N
        BY <1>2, <2>1, <3>1, <3>3
      <4> QED
        BY <1>3, <3>2, <4>1
    <3>4. CASE ~ (a <= N)
      BY <3>2, <3>4
    <3> QED
      BY <3>3, <3>4
  <2> QED
    BY <2>2, <2>3
<1>7. ASSUME NEW pos \in k..N
      PROVE  h[pos] = WalkStep(raw, h, pos)
  <2>1. pos = k \/ pos \in (k + 1)..N
    BY <1>2
  <2> QED
    BY <1>3, <1>4, <1>6, <2>1
<1>8. [pos \in k..N |-> h[pos]] = [pos \in k..N |-> WalkStep(raw, h, pos)]
  BY <1>7
<1>9. WalkFrom(h, raw, m + 1)
  BY <1>2, <1>5, <1>8 DEF WalkFrom
<1> QED
  BY <1>9

LEMMA WalkDefined ==
    ASSUME NEW raw, Len(raw) \in Nat, NEW pos \in 1..(Len(raw) + 1)
    PROVE  Walk(raw)[pos] = WalkStep(raw, Walk(raw), pos)
<1> DEFINE N == Len(raw)
           S == {m \in Nat : \E g : WalkFrom(g, raw, m)}
<1>1. 0 \in S
  <2> DEFINE g == [q \in (N + 1 - 0)..(N + 1) |-> FALSE]
  <2>1. \A q \in (N + 1 - 0)..(N + 1) : LineEnds(raw, q) = {}
    BY DEF LineEnds
  <2>2. \A q \in (N + 1 - 0)..(N + 1) : WalkStep(raw, g, q) = FALSE
    BY <2>1 DEF WalkStep
  <2>3. WalkFrom(g, raw, 0)
    BY <2>2 DEF WalkFrom
  <2> QED
    BY <2>3
<1>2. ASSUME NEW m \in 0..N, m \in S, m < N PROVE m + 1 \in S
  BY <1>2, WalkExtend
<1>3. N \in S
  <2> HIDE DEF S
  <2>1. N \in Nat
    OBVIOUS
  <2> HIDE DEF N
  <2>2. 0..N \subseteq S
    BY <1>1, <1>2, <2>1, UpTo
  <2> QED
    BY <2>1, <2>2
<1>4. \E g : g = [q \in 1..(Len(raw) + 1) |-> WalkStep(raw, g, q)]
  <2>1. Len(raw) + 1 - Len(raw) = 1
    OBVIOUS
  <2>2. PICK g : WalkFrom(g, raw, Len(raw))
    BY <1>3
  <2>3. g = [q \in 1..(Len(raw) + 1) |-> WalkStep(raw, g, q)]
    BY <2>1, <2>2 DEF WalkFrom
  <2> QED
    BY <2>3
<1>5. Walk(raw) = CHOOSE g : g = [q \in 1..(Len(raw) + 1) |-> WalkStep(raw, g, q)]
  BY DEF Walk, WalkStep, After, ChunkOf, LineOf
<1>6. Walk(raw) = [q \in 1..(Len(raw) + 1) |-> WalkStep(raw, Walk(raw), q)]
  BY <1>4, <1>5
<1> QED
  BY <1>6

\* p is the beginning of raw.
Begins(p, raw) ==
    /\ Len(p) \in Nat /\ Len(raw) \in Nat /\ Len(p) <= Len(raw)
    /\ \A i \in 1..Len(p) : p[i] = raw[i]

\* The same line ends, as far as p goes.
LEMMA LineEndsAgree ==
    ASSUME NEW p, NEW raw, Begins(p, raw)
    PROVE  /\ \A i \in Nat \ {0} : LineEndAt(p, i) => LineEndAt(raw, i)
           /\ \A i \in 1..(Len(p) - 1) : LineEndAt(raw, i) => LineEndAt(p, i)
<1>1. \A i \in 1..(Len(p) - 1) : p[i] = raw[i] /\ p[i + 1] = raw[i + 1] /\ i < Len(raw)
  BY DEF Begins
<1>2. \A i \in Nat \ {0} : i < Len(p) => i \in 1..(Len(p) - 1)
  BY DEF Begins
<1>3. \A i \in 1..(Len(p) - 1) : i < Len(p)
  BY DEF Begins
<1> QED
  BY <1>1, <1>2, <1>3 DEF LineEndAt

\* From a position where p has a whole size line, raw has the same chunk.
LEMMA ChunksAgree ==
    ASSUME NEW p, NEW raw, Begins(p, raw), NEW pos \in 1..(Len(p) + 1),
           LineEnds(p, pos) # {}
    PROVE  /\ LineEnds(raw, pos) # {}
           /\ LineOf(raw, pos) = LineOf(p, pos)
           /\ ChunkOf(raw, pos) = ChunkOf(p, pos)
           /\ After(raw, pos) = After(p, pos)
<1> DEFINE e == LineOf(p, pos)
<1>0. Len(p) \in Nat /\ Len(raw) \in Nat /\ Len(p) <= Len(raw)
  BY DEF Begins
<1>1. e \in pos..Len(p) /\ e \in LineEnds(p, pos) /\ \A i \in LineEnds(p, pos) : e <= i
  BY <1>0, ChunkFacts
<1> HIDE DEF e
<1>2. LineEndAt(p, e) /\ e \in Nat \ {0}
  BY <1>0, <1>1 DEF LineEnds
<1>3. e < Len(p)
  BY <1>2 DEF LineEndAt
<1>4. e \in LineEnds(raw, pos)
  <2>1. e \in pos..Len(raw)
    BY <1>0, <1>1
  <2> QED
    BY <1>2, <2>1, LineEndsAgree DEF LineEnds
<1>5. \A i \in LineEnds(raw, pos) : e <= i
  <2> SUFFICES ASSUME NEW i \in LineEnds(raw, pos), ~ (e <= i) PROVE FALSE
    OBVIOUS
  <2>1. i \in pos..Len(raw) /\ LineEndAt(raw, i)
    BY DEF LineEnds
  <2>2. i \in 1..(Len(p) - 1) /\ i \in pos..Len(p)
    BY <1>0, <1>1, <1>3, <2>1
  <2>3. i \in LineEnds(p, pos)
    BY <2>1, <2>2, LineEndsAgree DEF LineEnds
  <2> QED
    BY <1>1, <2>3
<1>6. LineOf(raw, pos) = e
  <2>1. LineEnds(raw, pos) \in SUBSET Nat
    BY <1>0 DEF LineEnds
  <2> QED
    BY <1>4, <1>5, <2>1, MinUnique DEF LineOf
<1>7. ChunkOf(raw, pos) = ChunkOf(p, pos)
  <2>1. pos \in Nat /\ e \in Nat /\ pos <= e
    BY <1>0, <1>1
  <2>2. \A i \in pos..e : p[i] = raw[i]
    <3>1. \A i \in pos..e : i \in 1..Len(p)
      BY <1>0, <1>1
    <3> QED
      BY <3>1 DEF Begins
  <2>3. SizeAt(p, pos, e) = SizeAt(raw, pos, e)
    BY <2>1, <2>2, SizeAtAgrees
  <2> QED
    BY <1>6, <2>3 DEF ChunkOf, e
<1> QED
  BY <1>4, <1>6, <1>7 DEF After, e

LEMMA TrailersStay ==
    ASSUME NEW p, NEW raw, Begins(p, raw), NEW q \in Nat \ {0}, TrailersEnd(p, q)
    PROVE  TrailersEnd(raw, q)
<1>1. CASE LineEndAt(p, q)
  BY <1>1, LineEndsAgree DEF TrailersEnd
<1>2. CASE \E e \in LineEnds(p, q) : LineEndAt(p, e + 2)
  <2>1. PICK e \in LineEnds(p, q) : LineEndAt(p, e + 2)
    BY <1>2
  <2>2. Len(p) \in Nat /\ Len(raw) \in Nat /\ Len(p) <= Len(raw)
    BY DEF Begins
  <2>3. e \in q..Len(p) /\ LineEndAt(p, e)
    BY DEF LineEnds
  <2>4. e \in Nat \ {0} /\ e + 2 \in Nat \ {0} /\ e \in q..Len(raw)
    BY <2>2, <2>3
  <2>5. LineEndAt(raw, e) /\ LineEndAt(raw, e + 2)
    BY <2>1, <2>3, <2>4, LineEndsAgree
  <2>6. e \in LineEnds(raw, q)
    BY <2>4, <2>5 DEF LineEnds
  <2> QED
    BY <2>5, <2>6 DEF TrailersEnd
<1> QED
  BY <1>1, <1>2 DEF TrailersEnd

\* What the walk along p finds complete, the walk along more of it does too.
LEMMA WalkStays ==
    ASSUME NEW p, NEW raw, Begins(p, raw), Walk(p)[1]
    PROVE  Walk(raw)[1]
<1> DEFINE N == Len(p)
           f == Walk(p)
           g == Walk(raw)
           \* Positions from the end of p backwards.
           S == {m \in Nat : \A pos \in (N + 1 - m)..(N + 1) : f[pos] => g[pos]}
<1>0. N \in Nat /\ Len(raw) \in Nat /\ N <= Len(raw)
  BY DEF Begins
<1>1. ASSUME NEW pos \in 1..(N + 1), f[pos],
             \A q \in (pos + 1)..(N + 1) : f[q] => g[q]
      PROVE  g[pos]
  <2>1. f[pos] = WalkStep(p, f, pos) /\ g[pos] = WalkStep(raw, g, pos)
    <3>1. pos \in 1..(Len(raw) + 1)
      BY <1>0
    <3> QED
      BY <1>0, <3>1, WalkDefined
  <2> HIDE DEF f, g
  <2>2. LineEnds(p, pos) # {} /\ ~(ChunkOf(p, pos) < 0)
    BY <1>1, <2>1 DEF WalkStep
  <2>3. /\ LineEnds(raw, pos) # {}
        /\ LineOf(raw, pos) = LineOf(p, pos)
        /\ ChunkOf(raw, pos) = ChunkOf(p, pos)
        /\ After(raw, pos) = After(p, pos)
    BY <2>2, ChunksAgree
  <2>4. CASE ChunkOf(p, pos) = 0
    <3>1. TrailersEnd(p, LineOf(p, pos) + 2)
      BY <1>1, <2>1, <2>2, <2>4 DEF WalkStep
    <3>2. LineOf(p, pos) + 2 \in Nat \ {0}
      <4>1. LineOf(p, pos) \in pos..N
        BY <1>0, <2>2, ChunkFacts
      <4> QED
        BY <1>0, <4>1
    <3>3. TrailersEnd(raw, LineOf(raw, pos) + 2)
      BY <2>3, <3>1, <3>2, TrailersStay
    <3> QED
      BY <2>1, <2>2, <2>3, <2>4, <3>3 DEF WalkStep
  <2>5. CASE ChunkOf(p, pos) # 0
    <3> DEFINE a == After(p, pos)
    <3>1. a <= N + 1 /\ f[a]
      BY <1>1, <2>1, <2>2, <2>5 DEF WalkStep
    <3>2. a \in Nat /\ a > pos
      BY <1>0, <2>2, <2>5, Onwards
    <3> HIDE DEF a
    <3>3. a \in (pos + 1)..(N + 1) /\ a <= Len(raw) + 1
      BY <1>0, <3>1, <3>2
    <3>4. g[a]
      BY <1>1, <3>1, <3>3
    <3>5. After(raw, pos) <= Len(raw) + 1 /\ g[After(raw, pos)]
      BY <2>3, <3>3, <3>4 DEF a
    <3> QED
      BY <2>1, <2>2, <2>3, <2>5, <3>5 DEF WalkStep
  <2> QED
    BY <2>4, <2>5
<1> HIDE DEF f, g
<1>2. 0 \in S
  <2>1. \A pos \in (N + 1 - 0)..(N + 1) : pos \in 1..(N + 1)
    BY <1>0
  <2>2. \A pos \in (N + 1 - 0)..(N + 1) : ~ \E q : q \in (pos + 1)..(N + 1)
    BY <1>0
  <2> QED
    BY <1>1, <2>1, <2>2
<1>3. ASSUME NEW m \in 0..N, m \in S, m < N PROVE m + 1 \in S
  <2> SUFFICES ASSUME NEW pos \in (N + 1 - (m + 1))..(N + 1), f[pos] PROVE g[pos]
    BY <1>0
  <2>1. pos \in 1..(N + 1) /\ \A q \in (pos + 1)..(N + 1) : q \in (N + 1 - m)..(N + 1)
    BY <1>0, <1>3
  <2>2. \A q \in (pos + 1)..(N + 1) : f[q] => g[q]
    BY <1>3, <2>1
  <2> QED
    BY <1>1, <2>1, <2>2
<1>4. N \in S
  <2> HIDE DEF N, S
  <2>1. 0..N \subseteq S
    BY <1>0, <1>2, <1>3, UpTo
  <2> QED
    BY <1>0, <2>1
<1>5. 1 \in (N + 1 - N)..(N + 1)
  BY <1>0
<1>6. f[1] => g[1]
  BY <1>4, <1>5
<1> QED
  BY <1>6 DEF f, g

------------------------------------------------------------------------------
(* The theorems.                                                           *)

LEMMA Beginning ==
    ASSUME NEW body \in Seq(STRING), NEW n \in 0..Len(body)
    PROVE  Begins(SubSeq(body, 1, n), body) /\ Len(SubSeq(body, 1, n)) = n
<1>1. Len(body) \in Nat /\ n \in Nat /\ n <= Len(body)
  OBVIOUS
<1>2. Len(SubSeq(body, 1, n)) = n /\ \A i \in 1..n : SubSeq(body, 1, n)[i] = body[i]
  BY <1>1
<1> QED
  BY <1>1, <1>2 DEF Begins

LEMMA LongerComplete ==
    ASSUME NEW p, NEW raw, Begins(p, raw), NEW head, response_complete(head, p),
           head.te \in BOOLEAN, head.cl \in Int
    PROVE  response_complete(head, raw)
<1>1. Framing(head) \in {"chunked", "length", "close"}
  BY DEF Framing
<1>2. CASE Framing(head) = "chunked"
  <2>1. response_complete(head, p) = Walk(p)[1] /\ response_complete(head, raw) = Walk(raw)[1]
    BY <1>2 DEF response_complete, chunked_body_complete
  <2> QED
    BY <2>1, WalkStays
<1>3. CASE Framing(head) = "length"
  <2>1. response_complete(head, p) = (Len(p) >= head.cl)
        /\ response_complete(head, raw) = (Len(raw) >= head.cl)
    BY <1>3 DEF response_complete
  <2> QED
    BY <2>1 DEF Begins
<1>4. CASE Framing(head) = "close"
  <2>1. response_complete(head, p) = FALSE
    BY <1>4 DEF response_complete
  <2> QED
    BY <2>1
<1> QED
  BY <1>1, <1>2, <1>3, <1>4

\* For every response, chunked bodies of any shape included: once response_complete()
\* has said that a response is complete, it says so of any more of it that arrives.
\* So where the bytes are cut between two calls of recv() cannot make fetch_upstream()
\* miss the end.
THEOREM CompleteStays ==
    \A r \in Responses : \A n, m \in 0..Len(r.body) :
        n <= m /\ CompleteAt[r][n] => CompleteAt[r][m]
<1> SUFFICES ASSUME NEW r \in Responses, NEW n \in 0..Len(r.body), NEW m \in 0..Len(r.body),
                    n <= m, CompleteAt[r][n]
             PROVE  CompleteAt[r][m]
  OBVIOUS
<1> DEFINE p == SubSeq(r.body, 1, n)
           q == SubSeq(r.body, 1, m)
<1>1. r.body \in Seq(STRING) /\ r.head.te \in BOOLEAN /\ r.head.cl \in Int
  BY ResponsesAssumption DEF NoLength
<1>2. Begins(p, r.body) /\ Begins(q, r.body) /\ Len(p) = n /\ Len(q) = m
  BY <1>1, Beginning
<1>3. response_complete(r.head, p)
  BY DEF CompleteAt
<1>4. CompleteAt[r][m] = response_complete(r.head, q)
  BY DEF CompleteAt
<1> HIDE DEF p, q
<1>5. Begins(p, q)
  BY <1>2 DEF Begins
<1>6. response_complete(r.head, q)
  BY <1>1, <1>3, <1>5, LongerComplete
<1> QED
  BY <1>4, <1>6

------------------------------------------------------------------------------
(* The framing of responses whose framing shows is exact.                  *)

\* The numbers that the digits from pos on write, up to each place.
Values(body, pos, stop) ==
    LET value[i \in pos..stop] ==
            IF i = pos THEN 0 ELSE 16 * value[i - 1] + Hex[body[i - 1]]
    IN  value

\* g is Values(raw, pos, pos + m).
ValuesTo(g, raw, pos, m) ==
    g = [i \in pos..(pos + m) |->
            IF i = pos THEN 0 ELSE 16 * g[i - 1] + Hex[raw[i - 1]]]

LEMMA ValuesExtend ==
    ASSUME NEW raw, NEW pos \in Nat, NEW m \in Nat, \E g : ValuesTo(g, raw, pos, m)
    PROVE  \E h : ValuesTo(h, raw, pos, m + 1)
<1>1. PICK g : ValuesTo(g, raw, pos, m)
  OBVIOUS
<1> DEFINE k == pos + m + 1
           h == [i \in pos..k |-> IF i = k THEN 16 * g[k - 1] + Hex[raw[k - 1]] ELSE g[i]]
<1>2. \A i \in pos..(pos + m) :
          g[i] = IF i = pos THEN 0 ELSE 16 * g[i - 1] + Hex[raw[i - 1]]
  BY <1>1 DEF ValuesTo
<1>3. ASSUME NEW i \in pos..k
      PROVE  h[i] = IF i = pos THEN 0 ELSE 16 * h[i - 1] + Hex[raw[i - 1]]
  <2>1. CASE i = k
    BY <2>1
  <2>2. CASE i # k
    BY <1>2, <2>2
  <2> QED
    BY <2>1, <2>2
<1>4. h = [i \in pos..k |-> h[i]] /\ k = pos + (m + 1)
  OBVIOUS
<1> HIDE DEF h, k
<1>5. [i \in pos..k |-> h[i]] =
          [i \in pos..k |-> IF i = pos THEN 0 ELSE 16 * h[i - 1] + Hex[raw[i - 1]]]
  BY <1>3
<1>6. ValuesTo(h, raw, pos, m + 1)
  BY <1>4, <1>5 DEF ValuesTo
<1> QED
  BY <1>6

LEMMA ValuesDefined ==
    ASSUME NEW raw, NEW pos \in Nat, NEW stop \in Nat, pos <= stop
    PROVE  \A i \in pos..stop : Values(raw, pos, stop)[i] =
              IF i = pos THEN 0
              ELSE 16 * Values(raw, pos, stop)[i - 1] + Hex[raw[i - 1]]
<1> DEFINE N == stop - pos
           S == {m \in Nat : \E g : ValuesTo(g, raw, pos, m)}
           f == Values(raw, pos, stop)
<1>1. N \in Nat /\ pos + N = stop
  OBVIOUS
<1>2. 0 \in S
  <2>1. ValuesTo([i \in pos..(pos + 0) |-> 0], raw, pos, 0)
    BY DEF ValuesTo
  <2> QED
    BY <2>1
<1>3. ASSUME NEW m \in Nat, m \in S PROVE m + 1 \in S
  BY <1>3, ValuesExtend
<1>4. N \in S
  <2> HIDE DEF N, S
  <2>1. 0..N \subseteq S
    BY <1>1, <1>2, <1>3, UpTo
  <2> QED
    BY <1>1, <2>1
<1>5. \E g : ValuesTo(g, raw, pos, N)
  BY <1>4
<1>6. \E g : g = [i \in pos..stop |->
                    IF i = pos THEN 0 ELSE 16 * g[i - 1] + Hex[raw[i - 1]]]
  <2> HIDE DEF N
  <2> QED
    BY <1>1, <1>5 DEF ValuesTo
<1>7. f = [i \in pos..stop |-> IF i = pos THEN 0 ELSE 16 * f[i - 1] + Hex[raw[i - 1]]]
  BY <1>6 DEF Values
<1> HIDE DEF f
<1>8. \A i \in pos..stop :
          f[i] = IF i = pos THEN 0 ELSE 16 * f[i - 1] + Hex[raw[i - 1]]
  BY <1>7
<1> QED
  BY <1>8 DEF f

LEMMA HexIs == \A c \in DOMAIN Hex : Hex[c] \in 0..15 /\ c # "SP" /\ c # ";"
<1>1. DOMAIN Hex = {"0", "1", "2", "5", "a"}
  BY DEF Hex
<1>2. /\ Hex["0"] = 0 /\ Hex["1"] = 1 /\ Hex["2"] = 2
      /\ Hex["5"] = 5 /\ Hex["a"] = 10
  BY DEF Hex
<1>3. \A c \in DOMAIN Hex : c # "SP" /\ c # ";"
  BY <1>1
<1>4. \A c \in DOMAIN Hex : Hex[c] \in {0, 1, 2, 5, 10}
  BY <1>1, <1>2, Zenon
<1>5. \A n \in {0, 1, 2, 5, 10} : n \in 0..15
  OBVIOUS
<1> QED
  BY <1>3, <1>4, <1>5

\* A digit, a space and any other symbol of a size field.
LEMMA Digit ==
    ASSUME NEW size \in Int, NEW c \in DOMAIN Hex, size # Malformed,
           NEW v \in Nat, v = IF size = NoDigit THEN 0 ELSE size
    PROVE  AddDigit(size, c) = IF 16 * v + Hex[c] > MaxChunk THEN Malformed ELSE 16 * v + Hex[c]
  BY HexIs DEF AddDigit

LEMMA NoDigitHere ==
    /\ \A size \in Int : AddDigit(size, "SP") = size
    /\ \A size \in Int : \A c : c \notin DOMAIN Hex \cup {"SP"} => AddDigit(size, c) = Malformed
    /\ \A c : AddDigit(Malformed, c) = Malformed
  BY DEF AddDigit

\* The size field, place by place.
LEMMA SizesStep ==
    ASSUME NEW raw, NEW pos \in Nat, NEW stop \in Nat, pos <= stop
    PROVE  LET f == Sizes(raw, pos, stop)
           IN  /\ f[pos] = NoDigit
               /\ \A i \in pos..(stop - 1) : f[i + 1] = AddDigit(f[i], raw[i])
               /\ \A i \in pos..stop : f[i] \in Int
<1> DEFINE f == Sizes(raw, pos, stop)
           S == {m \in Nat : f[pos + m] \in Int}
           N == stop - pos
<1>1. \A i \in pos..stop :
          f[i] = IF i = pos THEN NoDigit ELSE AddDigit(f[i - 1], raw[i - 1])
  <2>1. f = [i \in pos..stop |-> IF i = pos THEN NoDigit ELSE AddDigit(f[i - 1], raw[i - 1])]
    BY SizesDefined
  <2> HIDE DEF f
  <2> QED
    BY <2>1
<1> HIDE DEF f
<1>2. f[pos] = NoDigit
  BY <1>1
<1>3. ASSUME NEW i \in pos..(stop - 1) PROVE f[i + 1] = AddDigit(f[i], raw[i])
  <2>1. i + 1 \in pos..stop /\ i + 1 # pos /\ (i + 1) - 1 = i
    OBVIOUS
  <2> QED
    BY <1>1, <2>1
<1>4. 0 \in S
  BY <1>2 DEF NoDigit
<1>5. ASSUME NEW m \in 0..N, m \in S, m < N PROVE m + 1 \in S
  <2>1. pos + m \in pos..(stop - 1) /\ (pos + m) + 1 = pos + (m + 1) /\ m + 1 \in Nat
    BY <1>5
  <2>2. f[(pos + m) + 1] = AddDigit(f[pos + m], raw[pos + m])
    BY <1>3, <2>1
  <2>3. f[(pos + m) + 1] \in Int
    BY <1>5, <2>2, DigitIsInt
  <2> QED
    BY <2>1, <2>3
<1>6. 0..N \subseteq S
  <2>1. N \in Nat
    OBVIOUS
  <2> HIDE DEF N, S
  <2> QED
    BY <1>4, <1>5, <2>1, UpTo
<1>7. ASSUME NEW i \in pos..stop PROVE f[i] \in Int
  <2>1. i - pos \in 0..N /\ pos + (i - pos) = i
    OBVIOUS
  <2>2. f[pos + (i - pos)] \in Int
    BY <1>6, <2>1
  <2> QED
    BY <2>1, <2>2
<1> QED
  BY <1>2, <1>3, <1>7 DEF f

\* What the code reads from digits up to d is the number they write, if that is not
\* absurd.
LEMMA SizeOfDigits ==
    ASSUME NEW raw, NEW pos \in Nat, NEW d \in Nat, NEW stop \in Nat, pos < d, d <= stop,
           \A i \in pos..(d - 1) : raw[i] \in DOMAIN Hex
    PROVE  /\ Numeral(raw, pos, d) \in Nat
           /\ Sizes(raw, pos, stop)[d] =
                IF Numeral(raw, pos, d) > MaxChunk THEN Malformed ELSE Numeral(raw, pos, d)
<1> DEFINE f == Sizes(raw, pos, stop)
           v == Values(raw, pos, d)
           Good(i) == /\ v[i] \in Nat
                      /\ i = pos => f[i] = NoDigit /\ v[i] = 0
                      /\ i # pos => f[i] = IF v[i] > MaxChunk THEN Malformed ELSE v[i]
           N == d - pos
           S == {m \in Nat : Good(pos + m)}
<1>0. N \in Nat /\ pos + N = d /\ N # 0 /\ MaxChunk \in Nat
  BY MaxChunkAssumption
<1>1. /\ f[pos] = NoDigit
      /\ \A i \in pos..(stop - 1) : f[i + 1] = AddDigit(f[i], raw[i])
      /\ \A i \in pos..stop : f[i] \in Int
  BY SizesStep
<1>2. \A i \in pos..d : v[i] = IF i = pos THEN 0 ELSE 16 * v[i - 1] + Hex[raw[i - 1]]
  BY ValuesDefined
<1>3. Numeral(raw, pos, d) = v[d]
  BY DEF Numeral, Values
<1> HIDE DEF f, v
<1>4. 0 \in S
  BY <1>1, <1>2
<1>5. ASSUME NEW m \in 0..N, m \in S, m < N PROVE m + 1 \in S
  <2> DEFINE i == pos + m
             h == Hex[raw[i]]
  <2>1. /\ i \in pos..(d - 1) /\ i \in pos..(stop - 1) /\ i \in Nat /\ i \in pos..stop
        /\ i + 1 \in pos..d /\ i + 1 # pos /\ (i + 1) - 1 = i /\ i + 1 = pos + (m + 1)
    BY <1>0, <1>5
  <2>2. Good(i)
    BY <1>5
  <2> HIDE DEF i
  <2>3. raw[i] \in DOMAIN Hex /\ h \in 0..15
    BY <2>1, HexIs
  <2>4. f[i + 1] = AddDigit(f[i], raw[i]) /\ f[i] \in Int
    BY <1>1, <2>1
  <2>5. v[i + 1] = 16 * v[i] + h
    BY <1>2, <2>1
  <2> HIDE DEF h
  <2>6. v[i] \in Nat /\ v[i + 1] \in Nat
    BY <2>2, <2>3, <2>5
  <2>7. f[i + 1] = IF v[i + 1] > MaxChunk THEN Malformed ELSE v[i + 1]
    <3>1. CASE f[i] = Malformed
      <4>1. i # pos /\ v[i] > MaxChunk
        BY <1>0, <2>2, <2>6, <3>1 DEF Malformed, NoDigit
      <4>2. v[i + 1] > MaxChunk
        BY <1>0, <2>3, <2>5, <2>6, <4>1
      <4>3. f[i + 1] = Malformed
        BY <2>4, <3>1, NoDigitHere
      <4> QED
        BY <4>2, <4>3
    <3>2. CASE f[i] # Malformed
      <4>1. v[i] = IF f[i] = NoDigit THEN 0 ELSE f[i]
        BY <1>0, <2>2, <2>6, <3>2 DEF NoDigit
      <4>2. AddDigit(f[i], raw[i]) = IF 16 * v[i] + h > MaxChunk THEN Malformed ELSE 16 * v[i] + h
        BY <2>3, <2>4, <2>6, <3>2, <4>1, Digit DEF h
      <4> QED
        BY <2>4, <2>5, <4>2
    <3> QED
      BY <3>1, <3>2
  <2>8. Good(i + 1)
    BY <2>1, <2>6, <2>7
  <2> QED
    BY <1>5, <2>1, <2>8
<1>6. N \in S
  <2> HIDE DEF N, S
  <2>1. 0..N \subseteq S
    BY <1>0, <1>4, <1>5, UpTo
  <2> QED
    BY <1>0, <2>1
<1>7. Good(d) /\ d # pos
  BY <1>0, <1>6
<1> QED
  BY <1>3, <1>7 DEF f

\* Spaces add nothing to it.
LEMMA SizeOverSpaces ==
    ASSUME NEW raw, NEW pos \in Nat, NEW d \in Nat, NEW stop \in Nat, pos <= d, d <= stop,
           \A i \in d..(stop - 1) : raw[i] = "SP"
    PROVE  Sizes(raw, pos, stop)[stop] = Sizes(raw, pos, stop)[d]
<1> DEFINE f == Sizes(raw, pos, stop)
           N == stop - d
           S == {m \in Nat : f[d + m] = f[d]}
<1>0. pos <= stop
  OBVIOUS
<1>1. /\ \A i \in pos..(stop - 1) : f[i + 1] = AddDigit(f[i], raw[i])
      /\ \A i \in pos..stop : f[i] \in Int
  BY <1>0, SizesStep
<1> HIDE DEF f
<1>2. 0 \in S /\ N \in Nat /\ d + N = stop
  OBVIOUS
<1>3. ASSUME NEW m \in 0..N, m \in S, m < N PROVE m + 1 \in S
  <2>1. /\ d + m \in pos..(stop - 1) /\ d + m \in pos..stop /\ d + m \in d..(stop - 1)
        /\ (d + m) + 1 = d + (m + 1) /\ m + 1 \in Nat
    BY <1>3
  <2>2. f[(d + m) + 1] = AddDigit(f[d + m], "SP") /\ f[d + m] \in Int
    BY <1>1, <2>1
  <2>3. f[d + (m + 1)] = f[d + m]
    BY <2>1, <2>2, NoDigitHere
  <2> QED
    BY <1>3, <2>1, <2>3
<1>4. N \in S
  <2> HIDE DEF N, S
  <2>1. 0..N \subseteq S
    BY <1>2, <1>3, UpTo
  <2> QED
    BY <1>2, <2>1
<1> QED
  BY <1>2, <1>4 DEF f

\* A symbol that belongs to no number makes it malformed.
LEMMA SizeOfOther ==
    ASSUME NEW raw, NEW pos \in Nat, NEW stop \in Nat, pos <= stop,
           NEW k \in pos..(stop - 1), raw[k] \notin DOMAIN Hex \cup {"SP"}
    PROVE  Sizes(raw, pos, stop)[stop] = Malformed
<1> DEFINE f == Sizes(raw, pos, stop)
           N == stop - (k + 1)
           S == {m \in Nat : f[k + 1 + m] = Malformed}
<1>1. /\ \A i \in pos..(stop - 1) : f[i + 1] = AddDigit(f[i], raw[i])
      /\ \A i \in pos..stop : f[i] \in Int
  BY SizesStep
<1> HIDE DEF f
<1>2. 0 \in S /\ N \in Nat /\ k + 1 + N = stop
  <2>1. f[k + 1] = AddDigit(f[k], raw[k]) /\ f[k] \in Int
    BY <1>1
  <2>2. f[k + 1] = Malformed
    BY <2>1, NoDigitHere
  <2> QED
    BY <2>2
<1>3. ASSUME NEW m \in 0..N, m \in S, m < N PROVE m + 1 \in S
  <2>1. /\ k + 1 + m \in pos..(stop - 1) /\ (k + 1 + m) + 1 = k + 1 + (m + 1)
        /\ m + 1 \in Nat
    BY <1>3
  <2>2. f[(k + 1 + m) + 1] = AddDigit(Malformed, raw[k + 1 + m])
    BY <1>1, <1>3, <2>1
  <2>3. f[k + 1 + (m + 1)] = Malformed
    BY <2>1, <2>2, NoDigitHere
  <2> QED
    BY <2>1, <2>3
<1>4. N \in S
  <2> HIDE DEF N, S
  <2>1. 0..N \subseteq S
    BY <1>2, <1>3, UpTo
  <2> QED
    BY <1>2, <2>1
<1> QED
  BY <1>2, <1>4 DEF f

\* Where the code finds the size field of a line.
LEMMA LineIs ==
    ASSUME NEW raw, Len(raw) \in Nat, NEW pos \in Nat \ {0}, NEW e, NEW stop,
           SizeLine(raw, pos, e, stop)
    PROVE  /\ LineEnds(raw, pos) # {} /\ LineOf(raw, pos) = e
           /\ e \in pos..Len(raw) /\ e \in Nat /\ stop \in Nat /\ pos <= stop /\ stop <= e
           /\ ChunkOf(raw, pos) = Sizes(raw, pos, stop)[stop]
<1> DEFINE Semicolon(i) == raw[i] = ";"
           T == {i \in pos..e : i = e \/ Semicolon(i)}
<1>1. /\ e \in LineEnds(raw, pos) /\ \A i \in LineEnds(raw, pos) : e <= i
      /\ stop \in pos..e /\ (stop = e \/ Semicolon(stop))
      /\ \A i \in pos..(stop - 1) : ~Semicolon(i)
  BY DEF SizeLine
<1>9. ASSUME LineOf(raw, pos) = e, Min(T) = stop
      PROVE  ChunkOf(raw, pos) = Sizes(raw, pos, stop)[stop]
  BY <1>9 DEF ChunkOf, SizeAt
<1> HIDE DEF Semicolon
<1>2. LineEnds(raw, pos) \in SUBSET Nat /\ LineEnds(raw, pos) \subseteq pos..Len(raw)
  BY DEF LineEnds
<1>3. e \in pos..Len(raw) /\ e \in Nat
  BY <1>1, <1>2
<1>4. LineOf(raw, pos) = e
  BY <1>1, <1>2, MinUnique DEF LineOf
<1>5. stop \in Nat /\ pos <= stop /\ stop <= e
  BY <1>1, <1>3
<1>6. T \in SUBSET Nat /\ stop \in T
  BY <1>1
<1>7. ASSUME NEW i \in T PROVE stop <= i
  <2> SUFFICES ASSUME ~(stop <= i) PROVE FALSE
    OBVIOUS
  <2>1. i \in pos..(stop - 1) /\ i # e
    BY <1>3, <1>5
  <2> QED
    BY <1>1, <2>1
<1>8. Min(T) = stop
  <2> HIDE DEF T
  <2> QED
    BY <1>6, <1>7, MinUnique
<1> QED
  BY <1>1, <1>3, <1>4, <1>5, <1>8, <1>9

\* A line that says a number has it as its chunk size, one that does not has none.
LEMMA ChunkSaid ==
    ASSUME NEW raw, Len(raw) \in Nat, NEW pos \in Nat \ {0}, NEW e, NEW d \in (pos + 1)..e,
           e \in LineEnds(raw, pos), SizeDigits(raw, pos, e, d)
    PROVE  /\ LineEnds(raw, pos) # {} /\ LineOf(raw, pos) = e /\ e \in pos..Len(raw)
           /\ Numeral(raw, pos, d) \in Nat
           /\ ChunkOf(raw, pos) = IF Numeral(raw, pos, d) > MaxChunk THEN Malformed
                                  ELSE Numeral(raw, pos, d)
<1>1. PICK stop \in d..e :
         /\ SizeLine(raw, pos, e, stop) /\ pos < d
         /\ \A i \in pos..(d - 1) : raw[i] \in DOMAIN Hex
         /\ \A i \in d..(stop - 1) : raw[i] = "SP"
  BY DEF SizeDigits
<1>2. /\ LineEnds(raw, pos) # {} /\ LineOf(raw, pos) = e /\ e \in pos..Len(raw)
      /\ ChunkOf(raw, pos) = Sizes(raw, pos, stop)[stop]
      /\ stop \in Nat /\ e \in Nat
  BY <1>1, LineIs
<1>3. d \in Nat /\ pos < d /\ d <= stop /\ pos <= d
  BY <1>1, <1>2
<1>4. Sizes(raw, pos, stop)[stop] = Sizes(raw, pos, stop)[d]
  BY <1>1, <1>2, <1>3, SizeOverSpaces
<1>5. /\ Numeral(raw, pos, d) \in Nat
      /\ Sizes(raw, pos, stop)[d] =
            IF Numeral(raw, pos, d) > MaxChunk THEN Malformed ELSE Numeral(raw, pos, d)
  BY <1>1, <1>2, <1>3, SizeOfDigits
<1> QED
  BY <1>2, <1>4, <1>5

LEMMA NoChunkSaid ==
    ASSUME NEW raw, Len(raw) \in Nat, NEW pos \in Nat \ {0}, NEW e, NoSize(raw, pos, e)
    PROVE  LineEnds(raw, pos) # {} /\ ChunkOf(raw, pos) < 0
<1>1. PICK stop \in pos..e :
         /\ SizeLine(raw, pos, e, stop)
         /\ \/ \A i \in pos..(stop - 1) : raw[i] = "SP"
            \/ \E i \in pos..(stop - 1) : raw[i] \notin DOMAIN Hex \cup {"SP"}
  BY DEF NoSize
<1>2. /\ LineEnds(raw, pos) # {} /\ ChunkOf(raw, pos) = Sizes(raw, pos, stop)[stop]
      /\ stop \in Nat /\ pos <= stop
  BY <1>1, LineIs
<1>3. CASE \A i \in pos..(stop - 1) : raw[i] = "SP"
  <2>1. Sizes(raw, pos, stop)[stop] = Sizes(raw, pos, stop)[pos]
    BY <1>2, <1>3, SizeOverSpaces
  <2>2. Sizes(raw, pos, stop)[pos] = NoDigit
    BY <1>2, SizesStep
  <2> QED
    BY <1>2, <2>1, <2>2 DEF NoDigit
<1>4. CASE \E i \in pos..(stop - 1) : raw[i] \notin DOMAIN Hex \cup {"SP"}
  <2>1. Sizes(raw, pos, stop)[stop] = Malformed
    BY <1>2, <1>4, SizeOfOther
  <2> QED
    BY <1>2, <2>1 DEF Malformed
<1> QED
  BY <1>1, <1>3, <1>4

\* The code finds the end of the trailers just where there is a blank line.
LEMMA TrailersAre ==
    ASSUME NEW raw, Len(raw) \in Nat, NEW p \in Nat \ {0, 1}, raw[p - 1] = "LF"
    PROVE  TrailersEnd(raw, p) <=> BlankLines(raw, p) # {}
<1>0. \A i : LineEndAt(raw, i) => i < Len(raw) /\ raw[i] = "CR"
  BY DEF LineEndAt
<1>1. ASSUME TrailersEnd(raw, p) PROVE BlankLines(raw, p) # {}
  <2>1. CASE LineEndAt(raw, p)
    <3>1. p \in p..Len(raw)
      BY <1>0, <2>1
    <3> QED
      BY <2>1, <3>1 DEF BlankLines
  <2>2. CASE \E e \in LineEnds(raw, p) : LineEndAt(raw, e + 2)
    <3>1. PICK e \in p..Len(raw) : LineEndAt(raw, e) /\ LineEndAt(raw, e + 2)
      BY <2>2 DEF LineEnds
    <3>2. e + 2 \in p..Len(raw) /\ (e + 2) - 2 = e
      BY <1>0, <3>1
    <3> QED
      BY <3>1, <3>2 DEF BlankLines
  <2> QED
    BY <1>1, <2>1, <2>2 DEF TrailersEnd
<1>2. ASSUME BlankLines(raw, p) # {} PROVE TrailersEnd(raw, p)
  <2>1. PICK q \in p..Len(raw) : LineEndAt(raw, q) /\ (q = p \/ LineEndAt(raw, q - 2))
    BY <1>2 DEF BlankLines
  <2>2. CASE q = p
    BY <2>1, <2>2 DEF TrailersEnd
  <2>3. CASE q # p
    <3>1. LineEndAt(raw, q - 2) /\ LineEndAt(raw, (q - 2) + 2)
      BY <2>1, <2>3
    <3>2. q - 2 # p - 1
      <4> SUFFICES ASSUME q - 2 = p - 1 PROVE FALSE
        OBVIOUS
      <4>1. raw[p - 1] = "CR"
        BY <1>0, <3>1
      <4> QED
        BY <4>1
    <3>3. q - 2 \in p..Len(raw)
      BY <2>1, <2>3, <3>2
    <3> QED
      BY <3>1, <3>3 DEF TrailersEnd, LineEnds
  <2> QED
    BY <2>2, <2>3
<1> QED
  BY <1>1, <1>2

\* Behind the line end of a chunk is where its trailers would begin.
LEMMA BehindLine ==
    ASSUME NEW raw, Len(raw) \in Nat, NEW pos \in Nat \ {0}, NEW e \in LineEnds(raw, pos)
    PROVE  /\ e \in pos..Len(raw) /\ e + 2 \in Nat \ {0, 1} /\ raw[(e + 2) - 1] = "LF"
           /\ e + 1 <= Len(raw) /\ LineEndAt(raw, e)
<1>1. e \in pos..Len(raw) /\ LineEndAt(raw, e)
  BY DEF LineEnds
<1>2. e < Len(raw) /\ raw[e + 1] = "LF"
  BY <1>1 DEF LineEndAt
<1>3. (e + 2) - 1 = e + 1
  BY <1>1
<1> QED
  BY <1>1, <1>2, <1>3

\* A chunk of the size it says is one step of the walk.
LEMMA SkipsIs ==
    ASSUME NEW raw, Len(raw) \in Nat, NEW pos \in 1..(Len(raw) + 1), NEW q, Skips(raw, pos, q)
    PROVE  /\ LineEnds(raw, pos) # {} /\ ChunkOf(raw, pos) > 0 /\ ChunkOf(raw, pos) \in Int
           /\ After(raw, pos) = q /\ q \in (pos + 1)..(Len(raw) + 1)
           /\ LineOf(raw, pos) + 3 < q /\ LineOf(raw, pos) \in pos..Len(raw)
           /\ Walk(raw)[pos] = Walk(raw)[q]
<1>1. PICK e \in LineEnds(raw, pos) : \E d \in (pos + 1)..e :
         /\ SizeDigits(raw, pos, e, d) /\ Numeral(raw, pos, d) \in 1..MaxChunk
         /\ q = e + 2 + Numeral(raw, pos, d) + 2 /\ q <= Len(raw) + 1
  BY DEF Skips
<1>2. PICK d \in (pos + 1)..e :
         /\ SizeDigits(raw, pos, e, d) /\ Numeral(raw, pos, d) \in 1..MaxChunk
         /\ q = e + 2 + Numeral(raw, pos, d) + 2 /\ q <= Len(raw) + 1
  BY <1>1
<1>3. pos \in Nat \ {0} /\ MaxChunk \in Nat
  BY MaxChunkAssumption
<1>4. /\ LineEnds(raw, pos) # {} /\ LineOf(raw, pos) = e /\ e \in pos..Len(raw)
      /\ ChunkOf(raw, pos) = IF Numeral(raw, pos, d) > MaxChunk THEN Malformed
                             ELSE Numeral(raw, pos, d)
  BY <1>2, <1>3, ChunkSaid
<1> DEFINE n == Numeral(raw, pos, d)
<1>5. n \in 1..MaxChunk /\ q = e + 2 + n + 2 /\ q <= Len(raw) + 1
  BY <1>2
<1> HIDE DEF n
<1>6. ChunkOf(raw, pos) = n
  <2>1. ~(n > MaxChunk)
    BY <1>3, <1>5
  <2> QED
    BY <1>4, <2>1 DEF n
<1>7. After(raw, pos) = q
  BY <1>4, <1>5, <1>6 DEF After
<1>8. q \in (pos + 1)..(Len(raw) + 1) /\ e + 3 < q /\ n > 0 /\ n \in Int
  BY <1>3, <1>4, <1>5
<1>9. Walk(raw)[pos] = WalkStep(raw, Walk(raw), pos)
  BY WalkDefined
<1>10. ~(n < 0) /\ n # 0 /\ q <= Len(raw) + 1
  BY <1>8
<1>11. WalkStep(raw, Walk(raw), pos) = (q <= Len(raw) + 1 /\ Walk(raw)[q])
  BY <1>4, <1>6, <1>7, <1>10, Zenon DEF WalkStep
<1>12. Walk(raw)[pos] = (q <= Len(raw) + 1 /\ Walk(raw)[q])
  BY <1>9, <1>11
<1>13. Walk(raw)[q] \in BOOLEAN
  <2>1. Walk(raw)[q] = WalkStep(raw, Walk(raw), q)
    BY <1>8, WalkDefined
  <2> QED
    BY <2>1 DEF WalkStep, TrailersEnd
<1> QED
  BY <1>4, <1>6, <1>7, <1>8, <1>10, <1>12, <1>13

LEMMA LastEnds ==
    ASSUME NEW raw, Len(raw) \in Nat, NEW pos \in 1..Len(raw), IsLast(raw, pos)
    PROVE  /\ LineEnds(raw, pos) # {} /\ ChunkOf(raw, pos) = 0
           /\ LineOf(raw, pos) \in LineEnds(raw, pos)
           /\ BlankLines(raw, LineOf(raw, pos) + 2) = {Len(raw) - 1}
           /\ Walk(raw)[pos]
<1>1. PICK e \in LineEnds(raw, pos) : \E d \in (pos + 1)..e :
         /\ SizeDigits(raw, pos, e, d) /\ Numeral(raw, pos, d) = 0
         /\ BlankLines(raw, e + 2) = {Len(raw) - 1}
  BY DEF IsLast
<1>2. PICK d \in (pos + 1)..e :
         /\ SizeDigits(raw, pos, e, d) /\ Numeral(raw, pos, d) = 0
         /\ BlankLines(raw, e + 2) = {Len(raw) - 1}
  BY <1>1
<1>3. pos \in Nat \ {0} /\ MaxChunk \in Nat /\ pos \in 1..(Len(raw) + 1)
  BY MaxChunkAssumption
<1>4. /\ LineEnds(raw, pos) # {} /\ LineOf(raw, pos) = e
      /\ ChunkOf(raw, pos) = IF Numeral(raw, pos, d) > MaxChunk THEN Malformed
                             ELSE Numeral(raw, pos, d)
  BY <1>2, <1>3, ChunkSaid
<1>5. ChunkOf(raw, pos) = 0
  <2>1. ~(0 > MaxChunk)
    BY <1>3
  <2> QED
    BY <1>2, <1>4, <2>1
<1>6. TrailersEnd(raw, e + 2)
  <2>1. e + 2 \in Nat \ {0, 1} /\ raw[(e + 2) - 1] = "LF"
    BY <1>3, BehindLine
  <2> QED
    BY <1>2, <2>1, TrailersAre
<1>7. Walk(raw)[pos] = WalkStep(raw, Walk(raw), pos)
  BY <1>3, WalkDefined
<1>8. ~(0 < 0)
  OBVIOUS
<1>9. WalkStep(raw, Walk(raw), pos) = TrailersEnd(raw, e + 2)
  BY <1>4, <1>5, <1>8, Zenon DEF WalkStep
<1> QED
  BY <1>2, <1>4, <1>5, <1>6, <1>7, <1>9

LEMMA BrokenStops ==
    ASSUME NEW raw, Len(raw) \in Nat, NEW pos \in 1..(Len(raw) + 1), IsBroken(raw, pos)
    PROVE  ~Walk(raw)[pos]
<1>0. pos \in Nat \ {0} /\ MaxChunk \in Nat
  BY MaxChunkAssumption
<1>1. Walk(raw)[pos] = WalkStep(raw, Walk(raw), pos)
  BY WalkDefined
<1>2. CASE LineEnds(raw, pos) = {}
  BY <1>1, <1>2, Zenon DEF WalkStep
<1>3. ASSUME LineEnds(raw, pos) # {}, ChunkOf(raw, pos) < 0 PROVE ~Walk(raw)[pos]
  BY <1>1, <1>3, Zenon DEF WalkStep
<1>4. CASE \E e \in LineEnds(raw, pos) : NoSize(raw, pos, e)
  BY <1>0, <1>3, <1>4, NoChunkSaid
<1>5. ASSUME NEW e \in LineEnds(raw, pos), NEW d \in (pos + 1)..e, SizeDigits(raw, pos, e, d),
             \/ Numeral(raw, pos, d) > MaxChunk
             \/ Numeral(raw, pos, d) > 0 /\ e + 2 + Numeral(raw, pos, d) + 2 > Len(raw) + 1
             \/ Numeral(raw, pos, d) = 0 /\ BlankLines(raw, e + 2) = {}
      PROVE  ~Walk(raw)[pos]
  <2> DEFINE n == Numeral(raw, pos, d)
  <2>1. /\ LineEnds(raw, pos) # {} /\ LineOf(raw, pos) = e /\ e \in pos..Len(raw)
        /\ n \in Nat /\ ChunkOf(raw, pos) = IF n > MaxChunk THEN Malformed ELSE n
    BY <1>0, <1>5, ChunkSaid
  <2>2. \/ n > MaxChunk
        \/ n > 0 /\ e + 2 + n + 2 > Len(raw) + 1
        \/ n = 0 /\ BlankLines(raw, e + 2) = {}
    BY <1>5
  <2> HIDE DEF n
  <2>3. CASE n > MaxChunk
    <3>1. Malformed < 0
      BY DEF Malformed
    <3>2. ChunkOf(raw, pos) = Malformed
      BY <2>1, <2>3
    <3> QED
      BY <1>3, <2>1, <3>1, <3>2
  <2>4. CASE ~(n > MaxChunk) /\ n > 0 /\ e + 2 + n + 2 > Len(raw) + 1
    <3>1. ChunkOf(raw, pos) = n /\ ~(n < 0) /\ n # 0
      BY <2>1, <2>4
    <3>2. After(raw, pos) = e + 2 + n + 2
      BY <2>1, <3>1 DEF After
    <3>3. ~(After(raw, pos) <= Len(raw) + 1)
      BY <2>1, <2>4, <3>2
    <3> QED
      BY <1>1, <2>1, <3>1, <3>3, Zenon DEF WalkStep
  <2>5. CASE ~(n > MaxChunk) /\ n = 0 /\ BlankLines(raw, e + 2) = {}
    <3>1. ChunkOf(raw, pos) = 0 /\ ~(0 < 0)
      BY <2>1, <2>5
    <3>2. e + 2 \in Nat \ {0, 1} /\ raw[(e + 2) - 1] = "LF"
      BY <1>0, BehindLine
    <3>3. ~TrailersEnd(raw, e + 2)
      BY <2>5, <3>2, TrailersAre
    <3> QED
      BY <1>1, <2>1, <3>1, <3>3, Zenon DEF WalkStep
  <2> QED
    BY <2>2, <2>3, <2>4, <2>5
<1> QED
  BY <1>2, <1>4, <1>5 DEF IsBroken

LEMMA Greatest ==
    ASSUME NEW N \in Nat, NEW S \in SUBSET (0..N), S # {}
    PROVE  \E m \in S : \A n \in S : n <= m
<1> DEFINE T == {k \in 0..N : N - k \in S}
<1>1. T \in SUBSET Nat /\ T # {}
  <2>1. PICK s \in S : TRUE
    OBVIOUS
  <2>2. N - s \in 0..N /\ N - (N - s) = s
    OBVIOUS
  <2> QED
    BY <2>1, <2>2
<1>2. PICK k \in T : \A j \in T : k <= j
  <2> HIDE DEF T
  <2> QED
    BY <1>1, LeastNatural
<1>3. N - k \in S
  OBVIOUS
<1>4. ASSUME NEW n \in S PROVE n <= N - k
  <2>1. N - n \in 0..N /\ N - (N - n) = n
    OBVIOUS
  <2>2. k <= N - n
    BY <1>2, <2>1
  <2> QED
    BY <2>2
<1> QED
  BY <1>3, <1>4

\* Where the sizes lead to no chunk, the walk finds no end.
LEMMA UnchunkedHasNoEnd ==
    ASSUME NEW raw, Len(raw) \in Nat, Unchunked(raw)
    PROVE  ~Walk(raw)[1]
<1>1. PICK S \in SUBSET (1..(Len(raw) + 1)) : 1 \in S /\ \A p \in S :
          IsBroken(raw, p) \/ \E q \in S : Skips(raw, p, q)
  BY DEF Unchunked
<1> DEFINE Bad == {p \in S : Walk(raw)[p]}
<1> SUFFICES ASSUME Bad # {} PROVE FALSE
  BY <1>1
<1>2. Len(raw) + 1 \in Nat /\ Bad \in SUBSET (0..(Len(raw) + 1))
  <2>1. \A n \in S : n \in 0..(Len(raw) + 1)
    OBVIOUS
  <2>2. Len(raw) + 1 \in Nat
    OBVIOUS
  <2>3. Bad \subseteq 0..(Len(raw) + 1)
    BY <2>1
  <2> QED
    BY <2>2, <2>3
<1>3. PICK p \in Bad : \A n \in Bad : n <= p
  <2> HIDE DEF Bad
  <2> QED
    BY <1>2, Greatest
<1>4. p \in S /\ p \in 1..(Len(raw) + 1) /\ Walk(raw)[p]
  OBVIOUS
<1>5. ~IsBroken(raw, p)
  BY <1>4, BrokenStops
<1>6. PICK q \in S : Skips(raw, p, q)
  BY <1>1, <1>4, <1>5
<1>7. q \in (p + 1)..(Len(raw) + 1) /\ Walk(raw)[p] = Walk(raw)[q]
  BY <1>4, <1>6, SkipsIs
<1>8. q \in Bad /\ q > p
  BY <1>4, <1>7
<1> QED
  BY <1>3, <1>4, <1>8

\* A chunked body as HTTP says has an end for the walk.
LEMMA ChunkedHasEnd ==
    ASSUME NEW raw, Len(raw) \in Nat, Chunked(raw)
    PROVE  Walk(raw)[1]
<1>1. PICK S \in SUBSET (1..Len(raw)) : 1 \in S /\ \A p \in S :
          IsLast(raw, p) \/ \E q \in S : Skips(raw, p, q) /\ LineEndAt(raw, q - 2)
  BY DEF Chunked
<1> DEFINE Bad == {p \in S : ~Walk(raw)[p]}
<1> SUFFICES ASSUME Bad # {} PROVE FALSE
  BY <1>1
<1>2. Bad \in SUBSET (0..Len(raw))
  <2>1. \A n \in S : n \in 0..Len(raw)
    OBVIOUS
  <2> QED
    BY <2>1
<1>3. PICK p \in Bad : \A n \in Bad : n <= p
  <2> HIDE DEF Bad
  <2> QED
    BY <1>2, Greatest
<1>4. p \in S /\ p \in 1..Len(raw) /\ p \in 1..(Len(raw) + 1) /\ ~Walk(raw)[p]
  OBVIOUS
<1>5. ~IsLast(raw, p)
  BY <1>4, LastEnds
<1>6. PICK q \in S : Skips(raw, p, q)
  BY <1>1, <1>4, <1>5
<1>7. q \in (p + 1)..(Len(raw) + 1) /\ Walk(raw)[p] = Walk(raw)[q]
  BY <1>4, <1>6, SkipsIs
<1>8. q \in Bad /\ q > p
  BY <1>4, <1>7
<1> QED
  BY <1>3, <1>4, <1>8

\* One symbol short, it has none.
LEMMA ShortHasNoEnd ==
    ASSUME NEW p, NEW raw, Begins(p, raw), Len(p) = Len(raw) - 1, Chunked(raw)
    PROVE  ~Walk(p)[1]
<1>0. Len(p) \in Nat /\ Len(raw) \in Nat /\ Len(raw) = Len(p) + 1
  BY DEF Begins
<1>1. PICK S \in SUBSET (1..Len(raw)) : 1 \in S /\ \A k \in S :
          IsLast(raw, k) \/ \E q \in S : Skips(raw, k, q) /\ LineEndAt(raw, q - 2)
  BY DEF Chunked
<1> DEFINE Bad == {k \in S : Walk(p)[k]}
<1> SUFFICES ASSUME Bad # {} PROVE FALSE
  BY <1>1
<1>2. Bad \in SUBSET (0..Len(raw))
  <2>1. \A k \in S : k \in 0..Len(raw)
    OBVIOUS
  <2> QED
    BY <2>1
<1>3. PICK k \in Bad : \A n \in Bad : n <= k
  <2> HIDE DEF Bad
  <2> QED
    BY <1>0, <1>2, Greatest
<1>4. /\ k \in S /\ k \in 1..Len(raw) /\ k \in 1..(Len(p) + 1) /\ k \in 1..(Len(raw) + 1)
      /\ k \in Nat \ {0} /\ Walk(p)[k]
  BY <1>0
<1>5. Walk(p)[k] = WalkStep(p, Walk(p), k)
  BY <1>0, <1>4, WalkDefined
<1>6. LineEnds(p, k) # {}
  BY <1>4, <1>5, Zenon DEF WalkStep
<1> DEFINE e == LineOf(p, k)
<1>7. /\ LineOf(raw, k) = e /\ ChunkOf(raw, k) = ChunkOf(p, k) /\ After(raw, k) = After(p, k)
      /\ e \in LineEnds(p, k)
  BY <1>0, <1>4, <1>6, ChunksAgree, ChunkFacts
<1> HIDE DEF e
<1>8. CASE IsLast(raw, k)
  <2>1. ChunkOf(p, k) = 0 /\ BlankLines(raw, e + 2) = {Len(raw) - 1} /\ ~(0 < 0)
    BY <1>0, <1>4, <1>7, <1>8, LastEnds
  <2>2. TrailersEnd(p, e + 2)
    BY <1>4, <1>5, <1>6, <2>1, Zenon DEF WalkStep, e
  <2>3. e + 2 \in Nat \ {0, 1} /\ p[(e + 2) - 1] = "LF"
    BY <1>0, <1>4, <1>7, BehindLine
  <2>4. PICK q \in BlankLines(p, e + 2) : TRUE
    BY <1>0, <2>2, <2>3, TrailersAre
  <2>5. /\ q \in (e + 2)..Len(p) /\ LineEndAt(p, q)
        /\ q = e + 2 \/ LineEndAt(p, q - 2)
    BY DEF BlankLines
  <2>6. q < Len(p)
    BY <2>5 DEF LineEndAt
  <2>7. q \in (e + 2)..Len(raw) /\ LineEndAt(raw, q)
    BY <1>0, <2>3, <2>5, LineEndsAgree
  <2>8. q = e + 2 \/ LineEndAt(raw, q - 2)
    <3>1. CASE q = e + 2
      BY <3>1
    <3>2. CASE q # e + 2 /\ LineEndAt(p, q - 2)
      <4>1. q - 2 \in Nat
        BY <1>0, <2>3, <2>5
      <4>2. q - 2 # 0
        <5>1. e \in Nat \ {0}
          BY <1>0, <1>4, <1>7, BehindLine
        <5> QED
          BY <1>0, <2>5, <3>2, <5>1
      <4> QED
        BY <3>2, <4>1, <4>2, LineEndsAgree
    <3> QED
      BY <2>5, <3>1, <3>2
  <2>9. q \in BlankLines(raw, e + 2)
    BY <2>7, <2>8 DEF BlankLines
  <2>10. q = Len(raw) - 1
    BY <2>1, <2>9
  <2> QED
    BY <1>0, <2>6, <2>10
<1>9. CASE \E q \in S : Skips(raw, k, q)
  <2>1. PICK q \in S : Skips(raw, k, q)
    BY <1>9
  <2>2. ChunkOf(p, k) > 0 /\ ChunkOf(p, k) \in Int /\ After(p, k) = q /\ q > k
    BY <1>0, <1>4, <1>7, <2>1, SkipsIs
  <2>3. ~(ChunkOf(p, k) < 0) /\ ChunkOf(p, k) # 0
    BY <2>2
  <2>4. Walk(p)[q]
    BY <1>4, <1>5, <1>6, <2>2, <2>3, Zenon DEF WalkStep
  <2>5. q \in Bad
    BY <2>1, <2>4
  <2> QED
    BY <1>0, <1>3, <1>4, <2>2, <2>5
<1> QED
  BY <1>1, <1>4, <1>8, <1>9

\* The framing of each response of rs ends it where the origin does: the body is
\* complete if it keeps to a framing, and is not without its last symbol.
FramingExact(rs) ==
    \A r \in rs : r.head.status_ok =>
        /\ response_complete(r.head, r.body) <=> Framing(r.head) # "close" /\ r.well
        /\ r.body # <<>> =>
              ~response_complete(r.head, SubSeq(r.body, 1, Len(r.body) - 1))

\* Where it shows whether a response keeps to its framing, the framing is exact.
LEMMA ShowsExact == FramingShows(Responses) => FramingExact(Responses)
<1> SUFFICES ASSUME FramingShows(Responses), NEW r \in Responses, r.head.status_ok
             PROVE  /\ response_complete(r.head, r.body) <=>
                         Framing(r.head) # "close" /\ r.well
                    /\ r.body # <<>> =>
                         ~response_complete(r.head, SubSeq(r.body, 1, Len(r.body) - 1))
  BY DEF FramingExact
<1> DEFINE N == Len(r.body)
           short == SubSeq(r.body, 1, N - 1)
<1>1. /\ r.body \in Seq(STRING) /\ N \in Nat /\ r.head.cl \in Int
      /\ r.head.te \in BOOLEAN /\ r.well \in BOOLEAN
  BY ResponsesAssumption DEF NoLength
<1>2. r.body # <<>> => N - 1 \in 0..N /\ N # 0
  BY <1>1
<1>3. r.body # <<>> => Begins(short, r.body) /\ Len(short) = N - 1
  BY <1>1, <1>2, Beginning
<1>4. CASE Framing(r.head) = "length"
  <2>1. IF r.well THEN Len(r.body) = r.head.cl ELSE Len(r.body) < r.head.cl
    BY <1>4 DEF FramingShows
  <2>2. response_complete(r.head, r.body) = (N >= r.head.cl)
        /\ response_complete(r.head, short) = (Len(short) >= r.head.cl)
    BY <1>4 DEF response_complete
  <2> HIDE DEF short
  <2>3. response_complete(r.head, r.body) <=> r.well
    BY <1>1, <2>1, <2>2
  <2>4. ASSUME r.body # <<>> PROVE ~response_complete(r.head, short)
    <3>1. Len(short) = N - 1 /\ N \in Nat /\ r.head.cl \in Int /\ N <= r.head.cl
      BY <1>1, <1>3, <2>1, <2>4
    <3>2. ~(Len(short) >= r.head.cl)
      <4> HIDE DEF N
      <4> QED
        BY <3>1
    <3> QED
      BY <2>2, <3>2
  <2> QED
    BY <1>4, <2>3, <2>4 DEF short
<1>5. CASE Framing(r.head) = "chunked"
  <2>1. IF r.well THEN Chunked(r.body) ELSE Unchunked(r.body)
    BY <1>5 DEF FramingShows
  <2>2. response_complete(r.head, r.body) = Walk(r.body)[1]
        /\ response_complete(r.head, short) = Walk(short)[1]
    BY <1>5 DEF response_complete, chunked_body_complete
  <2> HIDE DEF short
  <2>3. CASE r.well
    <3>1. Walk(r.body)[1]
      BY <1>1, <2>1, <2>3, ChunkedHasEnd
    <3>2. r.body # <<>> => ~Walk(short)[1]
      BY <1>1, <1>3, <2>1, <2>3, ShortHasNoEnd
    <3> QED
      BY <1>5, <2>2, <2>3, <3>1, <3>2 DEF short
  <2>4. CASE ~r.well
    <3>1. ~Walk(r.body)[1]
      BY <1>1, <2>1, <2>4, UnchunkedHasNoEnd
    <3>2. r.body # <<>> => ~Walk(short)[1]
      BY <1>3, <3>1, WalkStays
    <3> QED
      BY <2>2, <2>4, <3>1, <3>2 DEF short
  <2> QED
    BY <2>3, <2>4
<1>6. CASE Framing(r.head) = "close"
  BY <1>6 DEF response_complete
<1> QED
  BY <1>4, <1>5, <1>6 DEF Framing

\* What an exact framing says of a response of which k symbols are in.
LEMMA Exact ==
    ASSUME FramingExact(Responses), NEW m \in Responses, m.head.status_ok,
           NEW k \in Nat, m.header <= k, k <= m.header + Len(m.body)
    PROVE  /\ Complete(m, k) => m.well /\ k = m.header + Len(m.body)
           /\ k = m.header + Len(m.body) /\ ~Complete(m, k) =>
                Framing(m.head) = "close" \/ ~m.well
<1> DEFINE N == Len(m.body)
           n == k - m.header
<1>1. m.header \in Nat /\ N \in Nat /\ m.body \in Seq(STRING)
  BY ResponsesAssumption
<1>2. n \in 0..N
  BY <1>1
<1>3. SubSeq(m.body, 1, N) = m.body
  BY <1>1
<1>4. /\ CompleteAt[m][N] <=> Framing(m.head) # "close" /\ m.well
      /\ N # 0 => ~CompleteAt[m][N - 1]
  <2>1. /\ response_complete(m.head, m.body) <=> Framing(m.head) # "close" /\ m.well
        /\ m.body # <<>> => ~response_complete(m.head, SubSeq(m.body, 1, N - 1))
    BY DEF FramingExact
  <2>2. CompleteAt[m][N] = response_complete(m.head, m.body)
    <3>1. CompleteAt[m][N] = response_complete(m.head, SubSeq(m.body, 1, N))
      BY <1>1 DEF CompleteAt
    <3> QED
      BY <1>3, <3>1
  <2>3. N # 0 => /\ m.body # <<>>
                 /\ CompleteAt[m][N - 1] = response_complete(m.head, SubSeq(m.body, 1, N - 1))
    BY <1>1 DEF CompleteAt
  <2> QED
    BY <2>1, <2>2, <2>3
<1>5. n < N => ~CompleteAt[m][n]
  <2> SUFFICES ASSUME n < N, CompleteAt[m][n] PROVE FALSE
    OBVIOUS
  <2>1. N - 1 \in 0..N /\ n <= N - 1 /\ N # 0
    BY <1>1, <1>2
  <2>2. CompleteAt[m][N - 1]
    BY <1>2, <2>1, CompleteStays
  <2> QED
    BY <1>4, <2>1, <2>2
<1>6. Complete(m, k) = CompleteAt[m][n]
  BY DEF Complete
<1>7. n < N \/ (n = N /\ k = m.header + N)
  BY <1>1, <1>2
<1>8. k = m.header + N => n = N
  BY <1>1
<1> HIDE DEF n, N
<1>9. Complete(m, k) => m.well /\ k = m.header + N
  BY <1>4, <1>5, <1>6, <1>7
<1>10. k = m.header + N /\ ~Complete(m, k) => Framing(m.head) = "close" \/ ~m.well
  BY <1>4, <1>6, <1>8
<1> QED
  BY <1>9, <1>10 DEF N

\* fetch_upstream() goes through its calls in order: what it holds, has parsed and
\* has found complete is what the stage it is at calls for.
THEOREM Invariance == Spec => []IndInv
  BY InitInv, NextInv, PTL DEF Spec

\* Whichever way out fetch_upstream() takes, it has closed its socket and freed the
\* address list (what FetchEnds says beside the ending).
THEOREM EverythingReleased == Spec => [](pc = "done" => ~sock /\ ~ai)
<1>1. IndInv => (pc = "done" => ~sock /\ ~ai)
  BY DEF IndInv, Holding
<1> QED
  BY <1>1, Invariance, PTL

\* Where it shows of each response whether it keeps to its framing, a fetch that
\* succeeds has parsed the headers and kept to the limit, and has the whole response
\* if the framing ended it, however the bytes were cut (OkIsFramed).
THEOREM OkHasAll == FramingShows(Responses) => (Spec => []OkIsFramed)
<1> SUFFICES ASSUME FramingShows(Responses) PROVE Spec => []OkIsFramed
  OBVIOUS
<1>1. IndInv => OkIsFramed
  <2> SUFFICES ASSUME IndInv, result = "ok"
               PROVE  /\ have_headers /\ buf >= msg.header /\ buf <= MaxBody
                      /\ stream = "open" => msg.well /\ buf = Total
    BY DEF OkIsFramed
  <2>1. /\ have_headers /\ buf <= MaxBody /\ buf >= msg.header /\ msg.head.status_ok
        /\ stream = "open" => Complete(msg, buf)
    BY DEF IndInv, Reading, Ending
  <2>2. msg \in Responses /\ buf \in Nat /\ sent \in Nat /\ buf <= sent /\ sent <= Total
    BY DEF IndInv, FetchType
  <2>3. msg.header \in Nat /\ Len(msg.body) \in Nat
    BY <2>2, TotalNat
  <2>4. msg.header <= buf /\ buf <= msg.header + Len(msg.body)
    BY <2>1, <2>2, <2>3 DEF Total
  <2>5. Complete(msg, buf) => msg.well /\ buf = msg.header + Len(msg.body)
    BY <2>1, <2>2, <2>4, ShowsExact, Exact
  <2> QED
    BY <2>1, <2>5 DEF Total
<1> QED
  BY <1>1, Invariance, PTL

\* Where it shows of each response whether it keeps to its framing, a fetch that
\* times out did not have the whole of a response that keeps to a framing
\* (TimeoutMeansIncomplete).
THEOREM NoNeedlessWait == FramingShows(Responses) => (Spec => []TimeoutMeansIncomplete)
<1> SUFFICES ASSUME FramingShows(Responses) PROVE Spec => []TimeoutMeansIncomplete
  OBVIOUS
<1>1. IndInv => TimeoutMeansIncomplete
  <2> SUFFICES ASSUME IndInv, result = "timeout", ~(buf < Total)
               PROVE  Framing(msg.head) = "close" \/ ~msg.well
    BY DEF TimeoutMeansIncomplete
  <2>1. msg \in Responses /\ buf \in Nat /\ sent \in Nat /\ buf <= sent /\ sent <= Total
    BY DEF IndInv, FetchType
  <2>2. msg.header \in Nat /\ Len(msg.body) \in Nat
    BY <2>1, TotalNat
  <2>3. buf = msg.header + Len(msg.body) /\ msg.header <= buf
    BY <2>1, <2>2 DEF Total
  <2>4. have_headers /\ ~Complete(msg, buf)
    BY <2>1, <2>2, <2>3 DEF IndInv, Ending
  <2>5. msg.head.status_ok
    BY <2>4 DEF IndInv, Reading
  <2> QED
    BY <2>1, <2>2, <2>3, <2>4, <2>5, ShowsExact, Exact
<1> QED
  BY <1>1, Invariance, PTL
==============================================================================
