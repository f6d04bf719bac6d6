---------------------------- MODULE UpstreamFetch ----------------------------
(***************************************************************************)
(* fetch_upstream of server_phase5.cpp against one origin server: resolve, *)
(* connect, send the request, read until the framing of the response (or   *)
(* the end of the stream) says it is complete, and release everything.     *)
(*                                                                         *)
(* A response is a run of symbols: its header block, of which only the     *)
(* length counts, and its body.  well is whether the body keeps to the     *)
(* framing the header block announces (the answer to HEAD does not: it has *)
(* a Content-Length and no body).  The origin may stop, close or reset at  *)
(* any point.                                                              *)
(***************************************************************************)
EXTENDS ResponseFraming

CONSTANTS
    Responses,  \* the responses an origin may be about to give
    MaxHeader,  \* max_header_bytes, in symbols
    MaxBody     \* max_body_bytes, in symbols

ASSUME ResponsesAssumption ==
    \A r \in Responses :
        /\ {r.head.status_ok, r.head.te, r.well} \subseteq BOOLEAN
        /\ r.header \in Nat \ {0} /\ r.head.cl \in Nat \cup {NoLength}
        /\ r.body \in Seq(STRING)
ASSUME LimitAssumption == MaxHeader \in Nat /\ MaxBody \in Nat

\* What response_complete says of each response and each number of body symbols.
CompleteAt ==
    [r \in Responses |-> [n \in 0..Len(r.body) |->
        response_complete(r.head, SubSeq(r.body, 1, n))]]

VARIABLES
    msg,           \* the origin's response
    sent,          \* symbols of it the origin has sent
    stream,        \* origin's end of the connection: "open", "closed", "reset"
    pc,            \* where fetch_upstream is
    ai,            \* the addrinfo list is allocated
    sock,          \* the socket is open
    buf,           \* symbols received
    have_headers,
    result         \* "none" while running, "ok", or the error

vars == <<msg, sent, stream, pc, ai, sock, buf, have_headers, result>>

Init ==
    /\ msg \in Responses
    /\ sent = 0
    /\ stream = "open"
    /\ pc = "resolve"
    /\ ai = FALSE
    /\ sock = FALSE
    /\ buf = 0
    /\ have_headers = FALSE
    /\ result = "none"

Total == msg.header + Len(msg.body)

------------------------------------------------------------------------------
(* The origin, once the request has reached it.                            *)

OriginSend ==
    /\ pc = "recv" /\ stream = "open" /\ sent < Total
    /\ sent' = sent + 1
    /\ UNCHANGED <<msg, stream, pc, ai, sock, buf, have_headers, result>>

\* It closes (at the end of a close-delimited body, after a keep-alive timeout,
\* or in the middle), or dies.
OriginEnd ==
    /\ pc = "recv" /\ stream = "open"
    /\ stream' \in {"closed", "reset"}
    /\ UNCHANGED <<msg, sent, pc, ai, sock, buf, have_headers, result>>

------------------------------------------------------------------------------
(* fetch_upstream                                                          *)

\* Return r, with what is still allocated.
Return(r, aiLeft, sockLeft) ==
    /\ pc' = "done"
    /\ result' = r
    /\ ai' = aiLeft
    /\ sock' = sockLeft

Resolve ==
    /\ pc = "resolve"
    /\ \/ Return("dns", FALSE, FALSE)
       \/ pc' = "socket" /\ ai' = TRUE /\ UNCHANGED <<sock, result>>
    /\ UNCHANGED <<msg, sent, stream, buf, have_headers>>

Socket ==
    /\ pc = "socket"
    /\ \/ Return("socket", FALSE, FALSE)
       \/ pc' = "connect" /\ sock' = TRUE /\ UNCHANGED <<ai, result>>
    /\ UNCHANGED <<msg, sent, stream, buf, have_headers>>

\* Mutant: the socket stays open when connect fails.
ConnectLeaks ==
    /\ pc = "connect"
    /\ \/ Return("connect", FALSE, sock)
       \/ pc' = "send" /\ ai' = FALSE /\ UNCHANGED <<sock, result>>
    /\ UNCHANGED <<msg, sent, stream, buf, have_headers>>

Connect ==
    /\ pc = "connect"
    /\ \/ Return("connect", FALSE, FALSE)
       \/ pc' = "send" /\ ai' = FALSE /\ UNCHANGED <<sock, result>>
    /\ UNCHANGED <<msg, sent, stream, buf, have_headers>>

SendRequest ==
    /\ pc = "send"
    /\ \/ Return("send", ai, FALSE)
       \/ pc' = "recv" /\ UNCHANGED <<ai, sock, result>>
    /\ UNCHANGED <<msg, sent, stream, buf, have_headers>>

\* Mutant: only the end of the stream ends a response.
CompleteAtEndOnly(b) == FALSE

\* Mutant: a Content-Length is believed beside the chunked coding.
CompleteByLength(b) ==
    IF msg.head.cl # NoLength THEN b - msg.header >= msg.head.cl
                              ELSE CompleteAt[msg][b - msg.header]

\* !close_delimited && response_complete, once b symbols are in.
ResponseComplete(b) == CompleteAt[msg][b - msg.header]

\* recv returned n > 0 symbols: headers are parsed when they are in, limits are
\* enforced, and the loop ends when the framing says so.
RecvData ==
    /\ pc = "recv"
    /\ \E b \in (buf + 1)..sent :
        /\ buf' = b
        /\ have_headers' = (have_headers \/ (b >= msg.header /\ msg.head.status_ok))
        /\ IF b >= msg.header /\ ~msg.head.status_ok THEN Return("malformed", ai, FALSE)
           ELSE IF b < msg.header
           THEN IF b > MaxHeader THEN Return("headers too large", ai, FALSE)
                ELSE UNCHANGED <<pc, result, ai, sock>>
           ELSE IF b > MaxBody THEN Return("body too large", ai, FALSE)
           ELSE IF ResponseComplete(b) THEN Return("ok", ai, FALSE)
           ELSE UNCHANGED <<pc, result, ai, sock>>
    /\ UNCHANGED <<msg, sent, stream>>

\* recv returned 0: the socket is closed, and what has arrived is the response
\* if a header block is in it, whatever its framing announced.
RecvEnd ==
    /\ pc = "recv" /\ buf = sent /\ stream = "closed"
    /\ Return(IF buf = 0 THEN "empty" ELSE IF have_headers THEN "ok" ELSE "malformed",
              ai, FALSE)
    /\ UNCHANGED <<msg, sent, stream, buf, have_headers>>

RecvReset ==
    /\ pc = "recv" /\ buf = sent /\ stream = "reset"
    /\ Return("recv", ai, FALSE)
    /\ UNCHANGED <<msg, sent, stream, buf, have_headers>>

\* SO_RCVTIMEO expires: nothing came for upstream_timeout_sec.
RecvTimeout ==
    /\ pc = "recv" /\ buf = sent /\ stream = "open"
    /\ Return("timeout", ai, FALSE)
    /\ UNCHANGED <<msg, sent, stream, buf, have_headers>>

Fetch ==
    Resolve \/ Socket \/ Connect \/ SendRequest \/ RecvData \/ RecvEnd \/ RecvReset
    \/ RecvTimeout

Done == pc = "done" /\ UNCHANGED vars

Next == Fetch \/ OriginSend \/ OriginEnd \/ Done

\* The worker runs: connect, send and recv have a timeout.  getaddrinfo has none of
\* the program's; it returns when the resolver has given up.
Spec == Init /\ [][Next]_vars /\ WF_vars(Fetch)

------------------------------------------------------------------------------
(* Responses whose framing shows: a reading of RFC 9112, section 7.1, apart *)
(* from the walk of the code.                                              *)

\* The hexadecimal number that the symbols from pos to before stop write.
Numeral(body, pos, stop) ==
    LET value[i \in pos..stop] ==
            IF i = pos THEN 0 ELSE 16 * value[i - 1] + Hex[body[i - 1]]
    IN  value[stop]

\* The line at pos ends at e; what is before an extension ends before stop.
SizeLine(body, pos, e, stop) ==
    /\ e \in LineEnds(body, pos) /\ \A i \in LineEnds(body, pos) : e <= i
    /\ stop \in pos..e /\ (stop = e \/ body[stop] = ";")
    /\ \A i \in pos..(stop - 1) : body[i] # ";"

\* It is digits up to d and perhaps spaces.
SizeDigits(body, pos, e, d) ==
    \E stop \in d..e :
        /\ SizeLine(body, pos, e, stop) /\ pos < d
        /\ \A i \in pos..(d - 1) : body[i] \in DOMAIN Hex
        /\ \A i \in d..(stop - 1) : body[i] = "SP"

\* It is no number: nothing but spaces, or a symbol that is no digit and no space.
NoSize(body, pos, e) ==
    \E stop \in pos..e :
        /\ SizeLine(body, pos, e, stop)
        /\ \/ \A i \in pos..(stop - 1) : body[i] = "SP"
           \/ \E i \in pos..(stop - 1) : body[i] \notin DOMAIN Hex \cup {"SP"}

\* The blank lines from p on.
BlankLines(body, p) ==
    {q \in p..Len(body) : LineEndAt(body, q) /\ (q = p \/ LineEndAt(body, q - 2))}

\* At pos is a chunk of the size it says, and next is behind it.
Skips(body, pos, next) ==
    \E e \in LineEnds(body, pos) : \E d \in (pos + 1)..e :
        /\ SizeDigits(body, pos, e, d) /\ Numeral(body, pos, d) \in 1..MaxChunk
        /\ next = e + 2 + Numeral(body, pos, d) + 2 /\ next <= Len(body) + 1

\* At pos is the last chunk: size 0, trailers, and a blank line that ends the body.
IsLast(body, pos) ==
    \E e \in LineEnds(body, pos) : \E d \in (pos + 1)..e :
        /\ SizeDigits(body, pos, e, d) /\ Numeral(body, pos, d) = 0
        /\ BlankLines(body, e + 2) = {Len(body) - 1}

\* At pos is no chunk: its line has no end or its size is no number or absurd, or
\* the data or the trailers go past the end.
IsBroken(body, pos) ==
    \/ LineEnds(body, pos) = {}
    \/ \E e \in LineEnds(body, pos) : NoSize(body, pos, e)
    \/ \E e \in LineEnds(body, pos) : \E d \in (pos + 1)..e :
          /\ SizeDigits(body, pos, e, d)
          /\ LET n == Numeral(body, pos, d)
             IN  \/ n > MaxChunk
                 \/ n > 0 /\ e + 2 + n + 2 > Len(body) + 1
                 \/ n = 0 /\ BlankLines(body, e + 2) = {}

\* Chunks from the beginning on, each with a line end behind its data, the last of
\* size 0.
Chunked(body) ==
    \E S \in SUBSET (1..Len(body)) : 1 \in S /\ \A p \in S :
        \/ IsLast(body, p)
        \/ \E q \in S : Skips(body, p, q) /\ LineEndAt(body, q - 2)

\* Sizes that lead from the beginning on to where there is no chunk.
Unchunked(body) ==
    \E S \in SUBSET (1..(Len(body) + 1)) : 1 \in S /\ \A p \in S :
        IsBroken(body, p) \/ \E q \in S : Skips(body, p, q)

\* A response that keeps to its framing is framed as HTTP says; of one that does not
\* it shows: the body is short of its length, or the chunks lead nowhere.
FramingShows(rs) ==
    \A r \in rs : r.head.status_ok =>
        CASE Framing(r.head) = "length"  ->
               IF r.well THEN Len(r.body) = r.head.cl ELSE Len(r.body) < r.head.cl
          [] Framing(r.head) = "chunked" ->
               IF r.well THEN Chunked(r.body) ELSE Unchunked(r.body)
          [] Framing(r.head) = "close"   -> TRUE

------------------------------------------------------------------------------
(* Properties.                                                             *)

\* A fetch that succeeds has a parsed header block and a response within
\* max_body_bytes; and one that the framing ends, not the stream, has the whole
\* of the response, whatever its bytes look like and however they were cut.
OkIsFramed ==
    result = "ok" =>
        /\ have_headers /\ buf >= msg.header /\ buf <= MaxBody
        /\ stream = "open" => msg.well /\ buf = Total

\* A fetch does not wait out the timeout for a response it has completely:
\* reading stops at the framing, not at the end of the stream.
TimeoutMeansIncomplete ==
    result = "timeout" => buf < Total \/ Framing(msg.head) = "close" \/ ~msg.well

\* What a successful fetch returns is the whole response the origin meant: a
\* truncated one is an error, and so is never cached.
OkIsComplete ==
    result = "ok" => Framing(msg.head) = "close" \/ buf = Total

\* Every fetch ends, and whichever of its ways out it takes, the socket is
\* closed and the address list freed.
FetchEnds == <>(pc = "done" /\ ~sock /\ ~ai)
==============================================================================
