--------------------------- MODULE ResponseFraming ---------------------------
(***************************************************************************)
(* Where a response ends: parse_response_headers, chunked_body_complete    *)
(* and response_complete of http.hpp.                                      *)
(*                                                                         *)
(* A header block is a record: status_ok, whether its status line has a    *)
(* status from 100 to 599; te, whether Transfer-Encoding says chunked; cl, *)
(* the number Content-Length gives, NoLength without one.  A body is a     *)
(* sequence of symbols, among them the hexadecimal digits, the separators  *)
(* and the two halves of a line end.                                       *)
(***************************************************************************)
EXTENDS Integers, Sequences, FiniteSetsExt

CONSTANT MaxChunk  \* the chunk size the walk takes for absurd (2^40)

ASSUME MaxChunkAssumption == MaxChunk \in Nat

NoLength == -1

\* parse_response_headers: chunked goes before Content-Length, and without
\* either the body ends with the stream.
Framing(head) ==
    IF head.te THEN "chunked" ELSE IF head.cl # NoLength THEN "length" ELSE "close"

------------------------------------------------------------------------------
(* The walk along a chunked body                                           *)

Hex == [c \in {"0", "1", "2", "5", "a"} |->
           CASE c = "0" -> 0 [] c = "1" -> 1 [] c = "2" -> 2 [] c = "5" -> 5 [] c = "a" -> 10]

NoDigit == -1
Malformed == -2

\* The size so far once symbol c of the size field is read.
AddDigit(size, c) ==
    IF size = Malformed \/ c \notin DOMAIN Hex \cup {"SP"} THEN Malformed
    ELSE IF c = "SP" THEN size
    ELSE LET n == 16 * (IF size = NoDigit THEN 0 ELSE size) + Hex[c]
         IN  IF n > MaxChunk THEN Malformed ELSE n

LineEndAt(raw, i) == i < Len(raw) /\ raw[i] = "CR" /\ raw[i + 1] = "LF"
LineEnds(raw, pos) == {i \in pos..Len(raw) : LineEndAt(raw, i)}

\* The size read from pos on, before each of the symbols up to the one at stop.
Sizes(raw, pos, stop) ==
    LET size[i \in pos..stop] ==
            IF i = pos THEN NoDigit ELSE AddDigit(size[i - 1], raw[i - 1])
    IN  size

\* The size field at pos, on a line that ends at e: up to a semicolon.
SizeAt(raw, pos, e) ==
    LET stop == Min({i \in pos..e : i = e \/ raw[i] = ";"})
    IN  Sizes(raw, pos, stop)[stop]

\* Trailer lines from p on, up to a blank one.
TrailersEnd(raw, p) ==
    LineEndAt(raw, p) \/ \E e \in LineEnds(raw, p) : LineEndAt(raw, e + 2)

\* What the walk finds from each position on.
Walk(raw) ==
    LET walk[pos \in 1..(Len(raw) + 1)] ==
            IF LineEnds(raw, pos) = {} THEN FALSE
            ELSE LET e    == Min(LineEnds(raw, pos))
                     size == SizeAt(raw, pos, e)
                     next == e + 2 + size + 2
                 IN  IF size < 0 THEN FALSE
                     ELSE IF size = 0 THEN TrailersEnd(raw, e + 2)
                     ELSE next <= Len(raw) + 1 /\ walk[next]
    IN  walk

chunked_body_complete(raw) == Walk(raw)[1]

\* response_complete, once the header block and this much of the body are in.
response_complete(head, body) ==
    CASE Framing(head) = "chunked" -> chunked_body_complete(body)
      [] Framing(head) = "length"  -> Len(body) >= head.cl
      [] Framing(head) = "close"   -> FALSE
==============================================================================
