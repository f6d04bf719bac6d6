--------------------------- MODULE MCUpstreamFetch ---------------------------
(* UpstreamFetch for TLC: the responses origins give.                       *)
EXTENDS UpstreamFetch

Block(te, cl) == [status_ok |-> TRUE, te |-> te, cl |-> cl]

Reply(head, header, body, well) ==
    [head |-> head, header |-> header, body |-> body, well |-> well]

CRLF == <<"CR", "LF">>

\* The chunk of that data, with a size field as it may be written.
Chunk(size, data) == size \o CRLF \o data \o CRLF
LastChunk(trailer) == <<"0">> \o CRLF \o trailer \o CRLF

\* Bodies of plain symbols, at and around the limit.
Plain == UNION {[1..n -> {"x"}] : n \in {0, 1, 3, 15, 16}}

\* Chunked bodies: none, one and two chunks, extensions and spaces, a trailer,
\* and data that reads like the end of the body.
WellChunked ==
    { LastChunk(<<>>), LastChunk(<<"x">> \o CRLF),
      Chunk(<<"1">>, <<"x">>) \o LastChunk(<<>>),
      Chunk(<<"2", ";", "1">>, <<"x", "0">>) \o LastChunk(<<>>),
      Chunk(<<"0", "2", "SP">>, <<"CR", "LF">>) \o Chunk(<<"1">>, <<"0">>) \o LastChunk(<<>>),
      Chunk(<<"5">>, <<"0">> \o CRLF \o CRLF) \o LastChunk(<<>>) }

\* A size that is no number, none at all, an absurd one, a body that goes on.
BadlyChunked ==
    { Chunk(<<"x">>, <<"x">>) \o LastChunk(<<>>), CRLF \o LastChunk(<<>>),
      Chunk(<<"2", "a">>, <<"0">>) \o LastChunk(<<>>),
      Chunk(<<"2">>, <<"0">>) \o LastChunk(<<>>) }

\* Responses that keep to their framing: with a length, with no framing, chunked
\* with and without a Content-Length beside it; and those that do not.
FramedResponses ==
    { Reply(Block(FALSE, Len(b)), h, b, TRUE) : b \in Plain, h \in 1..4 }
    \cup { Reply(Block(FALSE, NoLength), h, b, TRUE) : b \in Plain, h \in 1..4 }
    \cup { Reply(Block(TRUE, cl), 2, b, TRUE) : b \in WellChunked, cl \in {NoLength, 1} }
    \cup { Reply(Block(TRUE, NoLength), 1, b, FALSE) : b \in BadlyChunked }
    \cup { Reply([Block(FALSE, 1) EXCEPT !.status_ok = FALSE], h, <<"x">>, TRUE) : h \in 1..4 }

ASSUME FramedAssumption == FramingShows(FramedResponses)

\* The response to HEAD: Content-Length announces a body that is not sent.
HeadResponses ==
    { Reply(Block(FALSE, n), h, <<>>, TRUE) : n \in 0..2, h \in 1..2 }
==============================================================================
