----------------------------- MODULE MCEventLoop -----------------------------
(* EventLoop for TLC: what the clients send.                               *)
EXTENDS EventLoop, TLC

CONSTANTS c1, c2

\* Every stream of at most two pieces with lines that end in CRLF; longer ones
\* that go beyond a limit, keep on after a body, pipeline requests, or end in one
\* that is no longer read; and some with lines that end in a bare LF.
Streams ==
    UNION {[1..n -> {"data"} \cup Crlf] : n \in 0..2}
    \cup { <<"data", "data", "data", "get">>, <<"post", "data", "get", "data">>,
           <<"get", "data", "post", "data">>, <<"get", "get", "last", "get">>,
           <<"get", "post", "data", "bad">>, <<"data", "post", "data", "post">>,
           <<"post", "post", "get">>, <<"data", "data", "get">>, <<"bad", "get", "last">>,
           <<"bareget", "barepost", "data", "bareget">>, <<"get", "data", "barepost", "bareget">>,
           <<"barepost", "get", "bareget", "last">> }

\* Two clients, a request at once or in two pieces each; or one client alone.
MixedScripts ==
    { (c1 :> <<"get">>) @@ (c2 :> q) : q \in { <<"get">>, <<"data", "last">> } }
    \cup { (c1 :> q) @@ (c2 :> None) : q \in Streams }
==============================================================================
