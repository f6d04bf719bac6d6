--------------------------- MODULE MCServeRequest ---------------------------
(* ServeRequest for TLC: what clients send, and the files the server reads. *)
EXTENDS ServeRequest

Block(line, host, auth, means) ==
    [line |-> line, auth |-> auth, means |-> means,
     headers |-> IF host = <<>> THEN <<>> ELSE <<[name |-> "host", value |-> host]>>]

Http11 == <<"HTTP/", "1.1">>

Means(host, name, port, path) == [host |-> host, name |-> name, port |-> port, path |-> path]

\* The same request in origin form and in absolute form; one to another port.
Origin(m, host, path, auth) ==
    Block(<<<<m>>, path, Http11>>, host, auth, Means(host, host, 80, path))
ToPort(host, name, port) ==
    Block(<<<<"GET">>, <<"/">>, Http11>>, host, FALSE, Means(host, name, port, <<"/">>))
Absolute(m, scheme, host, path) ==
    Block(<<<<m>>, <<scheme>> \o host \o path, Http11>>, <<"x">>, FALSE,
          Means(host, host, 80, IF path = <<>> THEN <<"/">> ELSE path))

\* Requests that differ in one respect each: the spelling of the host, the form
\* of the target, credentials, the method, a host that begins with the other.
OneResource == { Origin("GET", <<"a">>, <<"/">>, FALSE),
                 Absolute("GET", "HTTP://", <<"A">>, <<>>),
                 Origin("GET", <<"a">>, <<"/">>, TRUE) }
Neighbours  == { Origin("GET", <<"a">>, <<"/">>, FALSE),
                 Absolute("GET", "http://", <<"a", "b">>, <<"/", "p">>),
                 Origin("HEAD", <<"a">>, <<"/">>, FALSE),
                 Origin("POST", <<"a">>, <<"/">>, FALSE) }

\* Header blocks that get 400 (no host, no version, a double space before the
\* target), and one that does not (a double space before the version).
Odd == { Origin("GET", <<>>, <<"/">>, FALSE),
         Block(<<<<"GET">>, <<"/">>>>, <<"a">>, FALSE, Means(<<"a">>, <<"a">>, 80, <<"/">>)),
         Block(<<<<"GET">>, <<>>, <<"/">>, Http11>>, <<"a">>, FALSE,
               Means(<<"a">>, <<"a">>, 80, <<"/">>)),
         Block(<<<<"GET">>, <<"/">>, <<>>, Http11>>, <<"a">>, FALSE,
               Means(<<"a">>, <<"a">>, 80, <<"/">>)) }

Rule(verb, field, pattern) ==
    [verb |-> verb, word |-> field, pattern |-> pattern, host |-> <<>>, port |-> 0]
Default(policy) == Rule("default", policy, <<>>)
Route(pattern, host, port) ==
    [verb |-> "route", word |-> "", pattern |-> pattern, host |-> host, port |-> port]

\* First match before a wider one, a suffix and its dot, a prefix, a default.
Guarded == << Default("allow"), Rule("allow", "method", <<"HEAD">>),
              Rule("deny", "host", <<"*", ".", "A">>), Rule("deny", "path", <<"/", "p", "*">>) >>
Hosts   == { Origin("GET", <<"b", ".", "A">>, <<"/">>, FALSE),
             Origin("HEAD", <<"b", ".", "a">>, <<"/">>, FALSE),
             Origin("GET", <<"b", "a">>, <<"/">>, FALSE),
             Absolute("GET", "http://", <<"a">>, <<"/", "p", "/">>) }
Closed  == << Rule("allow", "host", <<"a">>), Default("deny") >>
Ports   == { Origin("GET", <<"A">>, <<"/">>, FALSE),
             ToPort(<<"a", ":", "8">>, <<"a">>, 8) }

\* A named service behind another address, ports in the host.
Routed   == << Route(<<"A", "*">>, <<"o">>, 19000), Route(<<"a">>, <<"n">>, 1) >>
Services == { Origin("GET", <<"A">>, <<"/">>, FALSE), Origin("GET", <<"a">>, <<"/">>, FALSE),
              ToPort(<<"b", ":", "8", "1">>, <<"b">>, 81),
              ToPort(<<"b", ":", "0">>, <<"b">>, 80) }

\* One mistake per file.
Mistakes == { Rule("dney", "host", <<"a">>), Rule("deny", "hots", <<"a">>),
              Rule("deny", "path", <<>>), Default("none"), Route(<<"a">>, <<"o">>, 65536) }

AllScenarios ==
    { [file |-> <<>>, requests |-> OneResource], [file |-> <<>>, requests |-> Neighbours],
      [file |-> <<>>, requests |-> Odd], [file |-> Guarded, requests |-> Hosts],
      [file |-> Closed, requests |-> Ports], [file |-> Routed, requests |-> Services] }
    \cup { [file |-> <<Rule("allow", "path", <<"/">>), m, Default("deny")>>,
             requests |-> Ports] : m \in Mistakes }

\* What the theorems about OwnAnswer, RightOrigin and DeniedStopsHere ask of the
\* inputs.
ASSUME InputsAssumption == ClientsKeepToHTTP /\ FilesAreDocumented

WorkerSymmetry == Permutations(Workers)
=============================================================================
