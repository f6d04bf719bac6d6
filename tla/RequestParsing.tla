--------------------------- MODULE RequestParsing ---------------------------
(***************************************************************************)
(* parse_request of http.hpp, on a header block that has arrived.          *)
(*                                                                         *)
(* A header block is a record: line, the request line as the words between *)
(* single spaces, and headers, its header lines in order, as records of a  *)
(* lower-cased name and a value.  Words and values are sequences of        *)
(* symbols; "http://" and "HTTP/" are one symbol each, the ones text       *)
(* never splits.  What a Content-Length or Connection header changes is    *)
(* modelled in EventLoop, where bodies and connections are.                *)
(***************************************************************************)
EXTENDS Naturals, Sequences, SequencesExt

\* std::tolower.
Lower(c) ==
    CASE c = "A"       -> "a"
      [] c = "GET"     -> "get"
      [] c = "HEAD"    -> "head"
      [] c = "POST"    -> "post"
      [] c = "HTTP://" -> "http://"
      [] OTHER         -> c

to_lower(s) == [i \in DOMAIN s |-> Lower(s[i])]

\* The values of a header, repeats folded into one with a comma between them;
\* empty when it is absent.
Header(raw, name) ==
    LET lines == SelectSeq(raw.headers, LAMBDA h : h.name = name)
    IN  FlattenSeq([i \in DOMAIN lines |->
            IF i = 1 THEN lines[i].value ELSE <<",">> \o lines[i].value])

\* The target is in absolute form: its scheme is http, in either case.
IsAbsolute(target) == to_lower(target)[1] = "http://"

\* Positions of the slashes behind the scheme.
Slashes(target) == {i \in 2..Len(target) : target[i] = "/"}

\* The authority of an absolute-form target: up to the first slash.
Authority(target) ==
    IF Slashes(target) = {} THEN Tail(target)
    ELSE SubSeq(target, 2, Min(Slashes(target)) - 1)

\* r.path: an absolute-form target is normalised to origin form.
Path(target) ==
    IF ~IsAbsolute(target) THEN target
    ELSE IF Slashes(target) = {} THEN <<"/">>
    ELSE SubSeq(target, Min(Slashes(target)), Len(target))

\* r.host: the target's authority, or else the Host header.
Host(raw) ==
    LET target == raw.line[2]
        named  == IF IsAbsolute(target) THEN Authority(target) ELSE <<>>
    IN  IF named # <<>> THEN named ELSE Header(raw, "host")

\* The version is all that follows the second space, trimmed; it need only begin
\* with "HTTP/".
VersionOK(rest) ==
    LET words == SelectSeq(rest, LAMBDA w : w # <<>>)
    IN  words # <<>> /\ words[1][1] = "HTTP/"

RequestLineOK(line) ==
    /\ Len(line) >= 3
    /\ line[1] # <<>> /\ line[2] # <<>>
    /\ VersionOK(SubSeq(line, 3, Len(line)))

\* r.valid: the request line is well formed and there is a host to route on.
Valid(raw) == RequestLineOK(raw.line) /\ Host(raw) # <<>>
=============================================================================
