---------------------------- MODULE AccessControl ----------------------------
(***************************************************************************)
(* AccessControl and RouteTable of http.hpp: the configuration file, the   *)
(* rules and routes it becomes, and the answers they give for a request.   *)
(*                                                                         *)
(* A configuration line is a record of its first words, lower-cased: verb, *)
(* word (the policy of a default, the field of a rule), pattern, and the   *)
(* host and port of a route.  Patterns and hosts are sequences of symbols. *)
(* Blank lines and comments are not in the sequence.                       *)
(***************************************************************************)
EXTENDS RequestParsing

Digits == <<"0", "1", "2", "3", "4", "5", "6", "7", "8", "9">>

\* std::isdigit and std::atoi.
IsDigit(c) == \E d \in DOMAIN Digits : Digits[d] = c
Atoi(s) == FoldLeft(LAMBDA n, c : 10 * n + (CHOOSE d \in 1..10 : Digits[d] = c) - 1, 0, s)

\* "*.suffix": the dot is part of what has to match.
SuffixMatch(pattern, value) == IsSuffix(Tail(pattern), value)

wildcard_match(pattern, value) ==
    IF pattern = <<"*">> THEN TRUE
    ELSE IF Len(pattern) > 2 /\ pattern[1] = "*" /\ pattern[2] = "."
    THEN SuffixMatch(pattern, value)
    ELSE IF pattern # <<>> /\ Last(pattern) = "*" THEN IsPrefix(Front(pattern), value)
    ELSE pattern = value

------------------------------------------------------------------------------
(* The configuration                                                       *)

Fields == {"host", "path", "method"}
Policies == {"allow", "deny"}
PortNumbers == 1..65535

\* AccessControl as constructed: no rules, allow.
EmptyAcl == [ok |-> TRUE, rules |-> <<>>, policy |-> "allow", routes |-> <<>>]

\* load_string on one line: it takes effect, or the file is refused and the
\* lines behind it are not read.
LoadLine(acl, l) ==
    IF ~acl.ok THEN acl
    ELSE IF l.verb = "default" /\ l.word \in Policies
    THEN [acl EXCEPT !.policy = l.word]
    ELSE IF l.verb \in Policies /\ l.pattern # <<>> /\ l.word \in Fields
    THEN [acl EXCEPT !.rules =
             Append(@, [decision |-> l.verb, field |-> l.word, pattern |-> l.pattern])]
    ELSE IF l.verb = "route" /\ l.pattern # <<>> /\ l.host # <<>> /\ l.port \in PortNumbers
    THEN [acl EXCEPT !.routes =
             Append(@, [pattern |-> to_lower(l.pattern), host |-> l.host, port |-> l.port])]
    ELSE [acl EXCEPT !.ok = FALSE]

\* What each number of lines makes of an empty configuration.
Loaded(file) ==
    LET acl[n \in 0..Len(file)] ==
            IF n = 0 THEN EmptyAcl ELSE LoadLine(acl[n - 1], file[n])
    IN  acl

load_string(file) == Loaded(file)[Len(file)]

------------------------------------------------------------------------------
(* Its answers                                                             *)

\* A rule of check() matches the request: hosts and methods whatever their
\* case, paths as they are.
RuleMatches(rule, raw) ==
    CASE rule.field = "host"   -> wildcard_match(to_lower(rule.pattern), to_lower(Host(raw)))
      [] rule.field = "path"   -> wildcard_match(rule.pattern, Path(raw.line[2]))
      [] rule.field = "method" -> wildcard_match(to_lower(rule.pattern), to_lower(raw.line[1]))

\* check: the first rule that matches decides, else the default policy.
Check(acl, raw) ==
    LET hits == {i \in DOMAIN acl.rules : RuleMatches(acl.rules[i], raw)}
    IN  IF hits = {} THEN acl.policy ELSE acl.rules[Min(hits)].decision

\* split_authority: "name:port", port 80 unless the digits say otherwise.
split_authority(authority) ==
    LET colons == {i \in DOMAIN authority : authority[i] = ":"}
        port   == SubSeq(authority, Max(colons) + 1, Len(authority))
    IN  IF colons # {} /\ port # <<>> /\ \A i \in DOMAIN port : IsDigit(port[i])
        THEN [host |-> SubSeq(authority, 1, Max(colons) - 1),
              port |-> IF Atoi(port) \in PortNumbers THEN Atoi(port) ELSE 80]
        ELSE [host |-> authority, port |-> 80]

\* RouteTable::resolve: the first route that matches, else the host itself.
resolve(acl, host) ==
    LET hits == {i \in DOMAIN acl.routes :
                    wildcard_match(acl.routes[i].pattern, to_lower(host))}
    IN  IF hits = {} THEN split_authority(host)
        ELSE [host |-> acl.routes[Min(hits)].host, port |-> acl.routes[Min(hits)].port]
==============================================================================
