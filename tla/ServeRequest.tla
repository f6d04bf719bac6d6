---------------------------- MODULE ServeRequest ----------------------------
(***************************************************************************)
(* The proxy from its start to the answers it gives: main() loads the      *)
(* access rules; then several workers take requests from their connections *)
(* (handle_ready, serve_one_request of server_phase5.cpp) on the shared    *)
(* rules, cache, counters of g_stats and access log.                       *)
(*                                                                         *)
(* The cache is what ShardedLRUCache promises: get and put are atomic, and *)
(* an entry may be evicted at any time.  A fetch has the outcomes          *)
(* UpstreamFetch has: an error, or a response whose status and headers the *)
(* origin chooses.  A response remembers the request it answers and the    *)
(* origin it came from.                                                    *)
(***************************************************************************)
EXTENDS AccessControl

CONSTANTS
    Workers,
    Scenarios,    \* records: file (the lines of --acl) and requests: header
                  \* blocks, each with auth (Authorization present) and means,
                  \* what its client asks for: the host it names, that host's
                  \* name and port, and the path
    MaxRequests,  \* bound: requests taken from connections
    Forbidden,    \* the 403 response
    BadGateway,   \* the 502 response
    BadRequest,   \* the 400 response
    None

ASSUME BoundAssumption == MaxRequests \in Nat

Requests == UNION {s.requests : s \in Scenarios}

VARIABLES
    scenario,     \* the file given to this run, and what its clients send
    phase,        \* of main(): "boot", "serve" or "exited"
    g_acl,        \* the rules and routes
    pc, req,      \* per worker: where it is, and the request it serves
    resp,         \* per worker: the response in hand
    state,        \* per worker: the log's cache field, "HIT", "MISS", "BYPASS"
    sent,         \* per worker: the response went out completely
    cache,        \* per key of the cache: the response stored, or None
    total_requests, denied_requests, cache_served, forwarded_requests,
    upstream_errors, bad_requests,
    log,          \* lines written: how many, by outcome
    taken,        \* history: requests taken from connections, refused ones too
    refused,      \* history: those refused for their size, by status
    fetched       \* history: requests sent upstream

boot == <<scenario, phase, g_acl>>
counters == <<total_requests, denied_requests, cache_served,
              forwarded_requests, upstream_errors, bad_requests>>
vars == <<boot, pc, req, resp, state, sent, cache, counters, log, taken, refused,
          fetched>>

Method(r) == r.line[1]
PathOf(r) == Path(r.line[2])

\* cache_key: method, a space, and the lower-cased host and the path with nothing
\* between them.
CacheKey(r) == Method(r) \o <<"SP">> \o to_lower(Host(r)) \o PathOf(r)
Keys == {CacheKey(r) : r \in {q \in Requests : Valid(q)}}

\* The responses an origin can give.
Origins ==
    UNION {{resolve(load_string(s.file), Host(r)) : r \in {q \in s.requests : Valid(q)}} :
              s \in Scenarios}
OriginResponses == [for : Requests, from : Origins, ok200 : BOOLEAN, storable : BOOLEAN]

ASSUME WorkersAssumption == IsFiniteSet(Workers)

ASSUME FilesAssumption ==
    \A s \in Scenarios : Len(s.file) \in Nat /\ DOMAIN s.file = 1..Len(s.file)

\* None and the server's own answers are four things, and no origin's.
ASSUME AnswersAssumption ==
    /\ None \notin Requests \cup {Forbidden, BadGateway, BadRequest}
    /\ Forbidden \notin {BadGateway, BadRequest}
    /\ BadGateway # BadRequest
    /\ \A p \in {Forbidden, BadGateway, BadRequest, None} : p \notin OriginResponses

\* What a log line says about the outcome.
Outcomes == {"BAD", "DENY", "HIT", "ERROR", "OK"}

Init ==
    /\ scenario \in Scenarios
    /\ phase = "boot"
    /\ g_acl = EmptyAcl
    /\ pc = [w \in Workers |-> "idle"]
    /\ req = [w \in Workers |-> None]
    /\ resp = [w \in Workers |-> None]
    /\ state = [w \in Workers |-> "BYPASS"]
    /\ sent = [w \in Workers |-> FALSE]
    /\ cache = [k \in Keys |-> None]
    /\ total_requests = 0
    /\ denied_requests = 0
    /\ cache_served = 0
    /\ forwarded_requests = 0
    /\ upstream_errors = 0
    /\ bad_requests = 0
    /\ log = [o \in Outcomes |-> 0]
    /\ taken = 0
    /\ refused = [s \in {413, 431} |-> 0]
    /\ fetched = {}

------------------------------------------------------------------------------
(* main()                                                                  *)

\* Mutant: the server starts with the rules read up to the line at fault.
LoadFailOpen ==
    /\ phase = "boot"
    /\ g_acl' = load_string(scenario.file)
    /\ phase' = "serve"
    /\ UNCHANGED <<scenario, pc, req, resp, state, sent, cache, counters, log,
                   taken, refused, fetched>>

\* g_acl.load_file; a file that cannot be read to its end ends the program.
Load ==
    /\ phase = "boot"
    /\ g_acl' = load_string(scenario.file)
    /\ phase' = IF load_string(scenario.file).ok THEN "serve" ELSE "exited"
    /\ UNCHANGED <<scenario, pc, req, resp, state, sent, cache, counters, log,
                   taken, refused, fetched>>

------------------------------------------------------------------------------
(* handle_ready, the parts that answer                                     *)

\* A worker finds a complete header block.  A valid request is counted and goes
\* to serve_one_request; any other gets 400, a log line and no more.
Begin(w, r) ==
    /\ phase = "serve"
    /\ pc[w] = "idle"
    /\ taken < MaxRequests
    /\ taken' = taken + 1
    /\ req' = [req EXCEPT ![w] = r]
    /\ IF Valid(r)
       THEN /\ total_requests' = total_requests + 1
            /\ pc' = [pc EXCEPT ![w] = "acl"]
            /\ UNCHANGED <<bad_requests, resp>>
       ELSE /\ bad_requests' = bad_requests + 1
            /\ resp' = [resp EXCEPT ![w] = BadRequest]
            /\ pc' = [pc EXCEPT ![w] = "send"]
            /\ UNCHANGED total_requests
    /\ UNCHANGED <<boot, state, sent, cache, denied_requests, cache_served,
                   forwarded_requests, upstream_errors, log, refused, fetched>>

\* The buffer outgrew its limit (413) or a header block the header limit (431):
\* the connection is answered and closed without a log line, and only the second
\* is a bad request.
Refuse(w, status) ==
    /\ phase = "serve"
    /\ pc[w] = "idle"
    /\ taken < MaxRequests
    /\ taken' = taken + 1
    /\ refused' = [refused EXCEPT ![status] = @ + 1]
    /\ bad_requests' = bad_requests + (IF status = 431 THEN 1 ELSE 0)
    /\ UNCHANGED <<boot, pc, req, resp, state, sent, cache, total_requests,
                   denied_requests, cache_served, forwarded_requests,
                   upstream_errors, log, fetched>>

------------------------------------------------------------------------------
(* serve_one_request                                                       *)

Cached == {<<"GET">>, <<"HEAD">>}

\* Mutant: a request with Authorization may use the cache too.
CacheableWithAuth(r) == Method(r) \in Cached

\* GET and HEAD without Authorization may use the cache.
CacheableRequest(r) == Method(r) \in Cached /\ ~r.auth

\* Mutant: the verdict is asked for and not acted on.
AclGoesOn(w) ==
    /\ pc[w] = "acl"
    /\ pc' = [pc EXCEPT ![w] = "lookup"]
    /\ UNCHANGED <<boot, req, resp, state, sent, cache, total_requests, cache_served,
                   denied_requests, forwarded_requests, upstream_errors, bad_requests,
                   log, taken, refused, fetched>>

\* Access control: a denied request gets 403 and goes no further.
Acl(w) ==
    /\ pc[w] = "acl"
    /\ IF Check(g_acl, req[w]) = "allow"
       THEN /\ pc' = [pc EXCEPT ![w] = "lookup"]
            /\ UNCHANGED <<resp, denied_requests>>
       ELSE /\ denied_requests' = denied_requests + 1
            /\ resp' = [resp EXCEPT ![w] = Forbidden]
            /\ pc' = [pc EXCEPT ![w] = "send"]
    /\ UNCHANGED <<boot, req, state, sent, cache, total_requests, cache_served,
                   forwarded_requests, upstream_errors, bad_requests, log, taken,
                   refused, fetched>>

\* g_cache->get, for a request that may use the cache.
Lookup(w) ==
    LET hit == CacheableRequest(req[w]) /\ cache[CacheKey(req[w])] # None IN
    /\ pc[w] = "lookup"
    /\ IF hit
       THEN /\ cache_served' = cache_served + 1
            /\ resp' = [resp EXCEPT ![w] = cache[CacheKey(req[w])]]
            /\ state' = [state EXCEPT ![w] = "HIT"]
            /\ pc' = [pc EXCEPT ![w] = "send"]
       ELSE /\ state' = [state EXCEPT ![w] =
                   IF CacheableRequest(req[w]) THEN "MISS" ELSE "BYPASS"]
            /\ pc' = [pc EXCEPT ![w] = "fetch"]
            /\ UNCHANGED <<cache_served, resp>>
    /\ UNCHANGED <<boot, req, sent, cache, total_requests, denied_requests,
                   forwarded_requests, upstream_errors, bad_requests, log, taken,
                   refused, fetched>>

\* fetch_upstream returns an error: 502.
FetchError(w) ==
    /\ pc[w] = "fetch"
    /\ fetched' = fetched \cup {req[w]}
    /\ upstream_errors' = upstream_errors + 1
    /\ resp' = [resp EXCEPT ![w] = BadGateway]
    /\ pc' = [pc EXCEPT ![w] = "send"]
    /\ UNCHANGED <<boot, req, state, sent, cache, total_requests, denied_requests,
                   cache_served, forwarded_requests, bad_requests, log, taken,
                   refused>>

\* Mutant: the routes are not asked.
ResponseUnrouted(r, s, h) ==
    [for |-> r, from |-> split_authority(Host(r)), ok200 |-> s, storable |-> h]

\* The origin's response to r: its status is 200 (s) or not, its headers let a
\* cache keep it (h: no no-store, no-cache, private or Set-Cookie) or not.
Response(r, s, h) ==
    [for |-> r, from |-> resolve(g_acl, Host(r)), ok200 |-> s, storable |-> h]

\* fetch_upstream returns the response of the origin the host is routed to.
FetchOK(w, s, h) ==
    /\ pc[w] = "fetch"
    /\ fetched' = fetched \cup {req[w]}
    /\ forwarded_requests' = forwarded_requests + 1
    /\ resp' = [resp EXCEPT ![w] = Response(req[w], s, h)]
    /\ pc' = [pc EXCEPT ![w] = "store"]
    /\ UNCHANGED <<boot, req, state, sent, cache, total_requests, denied_requests,
                   cache_served, upstream_errors, bad_requests, log, taken, refused>>

\* Mutant: the response's headers are not looked at.
CacheableAny(r, p) == Method(r) \in Cached /\ p.ok200 /\ ~r.auth

\* is_cacheable
IsCacheable(r, p) ==
    /\ Method(r) \in Cached
    /\ p.ok200
    /\ ~r.auth
    /\ p.storable

\* g_cache->put, when request and response allow it.
Store(w) ==
    /\ pc[w] = "store"
    /\ cache' = IF CacheableRequest(req[w]) /\ IsCacheable(req[w], resp[w])
                THEN [cache EXCEPT ![CacheKey(req[w])] = resp[w]]
                ELSE cache
    /\ pc' = [pc EXCEPT ![w] = "send"]
    /\ UNCHANGED <<boot, req, resp, state, sent, counters, log, taken, refused, fetched>>

\* send_all of the response: all of it, or the peer is gone or stalled.
Send(w) ==
    /\ pc[w] = "send"
    /\ \E b \in BOOLEAN : sent' = [sent EXCEPT ![w] = b]
    /\ pc' = [pc EXCEPT ![w] = "log"]
    /\ UNCHANGED <<boot, req, resp, state, cache, counters, log, taken, refused, fetched>>

\* The outcome of the line that is written for w's request.
Outcome(w) ==
    CASE resp[w] = BadRequest -> "BAD"
      [] resp[w] = Forbidden -> "DENY"
      [] resp[w] = BadGateway -> "ERROR"
      [] OTHER -> IF state[w] = "HIT" THEN "HIT" ELSE "OK"

\* Mutant: nothing is logged for a response that was not sent completely.
FinishIfSent(w) ==
    /\ pc[w] = "log"
    /\ log' = IF sent[w] THEN [log EXCEPT ![Outcome(w)] = @ + 1] ELSE log
    /\ pc' = [pc EXCEPT ![w] = "idle"]
    /\ req' = [req EXCEPT ![w] = None]
    /\ resp' = [resp EXCEPT ![w] = None]
    /\ state' = [state EXCEPT ![w] = "BYPASS"]
    /\ sent' = [sent EXCEPT ![w] = FALSE]
    /\ UNCHANGED <<boot, cache, counters, taken, refused, fetched>>

\* finish, or the 400 branch of handle_ready: the log line, and back to the
\* connection.
Finish(w) ==
    /\ pc[w] = "log"
    /\ log' = [log EXCEPT ![Outcome(w)] = @ + 1]
    /\ pc' = [pc EXCEPT ![w] = "idle"]
    /\ req' = [req EXCEPT ![w] = None]
    /\ resp' = [resp EXCEPT ![w] = None]
    /\ state' = [state EXCEPT ![w] = "BYPASS"]
    /\ sent' = [sent EXCEPT ![w] = FALSE]
    /\ UNCHANGED <<boot, cache, counters, taken, refused, fetched>>

\* A put of another key evicts the entry of k.
Evict(k) ==
    /\ cache[k] # None
    /\ cache' = [cache EXCEPT ![k] = None]
    /\ UNCHANGED <<boot, pc, req, resp, state, sent, counters, log, taken, refused,
                   fetched>>

Worker(w) ==
    \/ \E r \in scenario.requests : Begin(w, r)
    \/ \E status \in {413, 431} : Refuse(w, status)
    \/ Acl(w) \/ Lookup(w) \/ FetchError(w) \/ Store(w) \/ Send(w) \/ Finish(w)
    \/ \E s, h \in BOOLEAN : FetchOK(w, s, h)

\* The program has ended, or every request of the bound has been served.
Done ==
    /\ phase = "exited" \/ taken = MaxRequests
    /\ \A w \in Workers : pc[w] = "idle"
    /\ UNCHANGED vars

Next ==
    \/ Load
    \/ \E w \in Workers : Worker(w)
    \/ \E k \in Keys : Evict(k)
    \/ Done

Spec == Init /\ [][Next]_vars

------------------------------------------------------------------------------
(* What the file says, as the documentation describes it.                  *)

\* The strings a pattern stands for: "*" any, "*.suffix" what ends in the
\* suffix and its dot, "prefix*" what begins with the prefix, or itself.
Denotes(pattern, v) ==
    \/ pattern = <<"*">>
    \/ pattern = v
    \/ /\ Len(pattern) > 2 /\ SubSeq(pattern, 1, 2) = <<"*", ".">>
       /\ \E n \in 0..Len(v) : v = SubSeq(v, 1, n) \o Tail(pattern)
    \/ /\ Len(pattern) > 1 /\ pattern[Len(pattern)] = "*" /\ pattern[1] # "*"
       /\ \E n \in 0..Len(v) :
              pattern = SubSeq(v, 1, n) \o <<"*">>

\* A line of the file applies to what the client of r asks for; a host is meant
\* whatever port is written with it.
Applies(l, r) ==
    /\ l.verb \in Policies
    /\ CASE l.word = "host"   -> Denotes(to_lower(l.pattern), to_lower(r.means.name))
         [] l.word = "path"   -> Denotes(l.pattern, r.means.path)
         [] l.word = "method" -> Denotes(to_lower(l.pattern), to_lower(Method(r)))

\* "First match wins; if nothing matches, default applies."
Verdict(file, r) ==
    LET first    == {i \in DOMAIN file : /\ Applies(file[i], r)
                                         /\ \A j \in 1..(i - 1) : ~Applies(file[j], r)}
        defaults == {i \in DOMAIN file : file[i].verb = "default"}
    IN  IF first # {} THEN file[CHOOSE i \in first : TRUE].verb
        ELSE IF defaults # {} THEN file[Max(defaults)].word
        ELSE "allow"

\* No rule of the file about hosts has to see through a port.  check() matches
\* the pattern against the host as it is written, port and all.
NamedPlainly(file, r) ==
    \/ r.means.host = r.means.name
    \/ \A i \in DOMAIN file : file[i].verb \in Policies => file[i].word # "host"

WellFormed(l) ==
    \/ l.verb = "default" /\ l.word \in Policies
    \/ l.verb \in Policies /\ l.word \in Fields /\ l.pattern # <<>>
    \/ l.verb = "route" /\ l.pattern # <<>> /\ l.host # <<>> /\ l.port \in PortNumbers

\* Where the file routes the host r's client asks for, if it does.
Routes(file, r) ==
    {i \in DOMAIN file :
        /\ file[i].verb = "route"
        /\ Denotes(to_lower(file[i].pattern), to_lower(r.means.host))}

\* Origin o is where the file sends the client of r: along its first route, or
\* else to the host and port the client names.
IsRight(file, r, o) ==
    IF Routes(file, r) # {}
    THEN LET l == file[Min(Routes(file, r))]
         IN  o = [host |-> l.host, port |-> l.port]
    ELSE to_lower(o.host) = to_lower(r.means.name) /\ o.port = r.means.port

------------------------------------------------------------------------------
(* Clients that keep to HTTP, and files that keep to the documentation.    *)

\* s is a sequence.
IsText(s) == Len(s) \in Nat /\ s = [i \in 1..Len(s) |-> s[i]]
Has(s, c) == \E i \in DOMAIN s : s[i] = c

\* The host a client writes is a name, or a name, a colon and a port; 80 is meant
\* where there is none or it is none.
NamesHost(m) ==
    LET digits == SubSeq(m.host, Len(m.name) + 2, Len(m.host))
    IN  \/ m.host = m.name /\ ~Has(m.name, ":") /\ m.port = 80
        \/ /\ m.host = m.name \o <<":">> \o digits
           /\ digits # <<>> /\ \A i \in DOMAIN digits : IsDigit(digits[i])
           /\ m.port = IF Atoi(digits) \in PortNumbers THEN Atoi(digits) ELSE 80

\* The client of r writes what it means in origin form with a Host header or in
\* absolute form; its host has no slash and its path begins with one.  Without
\* this, requests for two resources can share a key of the cache (see CacheKey).
KeepsToHTTP(r) ==
    LET m == r.means
        target == r.line[2]
    IN  /\ \A s \in {Method(r), m.host, m.name, m.path} : IsText(s)
        /\ ~Has(Method(r), "SP")
        /\ m.host # <<>> /\ ~Has(m.host, "/") /\ NamesHost(m)
        /\ m.path # <<>> /\ m.path[1] = "/"
        /\ \/ target = m.path /\ Header(r, "host") = m.host
           \/ \E scheme \in {"http://", "HTTP://"} :
                 \/ target = <<scheme>> \o m.host \o m.path
                 \/ target = <<scheme>> \o m.host /\ m.path = <<"/">>

ClientsKeepToHTTP ==
    \A s \in Scenarios : \A r \in s.requests : Valid(r) => KeepsToHTTP(r)

\* A pattern with a star at both ends has no documented meaning; "*.a*" is a
\* suffix.
Documented(pattern) ==
    /\ IsText(pattern)
    /\ pattern # <<>> /\ pattern[1] = "*" /\ pattern[Len(pattern)] = "*" =>
          pattern = <<"*">> \/ pattern[2] = "."

FilesAreDocumented ==
    \A s \in Scenarios : \A i \in DOMAIN s.file : Documented(s.file[i].pattern)

------------------------------------------------------------------------------
(* Properties.                                                             *)

At(p) == {w \in Workers : pc[w] = p}

\* The response in hand came from an origin, now or through the cache.
FromOrigin(w) == resp[w] \notin {None, Forbidden, BadGateway, BadRequest}

\* Every request taken from a connection is, exactly once, refused, bad, denied,
\* served from the cache, forwarded, an upstream error, or still on its way to
\* one of these; a request refused with 413 is in none of the counters.
CountersBalance ==
    /\ taken = total_requests + bad_requests + refused[413]
    /\ total_requests = denied_requests + cache_served + forwarded_requests
          + upstream_errors + Cardinality(At("acl") \cup At("lookup") \cup At("fetch"))

\* One log line for every request answered, of the class it was counted in,
\* whether or not its client was still there; none for the 413 and the 431.
LogMatchesCounters ==
    LET pending(o) == Cardinality({w \in At("store") \cup At("send") \cup At("log") :
                                      Outcome(w) = o})
    IN  /\ log["BAD"] + pending("BAD") + refused[431] = bad_requests
        /\ log["DENY"] + pending("DENY") = denied_requests
        /\ log["HIT"] + pending("HIT") = cache_served
        /\ log["ERROR"] + pending("ERROR") = upstream_errors
        /\ log["OK"] + pending("OK") = forwarded_requests

\* The accounts of the proxy balance: the counters add up, and the log agrees
\* with them class by class.  They are the code's: what the documentation says of
\* the log is LineAlways.
AccountsBalance == CountersBalance /\ LogMatchesCounters

\* "One line per request, always -- hit, miss, denial, or malformed"
\* (readme.md:135): a request that is not in a worker's hands has its line.  One
\* that is refused for its size has none.
LineAlways ==
    taken = log["BAD"] + log["DENY"] + log["HIT"] + log["ERROR"] + log["OK"]
              + Cardinality({w \in Workers : pc[w] # "idle"})

\* An entry of the cache is the origin's 200 to a request without Authorization
\* for that very method, host and path, and its headers let a cache keep it.
CacheHoldsPublic ==
    \A k \in Keys : cache[k] # None =>
        /\ CacheKey(cache[k].for) = k
        /\ Method(cache[k].for) \in Cached
        /\ ~cache[k].for.auth /\ cache[k].ok200 /\ cache[k].storable

\* The clients of the two requests ask for the same thing.
SameResource(r, q) ==
    /\ Method(r) = Method(q)
    /\ to_lower(r.means.host) = to_lower(q.means.host)
    /\ r.means.path = q.means.path

\* The response a client gets answers what it asks for, in whichever form, or
\* an equal request without Authorization: never another resource, never what
\* was fetched for another client's credentials.
OwnAnswer ==
    \A w \in Workers : FromOrigin(w) =>
        \/ resp[w].for = req[w]
        \/ SameResource(resp[w].for, req[w]) /\ ~resp[w].for.auth /\ ~req[w].auth

\* The response a client gets came from the origin the file routes its host to,
\* or else from the host and port it names, however the host is spelt, and
\* through the cache too.
RightOrigin ==
    \A w \in Workers : FromOrigin(w) => IsRight(scenario.file, req[w], resp[w].from)

\* The file decides on a request whose host is written without a port, or which
\* no rule about hosts concerns: one it denies is answered with 403 and reaches
\* neither cache nor upstream, whatever other workers have stored meanwhile,
\* and one it allows is not answered with 403.
DeniedStopsHere ==
    /\ \A r \in fetched :
          NamedPlainly(scenario.file, r) => Verdict(scenario.file, r) = "allow"
    /\ \A w \in Workers :
          /\ req[w] # None /\ resp[w] \notin {None, BadRequest}
          /\ NamedPlainly(scenario.file, req[w])
          => (resp[w] = Forbidden) = (Verdict(scenario.file, req[w]) = "deny")

\* The server runs only with rules it has read completely: a typo anywhere in
\* the file ends it before the first request.
FailClosed ==
    phase = "serve" => \A i \in DOMAIN scenario.file : WellFormed(scenario.file[i])
==============================================================================
