------------------------- MODULE ServeRequestProofs -------------------------
(***************************************************************************)
(* Proofs about ServeRequest, for any number of workers, any requests and  *)
(* any configuration files: the accounts balance whatever the workers      *)
(* interleave, the cache holds public responses only, and a file with a    *)
(* mistake ends the program.  For clients that keep to HTTP and files with *)
(* documented patterns, of any length: a response is the client's own and  *)
(* from the right origin, and a refused request goes no further.           *)
(***************************************************************************)
EXTENDS ServeRequest, FiniteSetTheorems, SequenceTheorems, WellFoundedInduction, TLAPS

------------------------------------------------------------------------------
(* The inductive invariant.                                                *)

Stages == {"idle", "acl", "lookup", "fetch", "store", "send", "log"}
Answers == OriginResponses \cup {Forbidden, BadGateway, BadRequest}

ServeType ==
    /\ scenario \in Scenarios
    /\ pc \in [Workers -> Stages]
    /\ req \in [Workers -> Requests \cup {None}]
    /\ resp \in [Workers -> Answers \cup {None}]
    /\ state \in [Workers -> {"HIT", "MISS", "BYPASS"}]
    /\ cache \in [Keys -> OriginResponses \cup {None}]
    /\ {total_requests, denied_requests, cache_served, forwarded_requests,
        upstream_errors, bad_requests, taken} \subseteq Nat
    /\ log \in [Outcomes -> Nat]
    /\ refused \in [{413, 431} -> Nat]

\* The rules in force are the file's, and no worker runs before they are loaded.
Booted ==
    /\ phase \in {"boot", "serve", "exited"}
    /\ phase # "serve" => \A w \in Workers : pc[w] = "idle"
    /\ phase = "serve" => g_acl = load_string(scenario.file) /\ g_acl.ok

\* p answers request r: it was fetched, from where the rules acl route it, for r or
\* for a request of scenario sc with the same key, neither with credentials.
Answering(sc, acl, p, r) ==
    /\ p.from = resolve(acl, Host(p.for))
    /\ \/ p.for = r
       \/ /\ p.for \in sc.requests /\ Valid(p.for)
          /\ CacheKey(p.for) = CacheKey(r) /\ ~p.for.auth /\ ~r.auth

\* What a worker at stage s has in hand under scenario sc and rules acl: request r,
\* response p, cache field f.
InHand(sc, acl, s, r, p, f) ==
    /\ s = "idle" => r = None /\ p = None /\ f = "BYPASS"
    /\ s # "idle" => r \in sc.requests
    /\ s \in {"acl", "lookup", "fetch"} => Valid(r) /\ p = None /\ f # "HIT"
    /\ s \in {"lookup", "fetch"} => Check(acl, r) = "allow"
    /\ s = "store" => /\ Valid(r) /\ Check(acl, r) = "allow"
                      /\ f # "HIT" /\ p \in OriginResponses /\ p.for = r
                      /\ p.from = resolve(acl, Host(r))
    /\ s \in {"send", "log"} =>
          /\ p \in Answers
          /\ p # BadRequest => Valid(r)
          /\ p = Forbidden => Check(acl, r) # "allow"
          /\ p \in OriginResponses \cup {BadGateway} => Check(acl, r) = "allow"
          /\ p \in OriginResponses => Answering(sc, acl, p, r)

Handling ==
    \A w \in Workers : InHand(scenario, g_acl, pc[w], req[w], resp[w], state[w])

\* p may be the entry of key k.
Public(sc, acl, k, p) ==
    /\ p.from = resolve(acl, Host(p.for))
    /\ p.for \in sc.requests /\ Valid(p.for) /\ CacheKey(p.for) = k
    /\ Method(p.for) \in Cached /\ ~p.for.auth /\ p.ok200 /\ p.storable

Stored ==
    \A k \in Keys :
        cache[k] # None => phase = "serve" /\ Public(scenario, g_acl, k, cache[k])

Fetched ==
    \A r \in fetched :
        /\ phase = "serve" /\ r \in scenario.requests /\ Valid(r)
        /\ Check(g_acl, r) = "allow"

\* How the accounts see a worker: its answer's outcome once it has one.
ClassOf(s, p, f) ==
    IF s \in {"store", "send", "log"}
    THEN CASE p = BadRequest -> "BAD"
           [] p = Forbidden -> "DENY"
           [] p = BadGateway -> "ERROR"
           [] OTHER -> IF f = "HIT" THEN "HIT" ELSE "OK"
    ELSE IF s \in {"acl", "lookup", "fetch"} THEN "wait" ELSE "none"

Class == [w \in Workers |-> ClassOf(pc[w], resp[w], state[w])]
Count(cl, o) == Cardinality({w \in Workers : cl[w] = o})
N(o) == Count(Class, o)

Accounts ==
    /\ taken = total_requests + bad_requests + refused[413]
    /\ total_requests = denied_requests + cache_served + forwarded_requests
          + upstream_errors + N("wait")
    /\ log["BAD"] + N("BAD") + refused[431] = bad_requests
    /\ log["DENY"] + N("DENY") = denied_requests
    /\ log["HIT"] + N("HIT") = cache_served
    /\ log["ERROR"] + N("ERROR") = upstream_errors
    /\ log["OK"] + N("OK") = forwarded_requests

IndInv == ServeType /\ Booted /\ Handling /\ Stored /\ Fetched /\ Accounts

------------------------------------------------------------------------------
(* Counting.                                                               *)

LEMMA CountNat == \A cl, o : Count(cl, o) \in Nat
<1> SUFFICES ASSUME NEW cl, NEW o PROVE Count(cl, o) \in Nat
  OBVIOUS
<1>1. IsFiniteSet({w \in Workers : cl[w] = o})
  BY WorkersAssumption, FS_Subset
<1> QED
  BY <1>1, FS_CardinalityType DEF Count

\* One worker goes from one class to another.
LEMMA CountMove ==
    ASSUME NEW cl, NEW cl2, NEW w \in Workers, NEW o,
           \A v \in Workers : v # w => cl2[v] = cl[v]
    PROVE  /\ Count(cl, o) \in Nat
           /\ Count(cl2, o) = IF cl[w] = cl2[w] THEN Count(cl, o)
                              ELSE IF o = cl2[w] THEN Count(cl, o) + 1
                              ELSE IF o = cl[w] THEN Count(cl, o) - 1
                              ELSE Count(cl, o)
<1> DEFINE A == {v \in Workers : cl[v] = o}
           B == {v \in Workers : cl2[v] = o}
<1>0. Count(cl, o) = Cardinality(A) /\ Count(cl2, o) = Cardinality(B)
  BY DEF Count
<1>1. IsFiniteSet(A) /\ IsFiniteSet(B)
  BY WorkersAssumption, FS_Subset
<1>2. Cardinality(A) \in Nat /\ Cardinality(B) \in Nat
  BY <1>1, FS_CardinalityType
<1>3. CASE cl[w] = cl2[w] \/ (o # cl2[w] /\ o # cl[w])
  <2>1. A = B
    BY <1>3
  <2> QED
    BY <1>0, <1>2, <1>3, <2>1
<1>4. CASE cl[w] # cl2[w] /\ o = cl2[w]
  <2>1. B = A \cup {w} /\ w \notin A
    BY <1>4
  <2> HIDE DEF A, B
  <2>2. Cardinality(B) = Cardinality(A) + 1
    BY <1>1, <2>1, FS_AddElement
  <2> QED
    BY <1>0, <1>2, <1>4, <2>2 DEF A, B
<1>5. CASE cl[w] # cl2[w] /\ o = cl[w]
  <2>1. B = A \ {w} /\ w \in A
    BY <1>5
  <2> HIDE DEF A, B
  <2>2. Cardinality(B) = Cardinality(A) - 1
    BY <1>1, <2>1, FS_RemoveElement
  <2> QED
    BY <1>0, <1>2, <1>5, <2>2 DEF A, B
<1> QED
  BY <1>3, <1>4, <1>5

\* The same for the workers' classes, when the step is a step of worker w.
LEMMA ClassMoves ==
    ASSUME NEW w \in Workers, NEW c1, NEW c2, Class[w] = c1, Class'[w] = c2,
           \A v \in Workers : v # w => Class'[v] = Class[v]
    PROVE  \A o : /\ N(o) \in Nat
                  /\ N(o)' = IF c1 = c2 THEN N(o) ELSE IF o = c2 THEN N(o) + 1
                             ELSE IF o = c1 THEN N(o) - 1 ELSE N(o)
<1> SUFFICES ASSUME NEW o
             PROVE  /\ Count(Class, o) \in Nat
                    /\ Count(Class', o) = IF c1 = c2 THEN Count(Class, o)
                                          ELSE IF o = c2 THEN Count(Class, o) + 1
                                          ELSE IF o = c1 THEN Count(Class, o) - 1
                                          ELSE Count(Class, o)
  BY DEF N
<1> QED
  BY CountMove

\* A step of worker w alone changes no other worker's class.
LEMMA OthersKeepClass ==
    ASSUME ServeType, NEW w \in Workers, NEW s, NEW p, NEW f,
           pc' = [pc EXCEPT ![w] = s], resp' = [resp EXCEPT ![w] = p],
           state' = [state EXCEPT ![w] = f]
    PROVE  /\ Class[w] = ClassOf(pc[w], resp[w], state[w])
           /\ Class'[w] = ClassOf(s, p, f)
           /\ \A v \in Workers : v # w => Class'[v] = Class[v]
  BY DEF ServeType, Class

------------------------------------------------------------------------------
(* The invariant is inductive.                                             *)

\* What holds while the counters' types do.
Countable ==
    /\ {total_requests, denied_requests, cache_served, forwarded_requests,
        upstream_errors, bad_requests, taken} \subseteq Nat
    /\ log \in [Outcomes -> Nat]
    /\ refused \in [{413, 431} -> Nat]

\* Worker w goes to stage s with request r, response p and cache field f in hand.
Moves(w, s, r, p, f) ==
    /\ phase = "serve" /\ UNCHANGED boot
    /\ pc' = [pc EXCEPT ![w] = s] /\ req' = [req EXCEPT ![w] = r]
    /\ resp' = [resp EXCEPT ![w] = p] /\ state' = [state EXCEPT ![w] = f]
    /\ s \in Stages /\ r \in Requests \cup {None} /\ p \in Answers \cup {None}
    /\ f \in {"HIT", "MISS", "BYPASS"}
    /\ InHand(scenario, g_acl, s, r, p, f)

\* What such a step does to the workers, and to the classes they are counted in.
LEMMA WorkerStep ==
    ASSUME ServeType, Booted, Handling, NEW w \in Workers,
           NEW s, NEW r, NEW p, NEW f, Moves(w, s, r, p, f),
           NEW c1, c1 = ClassOf(pc[w], resp[w], state[w]), NEW c2, c2 = ClassOf(s, p, f)
    PROVE  /\ scenario' \in Scenarios
           /\ pc' \in [Workers -> Stages] /\ req' \in [Workers -> Requests \cup {None}]
           /\ resp' \in [Workers -> Answers \cup {None}]
           /\ state' \in [Workers -> {"HIT", "MISS", "BYPASS"}]
           /\ Booted' /\ Handling'
           /\ \A o : /\ N(o) \in Nat
                     /\ N(o)' = IF c1 = c2 THEN N(o) ELSE IF o = c2 THEN N(o) + 1
                                ELSE IF o = c1 THEN N(o) - 1 ELSE N(o)
<1>1. /\ scenario' \in Scenarios
      /\ pc' \in [Workers -> Stages] /\ req' \in [Workers -> Requests \cup {None}]
      /\ resp' \in [Workers -> Answers \cup {None}]
      /\ state' \in [Workers -> {"HIT", "MISS", "BYPASS"}]
  BY DEF ServeType, Moves, boot
<1>2. Booted'
  BY DEF Booted, Moves, boot
<1>3. Handling'
  <2> SUFFICES ASSUME NEW v \in Workers
               PROVE  InHand(scenario', g_acl', pc'[v], req'[v], resp'[v], state'[v])
    BY DEF Handling
  <2>1. scenario' = scenario /\ g_acl' = g_acl
    BY DEF Moves, boot
  <2>2. CASE v = w
    <3>1. pc'[v] = s /\ req'[v] = r /\ resp'[v] = p /\ state'[v] = f
      BY <2>2 DEF Moves, ServeType
    <3> QED
      BY <2>1, <3>1 DEF Moves
  <2>3. CASE v # w
    <3>1. pc'[v] = pc[v] /\ req'[v] = req[v] /\ resp'[v] = resp[v] /\ state'[v] = state[v]
      BY <2>3 DEF Moves, ServeType
    <3> QED
      BY <2>1, <3>1 DEF Handling
  <2> QED
    BY <2>2, <2>3
<1>4. /\ Class[w] = c1 /\ Class'[w] = c2
      /\ \A v \in Workers : v # w => Class'[v] = Class[v]
  <2>1. /\ pc' = [pc EXCEPT ![w] = s] /\ resp' = [resp EXCEPT ![w] = p]
        /\ state' = [state EXCEPT ![w] = f]
    BY DEF Moves
  <2>2. /\ Class[w] = ClassOf(pc[w], resp[w], state[w])
        /\ Class'[w] = ClassOf(s, p, f)
        /\ \A v \in Workers : v # w => Class'[v] = Class[v]
    BY <2>1, OthersKeepClass, Zenon
  <2> QED
    BY <2>2
<1>5. \A o : /\ N(o) \in Nat
             /\ N(o)' = IF c1 = c2 THEN N(o) ELSE IF o = c2 THEN N(o) + 1
                        ELSE IF o = c1 THEN N(o) - 1 ELSE N(o)
  BY <1>4, ClassMoves
<1> QED
  BY <1>1, <1>2, <1>3, <1>5

\* The cache and the history of fetches keep what is said of them.
LEMMA QuietStore ==
    ASSUME Stored, Fetched, UNCHANGED <<boot, cache, fetched>>
    PROVE  Stored' /\ Fetched'
  BY DEF Stored, Fetched, boot

LEMMA InitInv == Init => IndInv
<1> SUFFICES ASSUME Init PROVE IndInv
  OBVIOUS
<1>1. ServeType
  BY DEF Init, ServeType, Stages, Outcomes
<1>2. Booted /\ Handling /\ Stored /\ Fetched
  BY DEF Init, Booted, Handling, InHand, Stored, Fetched
<1>3. \A w \in Workers : Class[w] = "none"
  BY DEF Init, Class, ClassOf
<1>4. \A o \in Outcomes \cup {"wait"} : N(o) = 0
  <2> SUFFICES ASSUME NEW o \in Outcomes \cup {"wait"} PROVE N(o) = 0
    OBVIOUS
  <2>1. {w \in Workers : Class[w] = o} = {}
    BY <1>3 DEF Outcomes
  <2> QED
    BY <2>1, FS_EmptySet DEF N, Count
<1>5. Accounts
  BY <1>4 DEF Init, Accounts, Outcomes
<1> QED
  BY <1>1, <1>2, <1>5 DEF IndInv

\* A step of worker w of that kind, whose counters, cache and fetches are in order.
LEMMA StepInv ==
    ASSUME IndInv, NEW w \in Workers, NEW s, NEW r, NEW p, NEW f, Moves(w, s, r, p, f),
           Countable', cache' \in [Keys -> OriginResponses \cup {None}],
           Stored', Fetched', Accounts'
    PROVE  IndInv'
<1>1. ServeType /\ Booted /\ Handling
  BY DEF IndInv
<1>2. /\ scenario' \in Scenarios
      /\ pc' \in [Workers -> Stages] /\ req' \in [Workers -> Requests \cup {None}]
      /\ resp' \in [Workers -> Answers \cup {None}]
      /\ state' \in [Workers -> {"HIT", "MISS", "BYPASS"}]
      /\ Booted' /\ Handling'
  BY <1>1, WorkerStep
<1>3. ServeType'
  BY <1>2 DEF ServeType, Countable
<1> QED
  BY <1>2, <1>3 DEF IndInv

\* The parts of the invariant that every action uses.
LEMMA Facts ==
    ASSUME IndInv, NEW w \in Workers
    PROVE  /\ ServeType /\ Booted /\ Handling /\ Stored /\ Fetched /\ Accounts /\ Countable
           /\ InHand(scenario, g_acl, pc[w], req[w], resp[w], state[w])
           /\ pc[w] # "idle" => phase = "serve"
           /\ req = [req EXCEPT ![w] = req[w]] /\ resp = [resp EXCEPT ![w] = resp[w]]
           /\ state = [state EXCEPT ![w] = state[w]] /\ pc = [pc EXCEPT ![w] = pc[w]]
           /\ pc[w] \in Stages /\ req[w] \in Requests \cup {None}
           /\ resp[w] \in Answers \cup {None} /\ state[w] \in {"HIT", "MISS", "BYPASS"}
           /\ scenario.requests \subseteq Requests
           /\ \A r \in scenario.requests : Valid(r) => CacheKey(r) \in Keys
           /\ cache \in [Keys -> OriginResponses \cup {None}]
<1>1. ServeType /\ Booted /\ Handling /\ Stored /\ Fetched /\ Accounts
  BY DEF IndInv
<1>2. Countable
  BY <1>1 DEF ServeType, Countable
<1>3. /\ InHand(scenario, g_acl, pc[w], req[w], resp[w], state[w])
      /\ pc[w] # "idle" => phase = "serve"
  BY <1>1 DEF Handling, Booted
<1>4. /\ pc \in [Workers -> Stages] /\ req \in [Workers -> Requests \cup {None}]
      /\ resp \in [Workers -> Answers \cup {None}]
      /\ state \in [Workers -> {"HIT", "MISS", "BYPASS"}]
      /\ cache \in [Keys -> OriginResponses \cup {None}] /\ scenario \in Scenarios
  BY <1>1 DEF ServeType
<1>5. /\ req = [req EXCEPT ![w] = req[w]] /\ resp = [resp EXCEPT ![w] = resp[w]]
      /\ state = [state EXCEPT ![w] = state[w]] /\ pc = [pc EXCEPT ![w] = pc[w]]
      /\ pc[w] \in Stages /\ req[w] \in Requests \cup {None}
      /\ resp[w] \in Answers \cup {None} /\ state[w] \in {"HIT", "MISS", "BYPASS"}
  BY <1>4
<1>6. scenario.requests \subseteq Requests
  BY <1>4 DEF Requests
<1>7. \A r \in scenario.requests : Valid(r) => CacheKey(r) \in Keys
  BY <1>6 DEF Keys
<1> QED
  BY <1>1, <1>2, <1>3, <1>4, <1>5, <1>6, <1>7

\* A step of w that moves it from class c1 to class c2.
LEMMA Counted ==
    ASSUME IndInv, NEW w \in Workers,
           NEW s, NEW r, NEW p, NEW f, Moves(w, s, r, p, f),
           NEW c1, c1 = ClassOf(pc[w], resp[w], state[w]), NEW c2, c2 = ClassOf(s, p, f)
    PROVE  \A o : /\ N(o) \in Nat
                  /\ N(o)' = IF c1 = c2 THEN N(o) ELSE IF o = c2 THEN N(o) + 1
                             ELSE IF o = c1 THEN N(o) - 1 ELSE N(o)
<1>1. ServeType /\ Booted /\ Handling
  BY DEF IndInv
<1> QED
  BY <1>1, WorkerStep

\* A request is taken from a connection: it waits, or gets 400.
LEMMA BeginInv ==
    ASSUME IndInv, NEW w \in Workers, NEW r \in scenario.requests, Begin(w, r)
    PROVE  IndInv'
<1>1. /\ InHand(scenario, g_acl, pc[w], req[w], resp[w], state[w]) /\ Countable /\ Accounts
      /\ resp = [resp EXCEPT ![w] = resp[w]] /\ state = [state EXCEPT ![w] = state[w]]
      /\ r \in Requests /\ Stored /\ Fetched
      /\ cache \in [Keys -> OriginResponses \cup {None}]
  BY Facts
<1>2. /\ phase = "serve" /\ pc[w] = "idle" /\ taken' = taken + 1
      /\ req' = [req EXCEPT ![w] = r]
      /\ UNCHANGED <<boot, state, cache, denied_requests, cache_served,
                     forwarded_requests, upstream_errors, log, refused, fetched>>
  BY DEF Begin
<1>3. resp[w] = None /\ state[w] = "BYPASS"
  BY <1>1, <1>2 DEF InHand
<1>4. Stored' /\ Fetched' /\ cache' \in [Keys -> OriginResponses \cup {None}]
  BY <1>1, <1>2, QuietStore
<1>5. ClassOf(pc[w], resp[w], state[w]) = "none"
  BY <1>2 DEF ClassOf
<1>6. CASE Valid(r)
  <2>1. /\ total_requests' = total_requests + 1 /\ pc' = [pc EXCEPT ![w] = "acl"]
        /\ bad_requests' = bad_requests /\ resp' = resp
    BY <1>6 DEF Begin
  <2>2. Moves(w, "acl", r, resp[w], state[w])
    BY <1>1, <1>2, <1>3, <1>6, <2>1 DEF Moves, InHand, Stages
  <2>3. ClassOf("acl", resp[w], state[w]) = "wait"
    BY DEF ClassOf
  <2>4. /\ N("wait") \in Nat /\ N("wait")' = N("wait") + 1
        /\ N("BAD")' = N("BAD") /\ N("DENY")' = N("DENY") /\ N("HIT")' = N("HIT")
        /\ N("ERROR")' = N("ERROR") /\ N("OK")' = N("OK")
    BY <1>5, <2>2, <2>3, Counted
  <2>5. Accounts'
    BY <1>1, <1>2, <2>1, <2>4 DEF Accounts, Countable
  <2>6. Countable'
    BY <1>1, <1>2, <2>1 DEF Countable
  <2> QED
    BY <1>4, <2>2, <2>5, <2>6, StepInv
<1>7. CASE ~Valid(r)
  <2>1. /\ bad_requests' = bad_requests + 1 /\ pc' = [pc EXCEPT ![w] = "send"]
        /\ total_requests' = total_requests /\ resp' = [resp EXCEPT ![w] = BadRequest]
    BY <1>7 DEF Begin
  <2>2. Moves(w, "send", r, BadRequest, state[w])
    BY <1>1, <1>2, <1>3, <1>7, <2>1, AnswersAssumption DEF Moves, InHand, Stages, Answers
  <2>3. ClassOf("send", BadRequest, state[w]) = "BAD"
    BY AnswersAssumption DEF ClassOf
  <2>4. /\ N("BAD") \in Nat /\ N("BAD")' = N("BAD") + 1
        /\ N("wait")' = N("wait") /\ N("DENY")' = N("DENY") /\ N("HIT")' = N("HIT")
        /\ N("ERROR")' = N("ERROR") /\ N("OK")' = N("OK")
    BY <1>5, <2>2, <2>3, Counted
  <2>5. Accounts'
    BY <1>1, <1>2, <2>1, <2>4 DEF Accounts, Countable, Outcomes
  <2>6. Countable'
    BY <1>1, <1>2, <2>1 DEF Countable
  <2> QED
    BY <1>4, <2>2, <2>5, <2>6, StepInv
<1> QED
  BY <1>6, <1>7

\* A request too large is refused: no worker moves.
LEMMA RefuseInv ==
    ASSUME IndInv, NEW w \in Workers, NEW st \in {413, 431}, Refuse(w, st)
    PROVE  IndInv'
<1>1. ServeType /\ Booted /\ Handling /\ Stored /\ Fetched /\ Accounts /\ Countable
  BY Facts
<1>2. /\ taken' = taken + 1 /\ refused' = [refused EXCEPT ![st] = @ + 1]
      /\ bad_requests' = bad_requests + (IF st = 431 THEN 1 ELSE 0)
      /\ UNCHANGED <<boot, pc, req, resp, state, sent, cache, total_requests,
                     denied_requests, cache_served, forwarded_requests,
                     upstream_errors, log, fetched>>
  BY DEF Refuse
<1>3. Class' = Class /\ \A o : N(o)' = N(o)
  BY <1>2 DEF Class, N
<1>4. Countable'
  BY <1>1, <1>2 DEF Countable
<1>5. Accounts'
  <2>1. \A o : N(o) \in Nat
    BY CountNat DEF N
  <2>2. /\ log["BAD"] \in Nat /\ refused[413] \in Nat /\ refused[431] \in Nat
        /\ total_requests \in Nat /\ bad_requests \in Nat /\ taken \in Nat
    BY <1>1 DEF Countable, Outcomes
  <2>3. CASE st = 413
    <3>1. /\ refused'[413] = refused[413] + 1 /\ refused'[431] = refused[431]
          /\ bad_requests' = bad_requests
      BY <1>1, <1>2, <2>2, <2>3 DEF Countable
    <3> QED
      BY <1>1, <1>2, <1>3, <2>1, <2>2, <3>1 DEF Accounts
  <2>4. CASE st = 431
    <3>1. /\ refused'[413] = refused[413] /\ refused'[431] = refused[431] + 1
          /\ bad_requests' = bad_requests + 1
      BY <1>1, <1>2, <2>2, <2>4 DEF Countable
    <3> QED
      BY <1>1, <1>2, <1>3, <2>1, <2>2, <3>1 DEF Accounts
  <2> QED
    BY <2>3, <2>4
<1>6. Stored' /\ Fetched'
  BY <1>1, <1>2, QuietStore
<1>7. ServeType' /\ Booted' /\ Handling'
  BY <1>1, <1>2, <1>4 DEF ServeType, Countable, Booted, Handling, boot
<1> QED
  BY <1>5, <1>6, <1>7 DEF IndInv

\* Access control lets the request through, or answers it with 403.
LEMMA AclInv ==
    ASSUME IndInv, NEW w \in Workers, Acl(w)
    PROVE  IndInv'
<1>1. /\ InHand(scenario, g_acl, pc[w], req[w], resp[w], state[w]) /\ Countable /\ Accounts
      /\ resp = [resp EXCEPT ![w] = resp[w]] /\ state = [state EXCEPT ![w] = state[w]]
      /\ req = [req EXCEPT ![w] = req[w]] /\ Stored /\ Fetched
      /\ req[w] \in Requests \cup {None} /\ resp[w] \in Answers \cup {None}
      /\ state[w] \in {"HIT", "MISS", "BYPASS"}
      /\ cache \in [Keys -> OriginResponses \cup {None}]
      /\ pc[w] # "idle" => phase = "serve"
  BY Facts
<1>2. /\ pc[w] = "acl"
      /\ UNCHANGED <<boot, req, state, cache, total_requests, cache_served,
                     forwarded_requests, upstream_errors, bad_requests, log, taken,
                     refused, fetched>>
  BY DEF Acl
<1>3. req[w] \in scenario.requests /\ Valid(req[w]) /\ resp[w] = None /\ state[w] # "HIT"
  BY <1>1, <1>2 DEF InHand
<1>4. Stored' /\ Fetched' /\ cache' \in [Keys -> OriginResponses \cup {None}]
  BY <1>1, <1>2, QuietStore
<1>5. ClassOf(pc[w], resp[w], state[w]) = "wait"
  BY <1>2 DEF ClassOf
<1>6. CASE Check(g_acl, req[w]) = "allow"
  <2>1. pc' = [pc EXCEPT ![w] = "lookup"] /\ resp' = resp /\ denied_requests' = denied_requests
    BY <1>6 DEF Acl
  <2>2. Moves(w, "lookup", req[w], resp[w], state[w])
    BY <1>1, <1>2, <1>3, <1>6, <2>1 DEF Moves, InHand, Stages
  <2>3. ClassOf("lookup", resp[w], state[w]) = "wait"
    BY DEF ClassOf
  <2>4. \A o : N(o)' = N(o)
    BY <1>5, <2>2, <2>3, Counted
  <2>5. Accounts'
    BY <1>1, <1>2, <2>1, <2>4 DEF Accounts
  <2>6. Countable'
    BY <1>1, <1>2, <2>1 DEF Countable
  <2> QED
    BY <1>4, <2>2, <2>5, <2>6, StepInv
<1>7. CASE Check(g_acl, req[w]) # "allow"
  <2>1. /\ denied_requests' = denied_requests + 1 /\ pc' = [pc EXCEPT ![w] = "send"]
        /\ resp' = [resp EXCEPT ![w] = Forbidden]
    BY <1>7 DEF Acl
  <2>2. Moves(w, "send", req[w], Forbidden, state[w])
    BY <1>1, <1>2, <1>3, <1>7, <2>1, AnswersAssumption DEF Moves, InHand, Stages, Answers
  <2>3. ClassOf("send", Forbidden, state[w]) = "DENY"
    BY AnswersAssumption DEF ClassOf
  <2>4. /\ N("wait") \in Nat /\ N("DENY") \in Nat
        /\ N("wait")' = N("wait") - 1 /\ N("DENY")' = N("DENY") + 1
        /\ N("BAD")' = N("BAD") /\ N("HIT")' = N("HIT")
        /\ N("ERROR")' = N("ERROR") /\ N("OK")' = N("OK")
    BY <1>5, <2>2, <2>3, Counted
  <2>5. Accounts'
    BY <1>1, <1>2, <2>1, <2>4 DEF Accounts, Countable, Outcomes
  <2>6. Countable'
    BY <1>1, <1>2, <2>1 DEF Countable
  <2> QED
    BY <1>4, <2>2, <2>5, <2>6, StepInv
<1> QED
  BY <1>6, <1>7

\* The cache is asked: a hit is an answer to the same key.
LEMMA LookupInv ==
    ASSUME IndInv, NEW w \in Workers, Lookup(w)
    PROVE  IndInv'
<1> DEFINE r == req[w]
           k == CacheKey(r)
<1>1. /\ InHand(scenario, g_acl, pc[w], req[w], resp[w], state[w]) /\ Countable /\ Accounts
      /\ resp = [resp EXCEPT ![w] = resp[w]]
      /\ req = [req EXCEPT ![w] = req[w]] /\ Stored /\ Fetched
      /\ req[w] \in Requests \cup {None} /\ resp[w] \in Answers \cup {None}
      /\ cache \in [Keys -> OriginResponses \cup {None}]
      /\ pc[w] # "idle" => phase = "serve"
  BY Facts
<1>2. /\ pc[w] = "lookup"
      /\ UNCHANGED <<boot, req, cache, total_requests, denied_requests,
                     forwarded_requests, upstream_errors, bad_requests, log, taken,
                     refused, fetched>>
  BY DEF Lookup
<1>3. /\ r \in scenario.requests /\ Valid(r) /\ resp[w] = None
      /\ Check(g_acl, r) = "allow"
  BY <1>1, <1>2 DEF InHand
<1>4. Stored' /\ Fetched' /\ cache' \in [Keys -> OriginResponses \cup {None}]
  BY <1>1, <1>2, QuietStore
<1>5. ClassOf(pc[w], resp[w], state[w]) = "wait"
  BY <1>2 DEF ClassOf
<1>6. CASE CacheableRequest(r) /\ cache[k] # None
  <2>1. /\ cache_served' = cache_served + 1 /\ pc' = [pc EXCEPT ![w] = "send"]
        /\ resp' = [resp EXCEPT ![w] = cache[k]] /\ state' = [state EXCEPT ![w] = "HIT"]
    BY <1>6 DEF Lookup
  <2>2. k \in Keys
    BY <1>3, Facts
  <2>3. cache[k] \in OriginResponses /\ Public(scenario, g_acl, k, cache[k])
    BY <1>1, <1>6, <2>2 DEF Stored
  <2>4. Answering(scenario, g_acl, cache[k], r)
    BY <1>6, <2>3 DEF Answering, Public, CacheableRequest
  <2>5. /\ cache[k] \in Answers /\ cache[k] # BadRequest /\ cache[k] # Forbidden
        /\ cache[k] # BadGateway
    BY <2>3, AnswersAssumption DEF Answers
  <2>6. Moves(w, "send", r, cache[k], "HIT")
    BY <1>1, <1>2, <1>3, <2>1, <2>3, <2>4, <2>5 DEF Moves, InHand, Stages
  <2>7. ClassOf("send", cache[k], "HIT") = "HIT"
    BY <2>5 DEF ClassOf
  <2>8. /\ N("wait") \in Nat /\ N("HIT") \in Nat
        /\ N("wait")' = N("wait") - 1 /\ N("HIT")' = N("HIT") + 1
        /\ N("BAD")' = N("BAD") /\ N("DENY")' = N("DENY")
        /\ N("ERROR")' = N("ERROR") /\ N("OK")' = N("OK")
    BY <1>5, <2>6, <2>7, Counted
  <2>9. Accounts'
    BY <1>1, <1>2, <2>1, <2>8 DEF Accounts, Countable, Outcomes
  <2>10. Countable'
    BY <1>1, <1>2, <2>1 DEF Countable
  <2> QED
    BY <1>4, <2>6, <2>9, <2>10, StepInv
<1>7. CASE ~ (CacheableRequest(r) /\ cache[k] # None)
  <2>1. PICK f \in {"MISS", "BYPASS"} :
            /\ pc' = [pc EXCEPT ![w] = "fetch"] /\ state' = [state EXCEPT ![w] = f]
            /\ resp' = resp /\ cache_served' = cache_served
    BY <1>7 DEF Lookup
  <2>2. Moves(w, "fetch", r, resp[w], f)
    BY <1>1, <1>2, <1>3, <2>1 DEF Moves, InHand, Stages
  <2>3. ClassOf("fetch", resp[w], f) = "wait"
    BY DEF ClassOf
  <2>4. \A o : N(o)' = N(o)
    BY <1>5, <2>2, <2>3, Counted
  <2>5. Accounts'
    BY <1>1, <1>2, <2>1, <2>4 DEF Accounts
  <2>6. Countable'
    BY <1>1, <1>2, <2>1 DEF Countable
  <2> QED
    BY <1>4, <2>2, <2>5, <2>6, StepInv
<1> QED
  BY <1>6, <1>7

\* The fetch fails: 502.
LEMMA FetchErrorInv ==
    ASSUME IndInv, NEW w \in Workers, FetchError(w)
    PROVE  IndInv'
<1>1. /\ InHand(scenario, g_acl, pc[w], req[w], resp[w], state[w]) /\ Countable /\ Accounts
      /\ state = [state EXCEPT ![w] = state[w]]
      /\ req = [req EXCEPT ![w] = req[w]] /\ Stored /\ Fetched
      /\ req[w] \in Requests \cup {None} /\ state[w] \in {"HIT", "MISS", "BYPASS"}
      /\ cache \in [Keys -> OriginResponses \cup {None}]
      /\ pc[w] # "idle" => phase = "serve"
  BY Facts
<1>2. /\ pc[w] = "fetch" /\ fetched' = fetched \cup {req[w]}
      /\ upstream_errors' = upstream_errors + 1
      /\ resp' = [resp EXCEPT ![w] = BadGateway] /\ pc' = [pc EXCEPT ![w] = "send"]
      /\ UNCHANGED <<boot, req, state, cache, total_requests, denied_requests,
                     cache_served, forwarded_requests, bad_requests, log, taken, refused>>
  BY DEF FetchError
<1>3. /\ req[w] \in scenario.requests /\ Valid(req[w]) /\ Check(g_acl, req[w]) = "allow"
      /\ phase = "serve"
  BY <1>1, <1>2 DEF InHand
<1>4. Stored' /\ Fetched' /\ cache' \in [Keys -> OriginResponses \cup {None}]
  BY <1>1, <1>2, <1>3 DEF Stored, Fetched, boot
<1>5. ClassOf(pc[w], resp[w], state[w]) = "wait"
  BY <1>2 DEF ClassOf
<1>6. Moves(w, "send", req[w], BadGateway, state[w])
  BY <1>1, <1>2, <1>3, AnswersAssumption DEF Moves, InHand, Stages, Answers
<1>7. ClassOf("send", BadGateway, state[w]) = "ERROR"
  BY AnswersAssumption DEF ClassOf
<1>8. /\ N("wait") \in Nat /\ N("ERROR") \in Nat
      /\ N("wait")' = N("wait") - 1 /\ N("ERROR")' = N("ERROR") + 1
      /\ N("BAD")' = N("BAD") /\ N("DENY")' = N("DENY")
      /\ N("HIT")' = N("HIT") /\ N("OK")' = N("OK")
  BY <1>5, <1>6, <1>7, Counted
<1>9. Accounts'
  BY <1>1, <1>2, <1>8 DEF Accounts, Countable, Outcomes
<1>10. Countable'
  BY <1>1, <1>2 DEF Countable
<1> QED
  BY <1>4, <1>6, <1>9, <1>10, StepInv

\* The origin answers.
LEMMA FetchOKInv ==
    ASSUME IndInv, NEW w \in Workers, NEW s \in BOOLEAN, NEW h \in BOOLEAN, FetchOK(w, s, h)
    PROVE  IndInv'
<1> DEFINE p == Response(req[w], s, h)
<1>1. /\ InHand(scenario, g_acl, pc[w], req[w], resp[w], state[w]) /\ Countable /\ Accounts
      /\ state = [state EXCEPT ![w] = state[w]] /\ ServeType /\ Booted
      /\ req = [req EXCEPT ![w] = req[w]] /\ Stored /\ Fetched
      /\ req[w] \in Requests \cup {None} /\ state[w] \in {"HIT", "MISS", "BYPASS"}
      /\ cache \in [Keys -> OriginResponses \cup {None}]
      /\ pc[w] # "idle" => phase = "serve" /\ scenario.requests \subseteq Requests
  BY Facts
<1>2. /\ pc[w] = "fetch" /\ fetched' = fetched \cup {req[w]}
      /\ forwarded_requests' = forwarded_requests + 1
      /\ resp' = [resp EXCEPT ![w] = p] /\ pc' = [pc EXCEPT ![w] = "store"]
      /\ UNCHANGED <<boot, req, state, cache, total_requests, denied_requests,
                     cache_served, upstream_errors, bad_requests, log, taken, refused>>
  BY DEF FetchOK
<1>3. /\ req[w] \in scenario.requests /\ Valid(req[w]) /\ Check(g_acl, req[w]) = "allow"
      /\ phase = "serve" /\ state[w] # "HIT"
  BY <1>1, <1>2 DEF InHand
<1>4. Stored' /\ Fetched' /\ cache' \in [Keys -> OriginResponses \cup {None}]
  BY <1>1, <1>2, <1>3 DEF Stored, Fetched, boot
<1>5. ClassOf(pc[w], resp[w], state[w]) = "wait"
  BY <1>2 DEF ClassOf
<1>6. /\ p \in OriginResponses /\ p.for = req[w]
      /\ p.from = resolve(g_acl, Host(req[w]))
  <2>1. g_acl = load_string(scenario.file) /\ scenario \in Scenarios
    BY <1>1, <1>3 DEF Booted, ServeType
  <2>2. resolve(g_acl, Host(req[w])) \in Origins
    BY <1>3, <2>1 DEF Origins
  <2>3. req[w] \in Requests
    BY <1>1, <1>2, <1>3
  <2> QED
    BY <2>2, <2>3 DEF Response, OriginResponses
<1> HIDE DEF p
<1>7. p \in Answers /\ p # BadRequest /\ p # Forbidden /\ p # BadGateway
  BY <1>6, AnswersAssumption DEF Answers
<1>8. Moves(w, "store", req[w], p, state[w])
  BY <1>1, <1>2, <1>3, <1>6, <1>7 DEF Moves, InHand, Stages
<1>9. ClassOf("store", p, state[w]) = "OK"
  BY <1>3, <1>7 DEF ClassOf
<1>10. /\ N("wait") \in Nat /\ N("OK") \in Nat
       /\ N("wait")' = N("wait") - 1 /\ N("OK")' = N("OK") + 1
       /\ N("BAD")' = N("BAD") /\ N("DENY")' = N("DENY")
       /\ N("HIT")' = N("HIT") /\ N("ERROR")' = N("ERROR")
  BY <1>5, <1>8, <1>9, Counted
<1>11. Accounts'
  BY <1>1, <1>2, <1>10 DEF Accounts, Countable, Outcomes
<1>12. Countable'
  BY <1>1, <1>2 DEF Countable
<1> QED
  BY <1>4, <1>8, <1>11, <1>12, StepInv

\* The response is put into the cache, if it may be.
LEMMA StoreInv ==
    ASSUME IndInv, NEW w \in Workers, Store(w)
    PROVE  IndInv'
<1> DEFINE r == req[w]
           p == resp[w]
           k == CacheKey(r)
<1>1. /\ InHand(scenario, g_acl, pc[w], req[w], resp[w], state[w]) /\ Countable /\ Accounts
      /\ state = [state EXCEPT ![w] = state[w]] /\ resp = [resp EXCEPT ![w] = resp[w]]
      /\ req = [req EXCEPT ![w] = req[w]] /\ Stored /\ Fetched
      /\ req[w] \in Requests \cup {None} /\ state[w] \in {"HIT", "MISS", "BYPASS"}
      /\ cache \in [Keys -> OriginResponses \cup {None}] /\ resp[w] \in Answers \cup {None}
      /\ pc[w] # "idle" => phase = "serve"
  BY Facts
<1>2. /\ pc[w] = "store" /\ pc' = [pc EXCEPT ![w] = "send"]
      /\ cache' = IF CacheableRequest(r) /\ IsCacheable(r, p)
                  THEN [cache EXCEPT ![k] = p] ELSE cache
      /\ UNCHANGED <<boot, req, resp, state, counters, log, taken, refused, fetched>>
  BY DEF Store
<1>3. /\ r \in scenario.requests /\ Valid(r) /\ Check(g_acl, r) = "allow"
      /\ state[w] # "HIT" /\ p \in OriginResponses /\ p.for = r
      /\ p.from = resolve(g_acl, Host(r)) /\ phase = "serve"
  BY <1>1, <1>2 DEF InHand
<1>4. k \in Keys
  BY <1>3, Facts
<1>5. cache' \in [Keys -> OriginResponses \cup {None}]
  BY <1>1, <1>2, <1>3
<1>6. Stored'
  <2>1. scenario' = scenario /\ g_acl' = g_acl /\ phase' = phase
    BY <1>2 DEF boot
  <2>2. CASE CacheableRequest(r) /\ IsCacheable(r, p)
    <3>1. cache' = [cache EXCEPT ![k] = p]
      BY <1>2, <2>2
    <3>2. Public(scenario, g_acl, k, p)
      BY <1>3, <2>2 DEF Public, IsCacheable, CacheableRequest
    <3> HIDE DEF k, p
    <3>3. \A j \in Keys : cache'[j] = IF j = k THEN p ELSE cache[j]
      BY <1>1, <3>1
    <3> QED
      BY <1>1, <1>3, <2>1, <3>2, <3>3 DEF Stored
  <2>3. CASE ~ (CacheableRequest(r) /\ IsCacheable(r, p))
    <3>1. cache' = cache
      BY <1>2, <2>3
    <3> QED
      BY <1>1, <2>1, <3>1 DEF Stored
  <2> QED
    BY <2>2, <2>3
<1>7. Fetched'
  BY <1>1, <1>2 DEF Fetched, boot
<1>8. p \in Answers /\ p # BadRequest /\ p # Forbidden /\ p # BadGateway
  BY <1>3, AnswersAssumption DEF Answers
<1>9. Answering(scenario, g_acl, p, r)
  BY <1>3 DEF Answering
<1>10. Moves(w, "send", r, p, state[w])
  BY <1>1, <1>2, <1>3, <1>8, <1>9 DEF Moves, InHand, Stages
<1>11. ClassOf(pc[w], resp[w], state[w]) = ClassOf("send", p, state[w])
  BY <1>2 DEF ClassOf
<1>12. \A o : N(o)' = N(o)
  BY <1>10, <1>11, Counted
<1>13. Accounts' /\ Countable'
  BY <1>1, <1>2, <1>12 DEF Accounts, Countable, counters
<1> QED
  BY <1>5, <1>6, <1>7, <1>10, <1>13, StepInv

\* The answer is sent, or its client is gone.
LEMMA SendInv ==
    ASSUME IndInv, NEW w \in Workers, Send(w)
    PROVE  IndInv'
<1>1. /\ InHand(scenario, g_acl, pc[w], req[w], resp[w], state[w]) /\ Countable /\ Accounts
      /\ state = [state EXCEPT ![w] = state[w]] /\ resp = [resp EXCEPT ![w] = resp[w]]
      /\ req = [req EXCEPT ![w] = req[w]] /\ Stored /\ Fetched
      /\ req[w] \in Requests \cup {None} /\ state[w] \in {"HIT", "MISS", "BYPASS"}
      /\ cache \in [Keys -> OriginResponses \cup {None}] /\ resp[w] \in Answers \cup {None}
      /\ pc[w] # "idle" => phase = "serve"
  BY Facts
<1>2. /\ pc[w] = "send" /\ pc' = [pc EXCEPT ![w] = "log"]
      /\ UNCHANGED <<boot, req, resp, state, cache, counters, log, taken, refused, fetched>>
  BY DEF Send
<1>3. Stored' /\ Fetched' /\ cache' \in [Keys -> OriginResponses \cup {None}]
  BY <1>1, <1>2, QuietStore
<1>4. Moves(w, "log", req[w], resp[w], state[w])
  BY <1>1, <1>2 DEF Moves, InHand, Stages
<1>5. ClassOf(pc[w], resp[w], state[w]) = ClassOf("log", resp[w], state[w])
  BY <1>2 DEF ClassOf
<1>6. \A o : N(o)' = N(o)
  BY <1>4, <1>5, Counted
<1>7. Accounts' /\ Countable'
  BY <1>1, <1>2, <1>6 DEF Accounts, Countable, counters
<1> QED
  BY <1>3, <1>4, <1>7, StepInv

\* The log line is written, of the class the request was counted in.
LEMMA FinishInv ==
    ASSUME IndInv, NEW w \in Workers, Finish(w)
    PROVE  IndInv'
<1> DEFINE o == Outcome(w)
<1>1. /\ InHand(scenario, g_acl, pc[w], req[w], resp[w], state[w]) /\ Countable /\ Accounts
      /\ Stored /\ Fetched /\ cache \in [Keys -> OriginResponses \cup {None}]
      /\ pc[w] # "idle" => phase = "serve"
  BY Facts
<1>2. /\ pc[w] = "log" /\ log' = [log EXCEPT ![o] = @ + 1]
      /\ pc' = [pc EXCEPT ![w] = "idle"] /\ req' = [req EXCEPT ![w] = None]
      /\ resp' = [resp EXCEPT ![w] = None] /\ state' = [state EXCEPT ![w] = "BYPASS"]
      /\ UNCHANGED <<boot, cache, counters, taken, refused, fetched>>
  BY DEF Finish
<1>3. Stored' /\ Fetched' /\ cache' \in [Keys -> OriginResponses \cup {None}]
  BY <1>1, <1>2, QuietStore
<1>4. Moves(w, "idle", None, None, "BYPASS")
  BY <1>1, <1>2 DEF Moves, InHand, Stages
<1>5. /\ ClassOf(pc[w], resp[w], state[w]) = o /\ ClassOf("idle", None, "BYPASS") = "none"
  BY <1>2 DEF ClassOf, Outcome
<1>6. o \in Outcomes
  <2>1. resp[w] \in OriginResponses \cup {Forbidden, BadGateway, BadRequest}
    BY <1>1, <1>2 DEF InHand, Answers
  <2>2. CASE resp[w] = BadRequest
    BY <2>2, AnswersAssumption DEF Outcome, Outcomes
  <2>3. CASE resp[w] = Forbidden
    BY <2>3, AnswersAssumption DEF Outcome, Outcomes
  <2>4. CASE resp[w] = BadGateway
    BY <2>4, AnswersAssumption DEF Outcome, Outcomes
  <2>5. CASE resp[w] \notin {BadRequest, Forbidden, BadGateway}
    BY <2>5 DEF Outcome, Outcomes
  <2> QED
    BY <2>2, <2>3, <2>4, <2>5
<1> HIDE DEF o
<1>7. \A x \in Outcomes \cup {"wait"} :
          N(x) \in Nat /\ N(x)' = IF x = o THEN N(x) - 1 ELSE N(x)
  <2>1. o # "none" /\ "none" \notin Outcomes \cup {"wait"}
    BY <1>6 DEF Outcomes
  <2> QED
    BY <1>4, <1>5, <2>1, Counted
<1>8. \A x \in Outcomes :
          log[x] \in Nat /\ log'[x] \in Nat /\ log'[x] = IF x = o THEN log[x] + 1 ELSE log[x]
  BY <1>1, <1>2, <1>6 DEF Countable
<1>9. \A x \in Outcomes : log'[x] + N(x)' = log[x] + N(x)
  <2> SUFFICES ASSUME NEW x \in Outcomes PROVE log'[x] + N(x)' = log[x] + N(x)
    OBVIOUS
  <2>1. /\ N(x) \in Nat /\ N(x)' = IF x = o THEN N(x) - 1 ELSE N(x)
        /\ log[x] \in Nat /\ log'[x] = IF x = o THEN log[x] + 1 ELSE log[x]
    BY <1>7, <1>8
  <2> QED
    BY <2>1
<1>10. N("wait")' = N("wait")
  <2>1. o # "wait"
    BY <1>6 DEF Outcomes
  <2> QED
    BY <1>7, <2>1
<1>11. Accounts'
  <2>1. /\ log'["BAD"] + N("BAD")' = log["BAD"] + N("BAD")
        /\ log'["DENY"] + N("DENY")' = log["DENY"] + N("DENY")
        /\ log'["HIT"] + N("HIT")' = log["HIT"] + N("HIT")
        /\ log'["ERROR"] + N("ERROR")' = log["ERROR"] + N("ERROR")
        /\ log'["OK"] + N("OK")' = log["OK"] + N("OK")
    BY <1>9 DEF Outcomes
  <2> QED
    BY <1>1, <1>2, <1>10, <2>1 DEF Accounts, counters
<1>12. Countable'
  <2>1. log' \in [Outcomes -> Nat]
    BY <1>1, <1>2, <1>6 DEF Countable
  <2> QED
    BY <1>1, <1>2, <2>1 DEF Countable, counters
<1> QED
  BY <1>3, <1>4, <1>11, <1>12, StepInv

\* main() loads the file, before any worker runs.
LEMMA LoadInv ==
    ASSUME IndInv, Load
    PROVE  IndInv'
<1>1. ServeType /\ Booted /\ Handling /\ Stored /\ Fetched /\ Accounts
  BY DEF IndInv
<1>2. /\ phase = "boot" /\ g_acl' = load_string(scenario.file)
      /\ phase' = IF load_string(scenario.file).ok THEN "serve" ELSE "exited"
      /\ UNCHANGED <<scenario, pc, req, resp, state, sent, cache, counters, log,
                     taken, refused, fetched>>
  BY DEF Load
<1>3. \A w \in Workers : pc[w] = "idle"
  BY <1>1, <1>2 DEF Booted
<1>4. Handling'
  <2> SUFFICES ASSUME NEW w \in Workers
               PROVE  InHand(scenario', g_acl', pc'[w], req'[w], resp'[w], state'[w])
    BY DEF Handling
  <2>1. pc[w] = "idle" /\ InHand(scenario, g_acl, pc[w], req[w], resp[w], state[w])
    BY <1>1, <1>3 DEF Handling
  <2> QED
    BY <1>2, <2>1 DEF InHand
<1>5. Booted'
  BY <1>2, <1>3 DEF Booted
<1>6. Stored' /\ Fetched'
  BY <1>1, <1>2 DEF Stored, Fetched
<1>7. ServeType' /\ Accounts'
  BY <1>1, <1>2 DEF ServeType, Accounts, N, Class, counters
<1> QED
  BY <1>4, <1>5, <1>6, <1>7 DEF IndInv

\* An entry goes, or nothing happens.
LEMMA EvictInv ==
    ASSUME IndInv, UNCHANGED vars \/ \E k \in Keys : Evict(k)
    PROVE  IndInv'
<1>1. ServeType /\ Booted /\ Handling /\ Stored /\ Fetched /\ Accounts
  BY DEF IndInv
<1>2. UNCHANGED <<boot, pc, req, resp, state, counters, log, taken, refused, fetched>>
  BY DEF Evict, vars
<1>3. /\ cache' \in [Keys -> OriginResponses \cup {None}]
      /\ \A k \in Keys : cache'[k] = cache[k] \/ cache'[k] = None
  BY <1>1 DEF ServeType, Evict, vars
<1>4. Stored'
  BY <1>1, <1>2, <1>3 DEF Stored, boot
<1>5. Fetched' /\ Booted' /\ Handling'
  BY <1>1, <1>2 DEF Fetched, Booted, Handling, boot
<1>6. ServeType' /\ Accounts'
  BY <1>1, <1>2, <1>3 DEF ServeType, Accounts, N, Class, counters, boot
<1> QED
  BY <1>4, <1>5, <1>6 DEF IndInv

LEMMA NextInv == IndInv /\ [Next]_vars => IndInv'
<1> SUFFICES ASSUME IndInv, [Next]_vars PROVE IndInv'
  OBVIOUS
<1>1. ASSUME NEW w \in Workers, Worker(w) PROVE IndInv'
  <2>1. ASSUME NEW r \in scenario.requests, Begin(w, r) PROVE IndInv'
    BY <2>1, BeginInv
  <2>2. ASSUME NEW st \in {413, 431}, Refuse(w, st) PROVE IndInv'
    BY <2>2, RefuseInv
  <2>3. ASSUME Acl(w) \/ Lookup(w) \/ FetchError(w) \/ Store(w) \/ Send(w) \/ Finish(w)
        PROVE  IndInv'
    BY <2>3, AclInv, LookupInv, FetchErrorInv, StoreInv, SendInv, FinishInv
  <2>4. ASSUME NEW s \in BOOLEAN, NEW h \in BOOLEAN, FetchOK(w, s, h) PROVE IndInv'
    BY <2>4, FetchOKInv
  <2> QED
    BY <1>1, <2>1, <2>2, <2>3, <2>4 DEF Worker
<1>2. CASE Load
  BY <1>2, LoadInv
<1>3. CASE UNCHANGED vars \/ \E k \in Keys : Evict(k)
  BY <1>3, EvictInv
<1> QED
  BY <1>1, <1>2, <1>3 DEF Next, Done

------------------------------------------------------------------------------
(* The configuration file.                                                 *)

\* A set of naturals that is not empty has a least element: what stands for
\* induction here.
LEMMA LeastNatural ==
    ASSUME NEW S \in SUBSET Nat, S # {}
    PROVE  \E m \in S : \A n \in S : m <= n
<1>1. PICK m \in S : \A n \in S : <<n, m>> \notin OpToRel(<, Nat)
  BY NatLessThanWellFounded, WFMin
<1>2. \A n \in S : ~ (n < m)
  BY <1>1 DEF OpToRel
<1> QED
  BY <1>2

\* Loaded(file), as far as line m.
LoadedTo(g, file, m) ==
    g = [n \in 0..m |-> IF n = 0 THEN EmptyAcl ELSE LoadLine(g[n - 1], file[n])]

LEMMA LoadedExtend ==
    ASSUME NEW file, NEW m \in Nat, \E g : LoadedTo(g, file, m)
    PROVE  \E h : LoadedTo(h, file, m + 1)
<1>1. PICK g : LoadedTo(g, file, m)
  OBVIOUS
<1> DEFINE h == [n \in 0..(m + 1) |->
                    IF n = m + 1 THEN LoadLine(g[m], file[m + 1]) ELSE g[n]]
<1>2. \A n \in 0..m : g[n] = IF n = 0 THEN EmptyAcl ELSE LoadLine(g[n - 1], file[n])
  BY <1>1 DEF LoadedTo
<1>3. ASSUME NEW n \in 0..(m + 1)
      PROVE  h[n] = IF n = 0 THEN EmptyAcl ELSE LoadLine(h[n - 1], file[n])
  <2>1. CASE n = m + 1
    BY <2>1
  <2>2. CASE n # m + 1
    BY <1>2, <2>2
  <2> QED
    BY <2>1, <2>2
<1>4. h = [n \in 0..(m + 1) |-> h[n]]
  OBVIOUS
<1> HIDE DEF h
<1>5. [n \in 0..(m + 1) |-> h[n]] =
          [n \in 0..(m + 1) |-> IF n = 0 THEN EmptyAcl ELSE LoadLine(h[n - 1], file[n])]
  BY <1>3
<1>6. LoadedTo(h, file, m + 1)
  BY <1>4, <1>5 DEF LoadedTo
<1> QED
  BY <1>6

\* The lines take effect one after the other.
LEMMA LoadedDefined ==
    ASSUME NEW file, Len(file) \in Nat
    PROVE  /\ Loaded(file)[0] = EmptyAcl
           /\ \A n \in 1..Len(file) : Loaded(file)[n] = LoadLine(Loaded(file)[n - 1], file[n])
<1> DEFINE Bad == {m \in Nat : ~ \E g : LoadedTo(g, file, m)}
<1>1. LoadedTo([n \in 0..0 |-> EmptyAcl], file, 0)
  BY DEF LoadedTo
<1>2. Bad = {}
  <2> SUFFICES ASSUME Bad # {} PROVE FALSE
    OBVIOUS
  <2>1. PICK m \in Bad : \A n \in Bad : m <= n
    <3>1. Bad \in SUBSET Nat
      OBVIOUS
    <3> QED
      BY <3>1, LeastNatural
  <2>2. m \in Nat /\ ~ \E g : LoadedTo(g, file, m)
    OBVIOUS
  <2>3. m # 0
    BY <1>1, <2>2
  <2>4. m - 1 \in Nat /\ (m - 1) + 1 = m /\ m - 1 \notin Bad
    BY <2>1, <2>2, <2>3
  <2>5. \E g : LoadedTo(g, file, m - 1)
    BY <2>4
  <2>6. \E g : LoadedTo(g, file, (m - 1) + 1)
    BY <2>4, <2>5, LoadedExtend
  <2> QED
    BY <2>2, <2>4, <2>6
<1>3. \E g : LoadedTo(g, file, Len(file))
  BY <1>2
<1>4. Loaded(file) = [n \in 0..Len(file) |->
                        IF n = 0 THEN EmptyAcl ELSE LoadLine(Loaded(file)[n - 1], file[n])]
  BY <1>3 DEF LoadedTo, Loaded
<1> QED
  BY <1>4

\* The rules and routes that lines of the file make.
RuleSet(file) ==
    {[decision |-> d, field |-> file[i].word, pattern |-> file[i].pattern] :
        d \in Policies, i \in 1..Len(file)}
RouteSet(file) ==
    {[pattern |-> to_lower(file[i].pattern), host |-> file[i].host, port |-> file[i].port] :
        i \in 1..Len(file)}
\* A configuration made of rules R and routes T.
AclOf(R, T) == [ok : BOOLEAN, rules : Seq(R), policy : Policies, routes : Seq(T)]
RuleOf(l) == [decision |-> l.verb, field |-> l.word, pattern |-> l.pattern]
RouteOf(l) == [pattern |-> to_lower(l.pattern), host |-> l.host, port |-> l.port]

\* The four things a line can be.
IsDefault(l) == l.verb = "default" /\ l.word \in Policies
IsRule(l) == l.verb \in Policies /\ l.pattern # <<>> /\ l.word \in Fields
IsRoute(l) == l.verb = "route" /\ l.pattern # <<>> /\ l.host # <<>> /\ l.port \in PortNumbers

\* A line takes effect only if it is well formed and those before it were.
LEMMA OneLine ==
    ASSUME NEW R, NEW T, NEW acl \in AclOf(R, T), NEW l,
           IsRule(l) => RuleOf(l) \in R, RouteOf(l) \in T
    PROVE  /\ LoadLine(acl, l) \in AclOf(R, T)
           /\ LoadLine(acl, l).ok => acl.ok /\ WellFormed(l)
<1>1. acl \in [ok : BOOLEAN, rules : Seq(R), policy : Policies, routes : Seq(T)]
  BY DEF AclOf
<1>2. /\ acl.ok \in BOOLEAN /\ acl.rules \in Seq(R) /\ acl.policy \in Policies
      /\ acl.routes \in Seq(T)
  BY <1>1
<1>3. LoadLine(acl, l) =
        IF ~acl.ok THEN acl
        ELSE IF IsDefault(l) THEN [acl EXCEPT !.policy = l.word]
        ELSE IF IsRule(l) THEN [acl EXCEPT !.rules = Append(acl.rules, RuleOf(l))]
        ELSE IF IsRoute(l) THEN [acl EXCEPT !.routes = Append(acl.routes, RouteOf(l))]
        ELSE [acl EXCEPT !.ok = FALSE]
  BY DEF LoadLine, IsDefault, IsRule, IsRoute, RuleOf, RouteOf
<1>4. IsDefault(l) \/ IsRule(l) \/ IsRoute(l) => WellFormed(l)
  <2>1. IsDefault(l) => WellFormed(l)
    BY DEF IsDefault, WellFormed
  <2>2. IsRule(l) => WellFormed(l)
    BY DEF IsRule, WellFormed
  <2>3. IsRoute(l) => WellFormed(l)
    BY DEF IsRoute, WellFormed
  <2> QED
    BY <2>1, <2>2, <2>3
<1>5. CASE ~acl.ok
  BY <1>3, <1>5
<1>6. CASE acl.ok /\ IsDefault(l)
  <2>1. LoadLine(acl, l) = [acl EXCEPT !.policy = l.word]
    BY <1>3, <1>6
  <2>2. l.word \in Policies
    BY <1>6 DEF IsDefault
  <2>3. [acl EXCEPT !.policy = l.word] \in AclOf(R, T)
    BY <1>1, <2>2 DEF AclOf
  <2> QED
    BY <1>4, <1>6, <2>1, <2>3
<1>7. CASE acl.ok /\ ~IsDefault(l) /\ IsRule(l)
  <2> DEFINE rs == Append(acl.rules, RuleOf(l))
  <2>1. LoadLine(acl, l) = [acl EXCEPT !.rules = rs]
    BY <1>3, <1>7
  <2>2. rs \in Seq(R)
    BY <1>2, <1>7
  <2> HIDE DEF rs
  <2>3. [acl EXCEPT !.rules = rs] \in AclOf(R, T)
    BY <1>1, <2>2 DEF AclOf
  <2> QED
    BY <1>4, <1>7, <2>1, <2>3
<1>8. CASE acl.ok /\ ~IsDefault(l) /\ ~IsRule(l) /\ IsRoute(l)
  <2> DEFINE rs == Append(acl.routes, RouteOf(l))
  <2>1. LoadLine(acl, l) = [acl EXCEPT !.routes = rs]
    BY <1>3, <1>8
  <2>2. rs \in Seq(T)
    BY <1>2
  <2> HIDE DEF rs
  <2>3. [acl EXCEPT !.routes = rs] \in AclOf(R, T)
    BY <1>1, <2>2 DEF AclOf
  <2> QED
    BY <1>4, <1>8, <2>1, <2>3
<1>9. CASE acl.ok /\ ~IsDefault(l) /\ ~IsRule(l) /\ ~IsRoute(l)
  <2>1. LoadLine(acl, l) = [acl EXCEPT !.ok = FALSE]
    BY <1>3, <1>9
  <2>2. [acl EXCEPT !.ok = FALSE] \in AclOf(R, T)
    BY <1>1 DEF AclOf
  <2>3. ~ [acl EXCEPT !.ok = FALSE].ok
    BY <1>1
  <2> QED
    BY <2>1, <2>2, <2>3
<1> QED
  BY <1>2, <1>5, <1>6, <1>7, <1>8, <1>9

\* Every line has taken effect, or the file is refused.
LEMMA LoadedWell ==
    ASSUME NEW file, Len(file) \in Nat
    PROVE  /\ load_string(file) \in AclOf(RuleSet(file), RouteSet(file))
           /\ load_string(file).ok => \A i \in 1..Len(file) : WellFormed(file[i])
<1> DEFINE R == RuleSet(file)
           T == RouteSet(file)
           acl(n) == Loaded(file)[n]
           Good(n) == /\ acl(n) \in AclOf(R, T)
                      /\ acl(n).ok => \A i \in 1..n : WellFormed(file[i])
           Bad == {n \in 0..Len(file) : ~Good(n)}
<1>1. acl(0) = EmptyAcl /\ \A n \in 1..Len(file) : acl(n) = LoadLine(acl(n - 1), file[n])
  BY LoadedDefined
<1>2. \A i \in 1..Len(file) : (IsRule(file[i]) => RuleOf(file[i]) \in R) /\ RouteOf(file[i]) \in T
  BY DEF IsRule, RuleOf, RouteOf, RuleSet, RouteSet
<1>3. EmptyAcl \in AclOf(R, T)
  BY DEF EmptyAcl, AclOf, Policies
<1> HIDE DEF acl, R, T
<1>4. Good(0)
  BY <1>1, <1>3
<1>5. ASSUME NEW n \in 1..Len(file), Good(n - 1)
      PROVE  Good(n)
  <2>1. /\ LoadLine(acl(n - 1), file[n]) \in AclOf(R, T)
        /\ LoadLine(acl(n - 1), file[n]).ok => acl(n - 1).ok /\ WellFormed(file[n])
    BY <1>2, <1>5, OneLine
  <2>2. acl(n) = LoadLine(acl(n - 1), file[n])
    BY <1>1
  <2>3. acl(n) \in AclOf(R, T)
    BY <2>1, <2>2
  <2>4. ASSUME acl(n).ok, NEW i \in 1..n
        PROVE  WellFormed(file[i])
    <3>1. acl(n - 1).ok /\ WellFormed(file[n])
      BY <2>1, <2>2, <2>4
    <3>2. CASE i = n
      BY <3>1, <3>2
    <3>3. CASE i # n
      <4>1. i \in 1..(n - 1)
        BY <3>3
      <4> QED
        BY <1>5, <3>1, <4>1
    <3> QED
      BY <3>2, <3>3
  <2> QED
    BY <2>3, <2>4
<1> HIDE DEF Good
<1>6. Bad = {}
  <2> SUFFICES ASSUME Bad # {} PROVE FALSE
    OBVIOUS
  <2>1. PICK m \in Bad : \A n \in Bad : m <= n
    <3>1. Bad \in SUBSET Nat
      OBVIOUS
    <3> QED
      BY <3>1, LeastNatural
  <2>2. m \in 0..Len(file) /\ ~Good(m)
    OBVIOUS
  <2>3. m # 0
    BY <1>4, <2>2
  <2>4. m \in 1..Len(file) /\ m - 1 \in 0..Len(file) /\ m - 1 \notin Bad
    BY <2>1, <2>2, <2>3
  <2>5. Good(m - 1)
    BY <2>4
  <2> QED
    BY <1>5, <2>2, <2>4, <2>5
<1>7. Good(Len(file))
  BY <1>6
<1> QED
  BY <1>7 DEF Good, acl, R, T, load_string

\* check() allows or denies.
LEMMA CheckDecides ==
    ASSUME NEW file, NEW acl \in AclOf(RuleSet(file), RouteSet(file)), NEW r
    PROVE  Check(acl, r) \in Policies
<1> DEFINE hits == {i \in DOMAIN acl.rules : RuleMatches(acl.rules[i], r)}
<1>1. acl.rules \in Seq(RuleSet(file)) /\ acl.policy \in Policies
  BY DEF AclOf
<1>2. hits \in SUBSET Nat /\ hits \subseteq DOMAIN acl.rules
  BY <1>1
<1>3. Check(acl, r) = IF hits = {} THEN acl.policy ELSE acl.rules[Min(hits)].decision
  BY DEF Check
<1> HIDE DEF hits
<1>4. CASE hits = {}
  BY <1>1, <1>3, <1>4
<1>5. CASE hits # {}
  <2>1. \E m \in hits : \A n \in hits : m <= n
    BY <1>2, <1>5, LeastNatural
  <2>2. Min(hits) \in hits
    BY <2>1 DEF Min
  <2>3. acl.rules[Min(hits)] \in RuleSet(file)
    <3> DEFINE rs == acl.rules
               R == RuleSet(file)
    <3>1. rs \in Seq(R) /\ Min(hits) \in DOMAIN rs
      BY <1>1, <1>2, <2>2
    <3> HIDE DEF rs, R
    <3>2. rs[Min(hits)] \in R
      BY <3>1
    <3> QED
      BY <3>2 DEF rs, R
  <2>4. \A x \in RuleSet(file) : x.decision \in Policies
    BY DEF RuleSet
  <2> QED
    BY <1>3, <1>5, <2>3, <2>4
<1> QED
  BY <1>4, <1>5

------------------------------------------------------------------------------
(* Texts                                                                   *)

\* Two texts are sequences over one set.
LEMMA Over ==
    ASSUME NEW s, NEW t, IsText(s), IsText(t)
    PROVE  \E S : s \in Seq(S) /\ t \in Seq(S)
<1> DEFINE S == {s[i] : i \in 1..Len(s)} \cup {t[i] : i \in 1..Len(t)}
<1>1. \A i \in 1..Len(s) : s[i] \in S
  OBVIOUS
<1>2. \A i \in 1..Len(t) : t[i] \in S
  OBVIOUS
<1> HIDE DEF S
<1>3. s \in Seq(S)
  BY <1>1 DEF IsText
<1>4. t \in Seq(S)
  BY <1>2 DEF IsText
<1> QED
  BY <1>3, <1>4

LEMMA Sequence ==
    ASSUME NEW S, NEW s \in Seq(S)
    PROVE  IsText(s)
<1>1. Len(s) \in Nat /\ s \in [1..Len(s) -> S]
  BY LenProperties
<1> QED
  BY <1>1 DEF IsText

LEMMA TextDomain ==
    ASSUME NEW s, IsText(s)
    PROVE  Len(s) \in Nat /\ DOMAIN s = 1..Len(s) /\ (s # <<>> <=> Len(s) >= 1)
<1>1. PICK S : s \in Seq(S)
  BY Over
<1> QED
  BY <1>1, LenProperties, EmptySeq

LEMMA LowerText ==
    ASSUME NEW s, IsText(s)
    PROVE  /\ IsText(to_lower(s)) /\ Len(to_lower(s)) = Len(s)
           /\ \A i \in 1..Len(s) : to_lower(s)[i] = Lower(s[i])
<1> DEFINE S == {Lower(s[i]) : i \in 1..Len(s)}
<1>1. DOMAIN s = 1..Len(s) /\ Len(s) \in Nat
  BY TextDomain
<1>2. to_lower(s) = [i \in 1..Len(s) |-> Lower(s[i])]
  BY <1>1 DEF to_lower
<1>3. \A i \in 1..Len(s) : Lower(s[i]) \in S
  OBVIOUS
<1> HIDE DEF S
<1>4. to_lower(s) \in Seq(S) /\ Len(to_lower(s)) = Len(s)
  BY <1>1, <1>2, <1>3
<1> QED
  BY <1>2, <1>4, Sequence

\* What std::tolower changes is a letter.
LEMMA LowerMark ==
    ASSUME NEW c, NEW d \in {"/", "SP", ":", "*", "."}
    PROVE  (Lower(c) = d) <=> (c = d)
  BY DEF Lower

LEMMA LowerDigit ==
    ASSUME NEW c, NEW d, Lower(c) = Lower(d), IsDigit(c)
    PROVE  c = d
<1>1. c \in {"0", "1", "2", "3", "4", "5", "6", "7", "8", "9"}
  BY DEF IsDigit, Digits
<1> QED
  BY <1>1 DEF Lower

LEMMA Cat ==
    ASSUME NEW s, NEW t, IsText(s), IsText(t)
    PROVE  /\ IsText(s \o t) /\ Len(s \o t) = Len(s) + Len(t)
           /\ \A i \in 1..Len(s) : (s \o t)[i] = s[i]
           /\ \A i \in 1..Len(t) : (s \o t)[Len(s) + i] = t[i]
<1>1. PICK S : s \in Seq(S) /\ t \in Seq(S)
  BY Over
<1>2. s \o t \in Seq(S)
  BY <1>1
<1>3. IsText(s \o t)
  BY <1>2, Sequence
<1> QED
  BY <1>1, <1>3

LEMMA Equal ==
    ASSUME NEW s, NEW t, IsText(s), IsText(t), Len(s) = Len(t),
           \A i \in 1..Len(s) : s[i] = t[i]
    PROVE  s = t
<1>1. PICK S : s \in Seq(S) /\ t \in Seq(S)
  BY Over
<1> QED
  BY <1>1, SeqEqual

LEMMA Cut ==
    ASSUME NEW s, IsText(s), NEW m \in 1..(Len(s) + 1), NEW n \in 0..Len(s)
    PROVE  /\ IsText(SubSeq(s, m, n))
           /\ Len(SubSeq(s, m, n)) = IF m <= n THEN n - m + 1 ELSE 0
           /\ \A i \in 1..(n - m + 1) : SubSeq(s, m, n)[i] = s[m + i - 1]
<1>1. PICK S : s \in Seq(S)
  BY Over
<1>2. SubSeq(s, m, n) \in Seq(S)
  BY <1>1
<1>3. IsText(SubSeq(s, m, n))
  BY <1>2, Sequence
<1> QED
  BY <1>1, <1>3

LEMMA TailText ==
    ASSUME NEW s, IsText(s), s # <<>>
    PROVE  /\ IsText(Tail(s)) /\ Len(Tail(s)) = Len(s) - 1
           /\ \A i \in 1..(Len(s) - 1) : Tail(s)[i] = s[i + 1]
<1>1. PICK S : s \in Seq(S)
  BY Over
<1>2. Tail(s) \in Seq(S)
  BY <1>1
<1>3. IsText(Tail(s))
  BY <1>2, Sequence
<1> QED
  BY <1>1, <1>3

LEMMA OneText ==
    ASSUME NEW c
    PROVE  IsText(<<c>>) /\ Len(<<c>>) = 1 /\ <<c>>[1] = c
<1>1. <<c>> \in Seq({c})
  OBVIOUS
<1>2. IsText(<<c>>)
  BY <1>1, Sequence
<1> QED
  BY <1>2

\* Texts are put together in either order.
LEMMA CatCat ==
    ASSUME NEW s, NEW t, NEW u, IsText(s), IsText(t), IsText(u)
    PROVE  (s \o t) \o u = s \o (t \o u)
<1>0. Len(s) \in Nat /\ Len(t) \in Nat /\ Len(u) \in Nat
  BY TextDomain
<1>1. IsText(s \o t) /\ IsText(t \o u)
  BY Cat
<1>2. PICK S : s \in Seq(S) /\ t \o u \in Seq(S)
  BY <1>1, Over
<1>3. PICK R : t \in Seq(R) /\ u \in Seq(R)
  BY Over
<1>4. s \in Seq(S \cup R) /\ t \in Seq(S \cup R) /\ u \in Seq(S \cup R)
  BY <1>2, <1>3
<1> QED
  BY <1>4, ConcatAssociative

\* s \o t, for the provers to reason about by these facts only.
Join(s, t) == s \o t

LEMMA JoinText ==
    ASSUME NEW s, NEW t, IsText(s), IsText(t)
    PROVE  /\ IsText(Join(s, t)) /\ Len(Join(s, t)) = Len(s) + Len(t)
           /\ \A i \in 1..Len(s) : Join(s, t)[i] = s[i]
           /\ \A i \in 1..Len(t) : Join(s, t)[Len(s) + i] = t[i]
  BY Cat DEF Join

LEMMA JoinJoin ==
    ASSUME NEW s, NEW t, NEW u, IsText(s), IsText(t), IsText(u)
    PROVE  Join(Join(s, t), u) = Join(s, Join(t, u))
  BY CatCat, SMTT(60) DEF Join

\* Where a text is cut at the first c in it, there is one way to cut it.
LEMMA CutAtFirst ==
    ASSUME NEW c, NEW s1, NEW s2, NEW t1, NEW t2,
           IsText(s1), IsText(s2), IsText(t1), IsText(t2),
           ~Has(s1, c), ~Has(s2, c), t1 # <<>>, t2 # <<>>, t1[1] = c, t2[1] = c,
           Join(s1, t1) = Join(s2, t2)
    PROVE  s1 = s2 /\ t1 = t2
<1>0. /\ Len(s1) \in Nat /\ Len(s2) \in Nat /\ Len(t1) \in Nat /\ Len(t2) \in Nat
      /\ Len(t1) >= 1 /\ Len(t2) >= 1
      /\ DOMAIN s1 = 1..Len(s1) /\ DOMAIN s2 = 1..Len(s2)
  BY TextDomain
<1> DEFINE u == Join(s1, t1)
<1>1. /\ Len(u) = Len(s1) + Len(t1) /\ Len(u) = Len(s2) + Len(t2)
      /\ \A i \in 1..Len(s1) : u[i] = s1[i]
      /\ \A i \in 1..Len(s2) : u[i] = s2[i]
      /\ \A i \in 1..Len(t1) : u[Len(s1) + i] = t1[i]
      /\ \A i \in 1..Len(t2) : u[Len(s2) + i] = t2[i]
  BY JoinText
<1> HIDE DEF u
<1>2. u[Len(s1) + 1] = c /\ u[Len(s2) + 1] = c
  BY <1>0, <1>1
<1>3. \A i \in 1..Len(s1) : u[i] # c
  BY <1>0, <1>1 DEF Has
<1>4. \A i \in 1..Len(s2) : u[i] # c
  BY <1>0, <1>1 DEF Has
<1>5. Len(s1) = Len(s2)
  <2>1. ~(Len(s1) < Len(s2))
    <3> SUFFICES ASSUME Len(s1) < Len(s2) PROVE FALSE
      OBVIOUS
    <3>1. Len(s1) + 1 \in 1..Len(s2)
      BY <1>0
    <3> QED
      BY <1>2, <1>4, <3>1
  <2>2. ~(Len(s2) < Len(s1))
    <3> SUFFICES ASSUME Len(s2) < Len(s1) PROVE FALSE
      OBVIOUS
    <3>1. Len(s2) + 1 \in 1..Len(s1)
      BY <1>0
    <3> QED
      BY <1>2, <1>3, <3>1
  <2>3. \A a, b \in Nat : ~(a < b) /\ ~(b < a) => a = b
    OBVIOUS
  <2> QED
    BY <1>0, <2>1, <2>2, <2>3, Zenon
<1>6. s1 = s2
  BY <1>1, <1>5, Equal
<1>7. t1 = t2
  BY <1>0, <1>1, <1>5, Equal
<1> QED
  BY <1>6, <1>7

\* The key of the cache shows the method, the host and the path it is made of.
LEMMA KeyShows ==
    ASSUME NEW m1, NEW m2, NEW h1, NEW h2, NEW p1, NEW p2,
           IsText(m1), IsText(m2), IsText(h1), IsText(h2), IsText(p1), IsText(p2),
           ~Has(m1, "SP"), ~Has(m2, "SP"), ~Has(h1, "/"), ~Has(h2, "/"),
           p1 # <<>>, p2 # <<>>, p1[1] = "/", p2[1] = "/",
           Join(Join(Join(m1, <<"SP">>), h1), p1) = Join(Join(Join(m2, <<"SP">>), h2), p2)
    PROVE  m1 = m2 /\ h1 = h2 /\ p1 = p2
<1> DEFINE sp == <<"SP">>
           t1 == Join(sp, Join(h1, p1))
           t2 == Join(sp, Join(h2, p2))
<1>1. IsText(sp) /\ Len(sp) = 1 /\ sp[1] = "SP"
  BY OneText
<1>2. IsText(Join(h1, p1)) /\ IsText(Join(h2, p2))
  BY JoinText
<1> HIDE DEF sp
<1>3. ASSUME NEW m, NEW h, NEW p, IsText(m), IsText(h), IsText(p)
      PROVE  Join(Join(Join(m, sp), h), p) = Join(m, Join(sp, Join(h, p)))
  <2>1. IsText(Join(m, sp)) /\ IsText(Join(h, p))
    BY <1>1, <1>3, JoinText
  <2>2. Join(Join(Join(m, sp), h), p) = Join(Join(m, sp), Join(h, p))
    BY <1>3, <2>1, JoinJoin
  <2>3. Join(Join(m, sp), Join(h, p)) = Join(m, Join(sp, Join(h, p)))
    BY <1>1, <1>3, <2>1, JoinJoin
  <2> QED
    BY <2>2, <2>3
<1>4. ASSUME NEW x, IsText(x)
      PROVE  IsText(Join(sp, x)) /\ Len(Join(sp, x)) = 1 + Len(x) /\ Join(sp, x)[1] = "SP"
             /\ \A i \in 1..Len(x) : Join(sp, x)[1 + i] = x[i]
  BY <1>1, <1>4, JoinText, SMTT(60)
<1>5. /\ IsText(t1) /\ IsText(t2) /\ t1[1] = "SP" /\ t2[1] = "SP"
      /\ Len(t1) = 1 + Len(Join(h1, p1)) /\ Len(t2) = 1 + Len(Join(h2, p2))
  BY <1>2, <1>4
<1>6. t1 # <<>> /\ t2 # <<>>
  BY <1>2, <1>5, TextDomain
<1>7. Join(m1, t1) = Join(m2, t2)
  BY <1>3 DEF sp
<1> HIDE DEF t1, t2
<1>8. m1 = m2 /\ t1 = t2
  BY <1>5, <1>6, <1>7, CutAtFirst
<1>9. Join(h1, p1) = Join(h2, p2)
  <2>1. Len(Join(h1, p1)) = Len(Join(h2, p2))
    BY <1>2, <1>5, <1>8, TextDomain
  <2>2. ASSUME NEW i \in 1..Len(Join(h1, p1)) PROVE Join(h1, p1)[i] = Join(h2, p2)[i]
    <3>1. t1[1 + i] = Join(h1, p1)[i]
      BY <1>2, <1>4 DEF t1
    <3>2. t2[1 + i] = Join(h2, p2)[i]
      BY <1>2, <1>4, <2>1 DEF t2
    <3> QED
      BY <1>8, <3>1, <3>2
  <2> QED
    BY <1>2, <2>1, <2>2, Equal
<1>10. h1 = h2 /\ p1 = p2
  BY <1>9, CutAtFirst
<1> QED
  BY <1>8, <1>10

LEMMA MinIs ==
    ASSUME NEW S \in SUBSET Nat, NEW x \in S, \A y \in S : x <= y
    PROVE  Min(S) = x
<1> DEFINE m == Min(S)
<1>1. m \in S /\ \A y \in S : m <= y
  BY DEF Min
<1> HIDE DEF m
<1>2. m \in Nat /\ x \in Nat
  BY <1>1
<1>3. m <= x /\ x <= m
  BY <1>1
<1>4. m = x
  BY <1>2, <1>3
<1> QED
  BY <1>4 DEF m

LEMMA MaxIs ==
    ASSUME NEW S \in SUBSET Nat, NEW x \in S, \A y \in S : y <= x
    PROVE  Max(S) = x
<1> DEFINE m == Max(S)
<1>1. m \in S /\ \A y \in S : m >= y
  BY DEF Max
<1> HIDE DEF m
<1>2. m \in Nat /\ x \in Nat
  BY <1>1
<1>3. m >= x /\ m <= x
  BY <1>1
<1>4. m = x
  BY <1>2, <1>3
<1> QED
  BY <1>4 DEF m

\* A target in origin form is its own path.
LEMMA OriginForm ==
    ASSUME NEW target, IsText(target), target # <<>>, target[1] = "/"
    PROVE  ~IsAbsolute(target) /\ Path(target) = target
<1>1. to_lower(target)[1] = Lower("/")
  BY TextDomain, LowerText
<1>2. Lower("/") = "/"
  BY DEF Lower
<1> QED
  BY <1>1, <1>2 DEF IsAbsolute, Path

\* target is a scheme, h and p.
Spells(target, h, p) ==
    /\ IsText(target) /\ IsText(h) /\ IsText(p)
    /\ Len(target) = 1 + Len(h) + Len(p)
    /\ target[1] \in {"http://", "HTTP://"}
    /\ \A j \in 1..Len(h) : target[1 + j] = h[j]
    /\ \A j \in 1..Len(p) : target[1 + Len(h) + j] = p[j]

LEMMA HasScheme ==
    ASSUME NEW target, NEW h, NEW p, Spells(target, h, p)
    PROVE  IsAbsolute(target)
<1>1. IsText(target) /\ Len(target) >= 1 /\ target[1] \in {"http://", "HTTP://"}
  BY TextDomain DEF Spells
<1>2. to_lower(target)[1] = Lower(target[1])
  BY <1>1, TextDomain, LowerText
<1>3. Lower(target[1]) = "http://"
  BY <1>1 DEF Lower
<1> QED
  BY <1>2, <1>3 DEF IsAbsolute

\* A target in absolute form is cut at the first slash behind its scheme.
LEMMA AbsoluteForm ==
    ASSUME NEW target, NEW h, NEW p, Spells(target, h, p), ~Has(h, "/"),
           p # <<>>, p[1] = "/"
    PROVE  Authority(target) = h /\ Path(target) = p
<1> DEFINE S == Slashes(target)
           n == Len(h) + 2
<1>0. /\ Len(h) \in Nat /\ Len(p) \in Nat /\ Len(target) \in Nat /\ Len(p) >= 1
      /\ DOMAIN h = 1..Len(h) /\ Len(target) = 1 + Len(h) + Len(p)
  BY TextDomain DEF Spells
<1>1. S \in SUBSET Nat
  BY DEF Slashes
<1>2. n \in S
  <2>1. n \in 2..Len(target)
    BY <1>0
  <2>2. target[1 + Len(h) + 1] = p[1]
    BY <1>0 DEF Spells
  <2>3. 1 + Len(h) + 1 = n
    BY <1>0
  <2> QED
    BY <2>1, <2>2, <2>3 DEF Slashes
<1>3. ASSUME NEW y \in S PROVE n <= y
  <2> SUFFICES ASSUME y < n PROVE FALSE
    BY <1>0, <1>1
  <2>1. y \in 2..Len(target) /\ target[y] = "/"
    BY DEF Slashes
  <2>2. y - 1 \in 1..Len(h) /\ 1 + (y - 1) = y
    BY <1>0, <2>1
  <2>3. target[1 + (y - 1)] = h[y - 1]
    BY <2>2 DEF Spells
  <2> QED
    BY <1>0, <2>1, <2>2, <2>3 DEF Has
<1>4. Min(S) = n /\ S # {}
  BY <1>1, <1>2, <1>3, MinIs
<1>5. SubSeq(target, 2, n - 1) = h
  <2>1. n - 1 = Len(h) + 1 /\ 2 \in 1..(Len(target) + 1) /\ Len(h) + 1 \in 0..Len(target)
    BY <1>0
  <2>2. IsText(target) /\ IsText(h)
    BY DEF Spells
  <2> DEFINE u == SubSeq(target, 2, Len(h) + 1)
  <2>3. /\ IsText(u) /\ Len(u) = IF 2 <= Len(h) + 1 THEN (Len(h) + 1) - 2 + 1 ELSE 0
        /\ \A i \in 1..((Len(h) + 1) - 2 + 1) : u[i] = target[2 + i - 1]
    BY <2>1, <2>2, Cut
  <2> HIDE DEF u
  <2>4. Len(u) = Len(h)
    BY <1>0, <2>3
  <2>5. ASSUME NEW i \in 1..Len(u) PROVE u[i] = h[i]
    <3>1. i \in 1..((Len(h) + 1) - 2 + 1) /\ 2 + i - 1 = 1 + i /\ i \in 1..Len(h)
      BY <1>0, <2>4
    <3>2. target[1 + i] = h[i]
      BY <3>1 DEF Spells
    <3> QED
      BY <2>3, <3>1, <3>2
  <2>6. u = h
    BY <2>2, <2>3, <2>4, <2>5, Equal
  <2> QED
    BY <2>1, <2>6 DEF u
<1>6. SubSeq(target, n, Len(target)) = p
  <2>1. n \in 1..(Len(target) + 1) /\ Len(target) \in 0..Len(target) /\ n \in Nat
    BY <1>0
  <2>2. IsText(target) /\ IsText(p)
    BY DEF Spells
  <2> DEFINE u == SubSeq(target, n, Len(target))
  <2>3. /\ IsText(u) /\ Len(u) = IF n <= Len(target) THEN Len(target) - n + 1 ELSE 0
        /\ \A i \in 1..(Len(target) - n + 1) : u[i] = target[n + i - 1]
    BY <2>1, <2>2, Cut
  <2> HIDE DEF u
  <2>4. Len(u) = Len(p) /\ Len(target) - n + 1 = Len(p)
    BY <1>0, <2>3
  <2>5. ASSUME NEW i \in 1..Len(u) PROVE u[i] = p[i]
    <3>1. i \in 1..Len(p) /\ n + i - 1 = 1 + Len(h) + i
      BY <1>0, <2>4
    <3>2. target[1 + Len(h) + i] = p[i]
      BY <3>1 DEF Spells
    <3> QED
      BY <2>3, <2>4, <3>1, <3>2
  <2>6. u = p
    BY <2>2, <2>3, <2>4, <2>5, Equal
  <2> QED
    BY <2>6 DEF u
<1> HIDE DEF S, n
<1>7. Authority(target) = SubSeq(target, 2, n - 1)
  BY <1>4 DEF Authority, S
<1>8. Path(target) = SubSeq(target, n, Len(target))
  BY <1>4, HasScheme DEF Path, S
<1> QED
  BY <1>5, <1>6, <1>7, <1>8

\* One without a slash stands for the root of its host.
LEMMA BareForm ==
    ASSUME NEW target, NEW h, Spells(target, h, <<>>), ~Has(h, "/")
    PROVE  Authority(target) = h /\ Path(target) = <<"/">>
<1>0. /\ IsText(target) /\ IsText(h) /\ Len(target) = 1 + Len(h)
      /\ \A j \in 1..Len(h) : target[1 + j] = h[j]
  <2>1. Len(h) \in Nat /\ Len(<<>>) = 0
    BY TextDomain DEF Spells
  <2> QED
    BY <2>1 DEF Spells
<1>1. Len(h) \in Nat /\ DOMAIN h = 1..Len(h)
  BY <1>0, TextDomain
<1>2. Slashes(target) = {}
  <2> SUFFICES ASSUME NEW y \in Slashes(target) PROVE FALSE
    OBVIOUS
  <2>1. y \in 2..Len(target) /\ target[y] = "/"
    BY DEF Slashes
  <2>2. y - 1 \in 1..Len(h) /\ 1 + (y - 1) = y
    BY <1>0, <1>1, <2>1
  <2>3. target[1 + (y - 1)] = h[y - 1]
    BY <1>0, <2>2
  <2> QED
    BY <1>1, <2>1, <2>2, <2>3 DEF Has
<1>3. Tail(target) = h
  <2> DEFINE u == Tail(target)
  <2>1. target # <<>>
    BY <1>0, <1>1, TextDomain
  <2>2. IsText(u) /\ Len(u) = Len(target) - 1 /\ \A i \in 1..(Len(target) - 1) : u[i] = target[i + 1]
    BY <1>0, <2>1, TailText
  <2> HIDE DEF u
  <2>3. Len(u) = Len(h) /\ \A i \in 1..Len(u) : u[i] = h[i]
    BY <1>0, <1>1, <2>2
  <2>4. u = h
    BY <1>0, <2>2, <2>3, Equal
  <2> QED
    BY <2>4 DEF u
<1> QED
  BY <1>2, <1>3, HasScheme DEF Authority, Path

LEMMA SpellsBare ==
    ASSUME NEW c \in {"http://", "HTTP://"}, NEW h, IsText(h)
    PROVE  Spells(Join(<<c>>, h), h, <<>>)
<1> DEFINE s == <<c>>
           e == <<>>
           u == Join(s, h)
<1>1. IsText(s) /\ Len(s) = 1 /\ s[1] = c
  BY OneText
<1>2. IsText(e) /\ Len(e) = 0
  BY Sequence DEF IsText
<1> HIDE DEF s, e
<1>3. /\ IsText(u) /\ Len(u) = 1 + Len(h) /\ Len(h) \in Nat
      /\ u[1] = c /\ \A i \in 1..Len(h) : u[1 + i] = h[i]
  <2> HIDE DEF u
  <2>1. /\ IsText(u) /\ Len(u) = Len(s) + Len(h)
        /\ \A i \in 1..Len(s) : u[i] = s[i]
        /\ \A i \in 1..Len(h) : u[Len(s) + i] = h[i]
    <3>1. IsText(s) /\ IsText(h)
      BY <1>1
    <3> QED
      BY <3>1, JoinText DEF u
  <2>2. Len(h) \in Nat
    BY TextDomain
  <2> QED
    BY <1>1, <2>1, <2>2
<1> HIDE DEF u
<1>4. Spells(u, h, e)
  BY <1>2, <1>3 DEF Spells
<1> QED
  BY <1>4 DEF u, s, e

LEMMA SpellsJoin ==
    ASSUME NEW c \in {"http://", "HTTP://"}, NEW h, NEW p, IsText(h), IsText(p)
    PROVE  Spells(Join(Join(<<c>>, h), p), h, p)
<1> DEFINE v == Join(<<c>>, h)
           u == Join(v, p)
<1>1. Spells(v, h, <<>>)
  BY SpellsBare
<1> HIDE DEF v
<1>2. Len(h) \in Nat /\ Len(p) \in Nat /\ Len(<<>>) = 0
  BY TextDomain
<1>3. /\ IsText(v) /\ Len(v) = 1 + Len(h) /\ v[1] \in {"http://", "HTTP://"}
      /\ \A i \in 1..Len(h) : v[1 + i] = h[i]
  BY <1>1, <1>2 DEF Spells
<1>4. /\ IsText(u) /\ Len(u) = Len(v) + Len(p)
      /\ \A i \in 1..Len(v) : u[i] = v[i]
      /\ \A i \in 1..Len(p) : u[Len(v) + i] = p[i]
  <2>1. IsText(v) /\ IsText(p)
    BY <1>3
  <2> QED
    BY <2>1, JoinText
<1> HIDE DEF u
<1>5. u[1] \in {"http://", "HTTP://"} /\ \A i \in 1..Len(h) : u[1 + i] = h[i]
  BY <1>2, <1>3, <1>4
<1>6. Spells(u, h, p)
  BY <1>2, <1>3, <1>4, <1>5 DEF Spells
<1> QED
  BY <1>6 DEF u, v

\* parse_request() finds the host and the path that the client means.
LEMMA ParsedAsMeant ==
    ASSUME NEW r, KeepsToHTTP(r)
    PROVE  Host(r) = r.means.host /\ PathOf(r) = r.means.path
<1> DEFINE h == r.means.host
           p == r.means.path
           target == r.line[2]
<1>1. /\ IsText(h) /\ IsText(p) /\ h # <<>> /\ p # <<>> /\ p[1] = "/" /\ ~Has(h, "/")
      /\ \/ target = p /\ Header(r, "host") = h
         \/ \E scheme \in {"http://", "HTTP://"} :
               \/ target = <<scheme>> \o h \o p
               \/ target = <<scheme>> \o h /\ p = <<"/">>
  BY DEF KeepsToHTTP
<1>2. Host(r) = LET named == IF IsAbsolute(target) THEN Authority(target) ELSE <<>>
                IN  IF named # <<>> THEN named ELSE Header(r, "host")
  BY DEF Host
<1>3. PathOf(r) = Path(target)
  BY DEF PathOf
<1> HIDE DEF h, p, target
<1>4. CASE target = p /\ Header(r, "host") = h
  <2>1. ~IsAbsolute(target) /\ Path(target) = p
    BY <1>1, <1>4, OriginForm
  <2> QED
    BY <1>2, <1>3, <1>4, <2>1 DEF h, p
<1>5. ASSUME NEW c \in {"http://", "HTTP://"}, target = <<c>> \o h \o p
      PROVE  Host(r) = h /\ PathOf(r) = p
  <2>1. target = Join(Join(<<c>>, h), p)
    BY <1>5 DEF Join
  <2>2. Spells(Join(Join(<<c>>, h), p), h, p)
    BY <1>1, SpellsJoin
  <2>3. IsAbsolute(target) /\ Authority(target) = h /\ Path(target) = p
    BY <1>1, <2>1, <2>2, HasScheme, AbsoluteForm, Zenon
  <2> QED
    BY <1>1, <1>2, <1>3, <2>3, Zenon
<1>6. ASSUME NEW c \in {"http://", "HTTP://"}, target = <<c>> \o h, p = <<"/">>
      PROVE  Host(r) = h /\ PathOf(r) = p
  <2>1. target = Join(<<c>>, h)
    BY <1>6 DEF Join
  <2>2. Spells(Join(<<c>>, h), h, <<>>)
    BY <1>1, SpellsBare
  <2>3. IsAbsolute(target) /\ Authority(target) = h /\ Path(target) = p
    BY <1>1, <1>6, <2>1, <2>2, HasScheme, BareForm, Zenon
  <2> QED
    BY <1>1, <1>2, <1>3, <2>3, Zenon
<1> QED
  BY <1>1, <1>4, <1>5, <1>6, Zenon DEF h, p

------------------------------------------------------------------------------
(* Patterns                                                                *)

\* s is at the beginning, at the end of t.
Begins(s, t) == Len(s) <= Len(t) /\ \A i \in 1..Len(s) : t[i] = s[i]
Ends(s, t) ==
    Len(s) <= Len(t) /\ \A i \in 1..Len(s) : t[Len(t) - Len(s) + i] = s[i]

LEMMA PrefixBegins ==
    ASSUME NEW s, NEW t, IsText(s), IsText(t)
    PROVE  IsPrefix(s, t) <=> Begins(s, t)
<1>0. Len(s) \in Nat /\ Len(t) \in Nat
  BY TextDomain
<1> SUFFICES ASSUME Len(s) <= Len(t)
             PROVE  SubSeq(s, 1, Len(s)) = SubSeq(t, 1, Len(s)) <=>
                    \A i \in 1..Len(s) : t[i] = s[i]
  BY DEF IsPrefix, Begins
<1> DEFINE u == SubSeq(s, 1, Len(s))
           v == SubSeq(t, 1, Len(s))
<1>1. IsText(u) /\ Len(u) = Len(s) /\ \A i \in 1..Len(s) : u[i] = s[i]
  <2>1. /\ IsText(u) /\ Len(u) = IF 1 <= Len(s) THEN Len(s) - 1 + 1 ELSE 0
        /\ \A i \in 1..(Len(s) - 1 + 1) : u[i] = s[1 + i - 1]
    BY <1>0, Cut
  <2> HIDE DEF u
  <2> QED
    BY <1>0, <2>1
<1>2. IsText(v) /\ Len(v) = Len(s) /\ \A i \in 1..Len(s) : v[i] = t[i]
  <2>1. /\ IsText(v) /\ Len(v) = IF 1 <= Len(s) THEN Len(s) - 1 + 1 ELSE 0
        /\ \A i \in 1..(Len(s) - 1 + 1) : v[i] = t[1 + i - 1]
    BY <1>0, Cut
  <2> HIDE DEF v
  <2> QED
    BY <1>0, <2>1
<1> HIDE DEF u, v
<1>3. u = v => \A i \in 1..Len(s) : t[i] = s[i]
  BY <1>1, <1>2
<1>4. (\A i \in 1..Len(s) : t[i] = s[i]) => u = v
  <2> SUFFICES ASSUME \A i \in 1..Len(s) : t[i] = s[i] PROVE u = v
    OBVIOUS
  <2>1. \A i \in 1..Len(u) : u[i] = v[i]
    BY <1>1, <1>2
  <2> QED
    BY <1>1, <1>2, <2>1, Equal
<1> QED
  BY <1>3, <1>4 DEF u, v

LEMMA ReverseText ==
    ASSUME NEW s, IsText(s)
    PROVE  /\ IsText(Reverse(s)) /\ Len(Reverse(s)) = Len(s)
           /\ \A i \in 1..Len(s) : Reverse(s)[i] = s[Len(s) - i + 1]
<1>1. PICK S : s \in Seq(S)
  BY Over
<1>2. Len(s) \in Nat
  BY TextDomain
<1>3. \A i \in 1..Len(s) : s[(Len(s) - i) + 1] \in S
  BY <1>1
<1>4. Reverse(s) = [i \in 1..Len(s) |-> s[(Len(s) - i) + 1]]
  BY DEF Reverse
<1>5. Reverse(s) \in Seq(S) /\ Len(Reverse(s)) = Len(s)
  BY <1>2, <1>3, <1>4
<1> QED
  BY <1>4, <1>5, Sequence

LEMMA SuffixEnds ==
    ASSUME NEW s, NEW t, IsText(s), IsText(t)
    PROVE  IsSuffix(s, t) <=> Ends(s, t)
<1>0. Len(s) \in Nat /\ Len(t) \in Nat
  BY TextDomain
<1> DEFINE u == Reverse(s)
           v == Reverse(t)
<1>1. IsText(u) /\ Len(u) = Len(s) /\ \A i \in 1..Len(s) : u[i] = s[Len(s) - i + 1]
  BY ReverseText
<1>2. IsText(v) /\ Len(v) = Len(t) /\ \A i \in 1..Len(t) : v[i] = t[Len(t) - i + 1]
  BY ReverseText
<1>3. IsSuffix(s, t) <=> IsPrefix(u, v)
  BY DEF IsSuffix
<1> HIDE DEF u, v
<1>4. IsPrefix(u, v) <=> Begins(u, v)
  BY <1>1, <1>2, PrefixBegins
<1>5. ASSUME Begins(u, v) PROVE Ends(s, t)
  <2>1. Len(s) <= Len(t) /\ \A i \in 1..Len(s) : v[i] = u[i]
    BY <1>1, <1>2, <1>5 DEF Begins
  <2>2. ASSUME NEW i \in 1..Len(s) PROVE t[Len(t) - Len(s) + i] = s[i]
    <3> DEFINE j == Len(s) - i + 1
    <3>1. /\ j \in 1..Len(s) /\ j \in 1..Len(t)
          /\ Len(s) - j + 1 = i /\ Len(t) - j + 1 = Len(t) - Len(s) + i
      BY <1>0, <2>1
    <3> HIDE DEF j
    <3>2. v[j] = u[j] /\ u[j] = s[Len(s) - j + 1] /\ v[j] = t[Len(t) - j + 1]
      BY <1>1, <1>2, <2>1, <3>1
    <3> QED
      BY <3>1, <3>2
  <2> QED
    BY <2>1, <2>2 DEF Ends
<1>6. ASSUME Ends(s, t) PROVE Begins(u, v)
  <2>1. Len(s) <= Len(t) /\ \A i \in 1..Len(s) : t[Len(t) - Len(s) + i] = s[i]
    BY <1>6 DEF Ends
  <2>2. ASSUME NEW j \in 1..Len(s) PROVE v[j] = u[j]
    <3> DEFINE i == Len(s) - j + 1
    <3>1. i \in 1..Len(s) /\ j \in 1..Len(t) /\ Len(t) - Len(s) + i = Len(t) - j + 1
      BY <1>0, <2>1
    <3>2. t[Len(t) - Len(s) + i] = s[i]
      BY <2>1, <3>1
    <3>3. u[j] = s[i] /\ v[j] = t[Len(t) - j + 1]
      BY <1>1, <1>2, <3>1
    <3> HIDE DEF i
    <3> QED
      BY <3>1, <3>2, <3>3
  <2> QED
    BY <1>1, <1>2, <2>1, <2>2 DEF Begins
<1> QED
  BY <1>3, <1>4, <1>5, <1>6

LEMMA FirstOnes ==
    ASSUME NEW v, IsText(v), NEW n \in 0..Len(v)
    PROVE  /\ IsText(SubSeq(v, 1, n)) /\ Len(SubSeq(v, 1, n)) = n
           /\ \A i \in 1..n : SubSeq(v, 1, n)[i] = v[i]
<1>0. Len(v) \in Nat
  BY TextDomain
<1> DEFINE u == SubSeq(v, 1, n)
<1>1. /\ IsText(u) /\ Len(u) = IF 1 <= n THEN n - 1 + 1 ELSE 0
      /\ \A i \in 1..(n - 1 + 1) : u[i] = v[1 + i - 1]
  BY <1>0, Cut
<1> HIDE DEF u
<1>2. IsText(u) /\ Len(u) = n /\ \A i \in 1..n : u[i] = v[i]
  BY <1>0, <1>1
<1> QED
  BY <1>2 DEF u

LEMMA FirstOnesAnd ==
    ASSUME NEW v, NEW s, IsText(v), IsText(s), NEW n \in 0..Len(v)
    PROVE  /\ IsText(Join(SubSeq(v, 1, n), s))
           /\ Len(Join(SubSeq(v, 1, n), s)) = n + Len(s)
           /\ \A i \in 1..n : Join(SubSeq(v, 1, n), s)[i] = v[i]
           /\ \A i \in 1..Len(s) : Join(SubSeq(v, 1, n), s)[n + i] = s[i]
<1> DEFINE u == SubSeq(v, 1, n)
<1>1. IsText(u) /\ Len(u) = n /\ \A i \in 1..n : u[i] = v[i]
  BY FirstOnes
<1> HIDE DEF u
<1>2. /\ IsText(Join(u, s)) /\ Len(Join(u, s)) = Len(u) + Len(s)
      /\ \A i \in 1..Len(u) : Join(u, s)[i] = u[i]
      /\ \A i \in 1..Len(s) : Join(u, s)[Len(u) + i] = s[i]
  <2>1. IsText(u)
    BY <1>1
  <2> QED
    BY <2>1, JoinText
<1>3. /\ IsText(Join(u, s)) /\ Len(Join(u, s)) = n + Len(s)
      /\ \A i \in 1..n : Join(u, s)[i] = v[i]
      /\ \A i \in 1..Len(s) : Join(u, s)[n + i] = s[i]
  BY <1>1, <1>2
<1> QED
  BY <1>3 DEF u

\* v is some text and then s.
LEMMA EndsIn ==
    ASSUME NEW s, NEW v, IsText(s), IsText(v)
    PROVE  Ends(s, v) <=> \E n \in 0..Len(v) : v = Join(SubSeq(v, 1, n), s)
<1>0. Len(s) \in Nat /\ Len(v) \in Nat
  BY TextDomain
<1>2. ASSUME NEW n \in 0..Len(v)
      PROVE  /\ IsText(Join(SubSeq(v, 1, n), s))
             /\ Len(Join(SubSeq(v, 1, n), s)) = n + Len(s)
             /\ \A i \in 1..n : Join(SubSeq(v, 1, n), s)[i] = v[i]
             /\ \A i \in 1..Len(s) : Join(SubSeq(v, 1, n), s)[n + i] = s[i]
  BY FirstOnesAnd
<1>3. ASSUME NEW n \in 0..Len(v), v = Join(SubSeq(v, 1, n), s)
      PROVE  Ends(s, v)
  <2> DEFINE j == Join(SubSeq(v, 1, n), s)
  <2>1. Len(j) = n + Len(s) /\ \A i \in 1..Len(s) : j[n + i] = s[i]
    BY FirstOnesAnd
  <2>2. v = j
    BY <1>3
  <2> HIDE DEF j
  <2>3. Len(v) = n + Len(s) /\ \A i \in 1..Len(s) : v[n + i] = s[i]
    BY <2>1, <2>2, Zenon
  <2>4. Len(s) <= Len(v) /\ Len(v) - Len(s) = n
    BY <1>0, <2>3
  <2> QED
    BY <2>3, <2>4 DEF Ends
<1>4. ASSUME Ends(s, v)
      PROVE  \E n \in 0..Len(v) : v = Join(SubSeq(v, 1, n), s)
  <2> DEFINE n == Len(v) - Len(s)
             j == Join(SubSeq(v, 1, n), s)
  <2>1. n \in 0..Len(v) /\ n + Len(s) = Len(v)
    BY <1>0, <1>4 DEF Ends
  <2>2. /\ IsText(j) /\ Len(j) = n + Len(s)
        /\ \A i \in 1..n : j[i] = v[i]
        /\ \A i \in 1..Len(s) : j[n + i] = s[i]
    BY <1>2, <2>1
  <2> HIDE DEF j
  <2>3. \A i \in 1..Len(s) : v[n + i] = s[i]
    BY <1>4 DEF Ends
  <2> HIDE DEF n
  <2>4. ASSUME NEW i \in 1..Len(v) PROVE v[i] = j[i]
    <3>1. CASE i <= n
      <4>1. i \in 1..n
        BY <1>0, <2>1, <3>1
      <4> QED
        BY <2>2, <4>1
    <3>2. CASE i > n
      <4>1. i - n \in 1..Len(s) /\ n + (i - n) = i
        BY <1>0, <2>1, <3>2
      <4>2. v[n + (i - n)] = s[i - n] /\ j[n + (i - n)] = s[i - n]
        BY <2>2, <2>3, <4>1
      <4> QED
        BY <4>1, <4>2
    <3> QED
      BY <1>0, <2>1, <3>1, <3>2
  <2>5. v = j
    <3>1. Len(v) = Len(j)
      BY <2>1, <2>2
    <3> QED
      BY <2>2, <2>4, <3>1, Equal
  <2> QED
    BY <2>1, <2>5, Zenon DEF j
<1> QED
  BY <1>3, <1>4

\* p is how v begins, and then a star.
LEMMA BeginsIn ==
    ASSUME NEW p, NEW v, IsText(p), IsText(v), p # <<>>, p[Len(p)] = "*"
    PROVE  Begins(Front(p), v) <=>
           \E n \in 0..Len(v) : p = Join(SubSeq(v, 1, n), <<"*">>)
<1>0. Len(p) \in Nat /\ Len(v) \in Nat /\ Len(p) >= 1
  BY TextDomain
<1> DEFINE s == <<"*">>
           f == Front(p)
<1>1. IsText(s) /\ Len(s) = 1 /\ s[1] = "*"
  BY OneText
<1> HIDE DEF s
<1>2. IsText(f) /\ Len(f) = Len(p) - 1 /\ \A i \in 1..(Len(p) - 1) : f[i] = p[i]
  <2>1. Len(p) - 1 \in 0..Len(p)
    BY <1>0
  <2>2. f = SubSeq(p, 1, Len(p) - 1)
    BY DEF Front
  <2> HIDE DEF f
  <2> QED
    BY <2>1, <2>2, FirstOnes
<1> HIDE DEF f
<1>5. ASSUME NEW n \in 0..Len(v)
      PROVE  /\ IsText(Join(SubSeq(v, 1, n), s))
             /\ Len(Join(SubSeq(v, 1, n), s)) = n + Len(s)
             /\ \A i \in 1..n : Join(SubSeq(v, 1, n), s)[i] = v[i]
             /\ \A i \in 1..Len(s) : Join(SubSeq(v, 1, n), s)[n + i] = s[i]
  <2>1. IsText(s)
    BY <1>1
  <2> QED
    BY <1>5, <2>1, FirstOnesAnd, SMTT(60)
<1>3. ASSUME NEW n \in 0..Len(v), p = Join(SubSeq(v, 1, n), s)
      PROVE  Begins(f, v)
  <2> DEFINE j == Join(SubSeq(v, 1, n), s)
  <2>1. Len(j) = n + Len(s) /\ \A i \in 1..n : j[i] = v[i]
    <3>1. IsText(s) /\ n \in 0..Len(v)
      BY <1>1, <1>3
    <3> HIDE DEF s
    <3> QED
      BY <3>1, FirstOnesAnd
  <2>2. p = j
    BY <1>3
  <2> HIDE DEF j
  <2>3. Len(p) = n + Len(s) /\ \A i \in 1..n : p[i] = v[i]
    BY <2>1, <2>2, Zenon
  <2>4. Len(p) - 1 = n /\ n <= Len(v)
    BY <1>0, <1>1, <2>3
  <2> QED
    BY <1>2, <2>3, <2>4 DEF Begins
<1>4. ASSUME Begins(f, v)
      PROVE  \E n \in 0..Len(v) : p = Join(SubSeq(v, 1, n), s)
  <2> DEFINE n == Len(p) - 1
             j == Join(SubSeq(v, 1, n), s)
  <2>1. n \in 0..Len(v) /\ n + 1 = Len(p)
    BY <1>0, <1>2, <1>4 DEF Begins
  <2>2. /\ IsText(j) /\ Len(j) = n + Len(s)
        /\ \A i \in 1..n : j[i] = v[i]
        /\ \A i \in 1..Len(s) : j[n + i] = s[i]
    BY <1>5, <2>1
  <2> HIDE DEF j
  <2>3. \A i \in 1..n : p[i] = v[i]
    BY <1>2, <1>4 DEF Begins
  <2> HIDE DEF n
  <2>4. j[n + 1] = "*" /\ p[n + 1] = "*"
    BY <1>1, <2>1, <2>2
  <2>5. ASSUME NEW i \in 1..Len(p) PROVE p[i] = j[i]
    <3>1. CASE i = n + 1
      BY <2>4, <3>1
    <3>2. CASE i # n + 1
      <4>1. i \in 1..n
        BY <1>0, <2>1, <3>2
      <4> QED
        BY <2>2, <2>3, <4>1
    <3> QED
      BY <3>1, <3>2
  <2>6. p = j
    <3>1. Len(p) = Len(j)
      BY <1>1, <2>1, <2>2
    <3> QED
      BY <2>2, <2>5, <3>1, Equal
  <2> QED
    BY <2>1, <2>6, Zenon DEF j
<1> QED
  BY <1>3, <1>4 DEF s, f

\* Wildcard patterns stand for what the documentation says they do.
LEMMA MatchDenotes ==
    ASSUME NEW p, NEW v, Documented(p), IsText(v)
    PROVE  wildcard_match(p, v) <=> Denotes(p, v)
<1> DEFINE star == <<"*">>
           Suffix == Len(p) > 2 /\ p[1] = "*" /\ p[2] = "."
           Prefix == p # <<>> /\ p[Len(p)] = "*"
<1>1. IsText(p) /\ Len(p) \in Nat /\ Len(v) \in Nat /\ (p # <<>> <=> Len(p) >= 1)
  BY TextDomain DEF Documented
<1>2. wildcard_match(p, v) <=>
        IF p = star THEN TRUE
        ELSE IF Suffix THEN IsSuffix(Tail(p), v)
        ELSE IF Prefix THEN IsPrefix(Front(p), v)
        ELSE p = v
  BY DEF wildcard_match, SuffixMatch, Last
<1>3. Len(p) > 2 => (SubSeq(p, 1, 2) = <<"*", ".">> <=> p[1] = "*" /\ p[2] = ".")
  <2> SUFFICES ASSUME Len(p) > 2
               PROVE  SubSeq(p, 1, 2) = <<"*", ".">> <=> p[1] = "*" /\ p[2] = "."
    OBVIOUS
  <2> DEFINE u == SubSeq(p, 1, 2)
             w == <<"*", ".">>
  <2>1. IsText(u) /\ Len(u) = 2 /\ u[1] = p[1] /\ u[2] = p[2]
    <3>1. 2 \in 0..Len(p)
      BY <1>1
    <3>2. IsText(u) /\ Len(u) = 2 /\ \A i \in 1..2 : u[i] = p[i]
      BY <1>1, <3>1, FirstOnes
    <3> QED
      BY <3>2
  <2>2. IsText(w) /\ Len(w) = 2 /\ w[1] = "*" /\ w[2] = "."
    <3>1. w \in Seq({"*", "."})
      OBVIOUS
    <3>2. IsText(w)
      BY <3>1, Sequence
    <3> QED
      BY <3>2
  <2> HIDE DEF u, w
  <2>3. p[1] = "*" /\ p[2] = "." => u = w
    <3> SUFFICES ASSUME p[1] = "*", p[2] = "." PROVE u = w
      OBVIOUS
    <3>1. \A i \in 1..Len(u) : u[i] = w[i]
      BY <2>1, <2>2
    <3> QED
      BY <2>1, <2>2, <3>1, Equal
  <2>4. u = w => p[1] = "*" /\ p[2] = "."
    BY <2>1, <2>2
  <2> QED
    BY <2>3, <2>4 DEF u, w
<1>4. Suffix => (IsSuffix(Tail(p), v) <=>
                 \E n \in 0..Len(v) : v = Join(SubSeq(v, 1, n), Tail(p)))
  <2> SUFFICES ASSUME Suffix
               PROVE  IsSuffix(Tail(p), v) <=>
                      \E n \in 0..Len(v) : v = Join(SubSeq(v, 1, n), Tail(p))
    OBVIOUS
  <2>1. IsText(Tail(p))
    BY <1>1, TailText
  <2> QED
    BY <2>1, SuffixEnds, EndsIn
<1>5. Prefix => (IsPrefix(Front(p), v) <=>
                 \E n \in 0..Len(v) : p = Join(SubSeq(v, 1, n), star))
  <2> SUFFICES ASSUME Prefix
               PROVE  IsPrefix(Front(p), v) <=>
                      \E n \in 0..Len(v) : p = Join(SubSeq(v, 1, n), star)
    OBVIOUS
  <2>1. IsText(Front(p))
    <3>1. Len(p) - 1 \in 0..Len(p)
      BY <1>1
    <3> QED
      BY <1>1, <3>1, FirstOnes DEF Front
  <2> QED
    BY <1>1, <2>1, PrefixBegins, BeginsIn
<1> DEFINE SuffixOf == \E n \in 0..Len(v) : v = Join(SubSeq(v, 1, n), Tail(p))
           PrefixOf == \E n \in 0..Len(v) : p = Join(SubSeq(v, 1, n), star)
<1>6. Denotes(p, v) <=>
        \/ p = star
        \/ p = v
        \/ Suffix /\ SuffixOf
        \/ Len(p) > 1 /\ p[Len(p)] = "*" /\ p[1] # "*" /\ PrefixOf
  BY <1>3 DEF Denotes, Join
<1>7. p = v /\ Suffix => SuffixOf
  <2> SUFFICES ASSUME p = v, Suffix PROVE SuffixOf
    OBVIOUS
  <2>1. IsText(Tail(p)) /\ Len(Tail(p)) = Len(p) - 1
        /\ \A i \in 1..(Len(p) - 1) : Tail(p)[i] = p[i + 1]
    BY <1>1, TailText
  <2>2. Ends(Tail(p), p)
    <3> DEFINE t == Tail(p)
    <3> HIDE DEF t
    <3>1. IsText(t) /\ Len(t) = Len(p) - 1 /\ \A i \in 1..(Len(p) - 1) : t[i] = p[i + 1]
      BY <2>1 DEF t
    <3>2. Len(t) <= Len(p) /\ Len(p) - Len(t) = 1
      BY <1>1, <3>1
    <3>3. \A i \in 1..Len(t) : p[1 + i] = t[i]
      BY <1>1, <3>1
    <3>4. Ends(t, p)
      BY <3>2, <3>3 DEF Ends
    <3> QED
      BY <3>4 DEF t
  <2> QED
    BY <2>1, <2>2, EndsIn
<1>8. p = v /\ Prefix => PrefixOf
  <2> SUFFICES ASSUME p = v, Prefix PROVE PrefixOf
    OBVIOUS
  <2>1. Begins(Front(p), p)
    <3>1. Len(p) - 1 \in 0..Len(p)
      BY <1>1
    <3>2. /\ Len(Front(p)) = Len(p) - 1
          /\ \A i \in 1..(Len(p) - 1) : Front(p)[i] = p[i]
      BY <1>1, <3>1, FirstOnes DEF Front
    <3> QED
      BY <3>1, <3>2 DEF Begins
  <2> QED
    BY <1>1, <2>1, BeginsIn
<1>9. Prefix /\ p # star /\ ~Suffix => Len(p) > 1 /\ p[1] # "*"
  <2> SUFFICES ASSUME Prefix, p # star, ~Suffix PROVE Len(p) > 1 /\ p[1] # "*"
    OBVIOUS
  <2>1. Len(p) > 1
    <3> SUFFICES ASSUME Len(p) = 1 PROVE FALSE
      <4>1. Len(p) >= 1 /\ Len(p) \in Nat
        BY <1>1
      <4> QED
        BY <4>1
    <3>1. IsText(star) /\ Len(star) = 1 /\ star[1] = "*"
      BY OneText
    <3> HIDE DEF star
    <3>2. \A i \in 1..Len(p) : p[i] = star[i]
      BY <3>1
    <3> QED
      BY <1>1, <3>1, <3>2, Equal
  <2>2. p[1] = "*" => p[2] = "."
    BY DEF Documented
  <2>3. p[2] = "." => Len(p) > 2
    BY <1>1, <2>1
  <2> QED
    BY <2>1, <2>2, <2>3
<1> HIDE DEF star, Suffix, SuffixOf, PrefixOf
<1>10. Len(p) > 1 /\ p[Len(p)] = "*" => Prefix
  BY <1>1
<1> HIDE DEF Prefix
<1> DEFINE long == Len(p) > 1
           last == p[Len(p)] = "*"
           first == p[1] = "*"
<1>11. Prefix => last
  BY DEF Prefix
<1> HIDE DEF long, last, first
<1>12. wildcard_match(p, v) <=>
         IF p = star THEN TRUE ELSE IF Suffix THEN SuffixOf
         ELSE IF Prefix THEN PrefixOf ELSE p = v
  BY <1>2, <1>4, <1>5 DEF SuffixOf, PrefixOf
<1>13. Denotes(p, v) <=>
         p = star \/ p = v \/ (Suffix /\ SuffixOf) \/ (long /\ last /\ ~first /\ PrefixOf)
  BY <1>6 DEF long, last, first
<1>14. Prefix /\ p # star /\ ~Suffix => long /\ ~first
  BY <1>9 DEF long, first
<1>15. long /\ last => Prefix
  BY <1>10 DEF long, last
<1>16. Suffix => first
  BY DEF Suffix, first
<1> QED
  BY <1>7, <1>8, <1>11, <1>12, <1>13, <1>14, <1>15, <1>16, Zenon

LEMMA LowerDocumented ==
    ASSUME NEW p, Documented(p)
    PROVE  Documented(to_lower(p))
<1> DEFINE q == to_lower(p)
           star == <<"*">>
<1>1. IsText(p) /\ Len(p) \in Nat /\ (p # <<>> <=> Len(p) >= 1)
  BY TextDomain DEF Documented
<1>2. IsText(q) /\ Len(q) = Len(p) /\ \A i \in 1..Len(p) : q[i] = Lower(p[i])
  BY <1>1, LowerText
<1>3. q # <<>> <=> Len(q) >= 1
  BY <1>2, TextDomain
<1> HIDE DEF q
<1> SUFFICES ASSUME q # <<>>, q[1] = "*", q[Len(q)] = "*"
             PROVE  q = star \/ q[2] = "."
  BY <1>2 DEF Documented, q
<1>4. p # <<>> /\ 1 \in 1..Len(p) /\ Len(p) \in 1..Len(p)
  BY <1>1, <1>2, <1>3
<1>5. p[1] = "*" /\ p[Len(p)] = "*"
  BY <1>2, <1>4, LowerMark
<1>6. p = star \/ p[2] = "."
  BY <1>4, <1>5 DEF Documented
<1>7. IsText(star) /\ Len(star) = 1 /\ star[1] = "*"
  BY OneText
<1> HIDE DEF star
<1>8. CASE p = star
  <2>1. \A i \in 1..Len(q) : q[i] = star[i]
    BY <1>2, <1>7, <1>8
  <2> QED
    BY <1>2, <1>7, <1>8, <2>1, Equal
<1>9. CASE p # star
  <2>1. Len(p) # 1
    <3> SUFFICES ASSUME Len(p) = 1 PROVE FALSE
      OBVIOUS
    <3>1. \A i \in 1..Len(p) : p[i] = star[i]
      BY <1>5, <1>7
    <3> QED
      BY <1>1, <1>7, <1>9, <3>1, Equal
  <2>2. 2 \in 1..Len(p)
    <3>1. \A n \in Nat : n >= 1 /\ n # 1 => 2 \in 1..n
      OBVIOUS
    <3>2. Len(p) >= 1
      BY <1>1, <1>4
    <3> QED
      BY <1>1, <2>1, <3>1, <3>2
  <2>3. q[2] = Lower(".")
    BY <1>2, <1>6, <1>9, <2>2
  <2> QED
    BY <2>3, LowerMark
<1> QED
  BY <1>8, <1>9

\* A rule applies to what the client of r asks for as the documentation has it; a
\* rule about hosts, if the client writes no port.
LEMMA RuleApplies ==
    ASSUME NEW l, IsRule(l), Documented(l.pattern), NEW r, KeepsToHTTP(r),
           l.word = "host" => r.means.host = r.means.name
    PROVE  RuleMatches(RuleOf(l), r) <=> Applies(l, r)
<1>1. /\ RuleOf(l).field = l.word /\ RuleOf(l).pattern = l.pattern
      /\ l.word \in {"host", "path", "method"} /\ l.verb \in Policies
  BY DEF RuleOf, IsRule, Fields
<1>2. Host(r) = r.means.host /\ Path(r.line[2]) = r.means.path /\ Method(r) = r.line[1]
  BY ParsedAsMeant DEF PathOf, Method
<1>3. IsText(r.means.host) /\ IsText(r.means.path) /\ IsText(Method(r))
  BY DEF KeepsToHTTP
<1>4. IsText(to_lower(r.means.host)) /\ IsText(to_lower(Method(r)))
  BY <1>3, LowerText
<1>5. Documented(to_lower(l.pattern))
  BY LowerDocumented
<1>6. CASE l.word = "host"
  <2>1. RuleMatches(RuleOf(l), r) <=> wildcard_match(to_lower(l.pattern), to_lower(r.means.host))
    BY <1>1, <1>2, <1>6 DEF RuleMatches
  <2>2. Applies(l, r) <=> Denotes(to_lower(l.pattern), to_lower(r.means.host))
    BY <1>1, <1>6, Zenon DEF Applies
  <2> QED
    BY <1>4, <1>5, <2>1, <2>2, MatchDenotes
<1>7. CASE l.word = "path"
  <2>1. RuleMatches(RuleOf(l), r) <=> wildcard_match(l.pattern, r.means.path)
    BY <1>1, <1>2, <1>7 DEF RuleMatches
  <2>2. Applies(l, r) <=> Denotes(l.pattern, r.means.path)
    BY <1>1, <1>7 DEF Applies
  <2> QED
    BY <1>3, <2>1, <2>2, MatchDenotes
<1>8. CASE l.word = "method"
  <2>1. RuleMatches(RuleOf(l), r) <=> wildcard_match(to_lower(l.pattern), to_lower(Method(r)))
    BY <1>1, <1>2, <1>8 DEF RuleMatches
  <2>2. Applies(l, r) <=> Denotes(to_lower(l.pattern), to_lower(Method(r)))
    BY <1>1, <1>8 DEF Applies
  <2> QED
    BY <1>4, <1>5, <2>1, <2>2, MatchDenotes
<1> QED
  BY <1>1, <1>6, <1>7, <1>8

------------------------------------------------------------------------------
(* First match                                                             *)

\* H are the entries of list that match, A the lines of the file that apply: the
\* first of each are the same, or there is neither.
Leads(list, H, A, made) ==
    \/ H = {} /\ A = {}
    \/ \E k \in H, i \in A :
          /\ \A h \in H : k <= h
          /\ \A a \in A : i <= a
          /\ list[k] = made[i]

\* A line that adds entry e.
LEMMA LeadsGrows ==
    ASSUME NEW list, NEW grown, NEW H \in SUBSET Nat, NEW A \in SUBSET Nat, NEW made,
           NEW m \in Nat, NEW n \in Nat, NEW both \in BOOLEAN,
           \A h \in H : h < m /\ grown[h] = list[h],
           \A a \in A : a < n,
           grown[m] = made[n],
           Leads(list, H, A, made)
    PROVE  Leads(grown, IF both THEN H \cup {m} ELSE H, IF both THEN A \cup {n} ELSE A, made)
<1>1. CASE H = {} /\ A = {}
  <2>1. CASE both
    BY <1>1, <2>1 DEF Leads
  <2>2. CASE ~both
    BY <1>1, <2>2 DEF Leads
  <2> QED
    BY <2>1, <2>2
<1>2. ASSUME NEW k \in H, NEW i \in A, \A h \in H : k <= h, \A a \in A : i <= a,
             list[k] = made[i]
      PROVE  Leads(grown, IF both THEN H \cup {m} ELSE H, IF both THEN A \cup {n} ELSE A, made)
  <2>1. k < m /\ i < n /\ grown[k] = made[i] /\ k \in Nat /\ i \in Nat
    BY <1>2
  <2>2. CASE both
    <3>1. /\ k \in H \cup {m} /\ i \in A \cup {n}
          /\ \A h \in H \cup {m} : k <= h
          /\ \A a \in A \cup {n} : i <= a
      BY <1>2, <2>1
    <3> QED
      BY <2>1, <2>2, <3>1 DEF Leads
  <2>3. CASE ~both
    BY <1>2, <2>1, <2>3 DEF Leads
  <2> QED
    BY <2>2, <2>3
<1> QED
  BY <1>1, <1>2 DEF Leads

\* What a line that takes effect changes: one of the three.
LEMMA LineEffect ==
    ASSUME NEW R, NEW T, NEW acl \in AclOf(R, T), NEW l, LoadLine(acl, l).ok
    PROVE  LET new == LoadLine(acl, l) IN
           /\ acl.ok
           /\ \/ /\ IsDefault(l) /\ new.policy = l.word
                 /\ new.rules = acl.rules /\ new.routes = acl.routes
              \/ /\ IsRule(l) /\ new.policy = acl.policy
                 /\ new.rules = Append(acl.rules, RuleOf(l)) /\ new.routes = acl.routes
              \/ /\ IsRoute(l) /\ new.policy = acl.policy
                 /\ new.rules = acl.rules /\ new.routes = Append(acl.routes, RouteOf(l))
<1>1. acl \in [ok : BOOLEAN, rules : Seq(R), policy : Policies, routes : Seq(T)]
  BY DEF AclOf
<1>2. LoadLine(acl, l) =
        IF ~acl.ok THEN acl
        ELSE IF IsDefault(l) THEN [acl EXCEPT !.policy = l.word]
        ELSE IF IsRule(l) THEN [acl EXCEPT !.rules = Append(acl.rules, RuleOf(l))]
        ELSE IF IsRoute(l) THEN [acl EXCEPT !.routes = Append(acl.routes, RouteOf(l))]
        ELSE [acl EXCEPT !.ok = FALSE]
  BY DEF LoadLine, IsDefault, IsRule, IsRoute, RuleOf, RouteOf
<1> DEFINE new == LoadLine(acl, l)
           rs == Append(acl.rules, RuleOf(l))
           ts == Append(acl.routes, RouteOf(l))
<1> HIDE DEF rs, ts
<1>3. new =
        IF ~acl.ok THEN acl
        ELSE IF IsDefault(l) THEN [acl EXCEPT !.policy = l.word]
        ELSE IF IsRule(l) THEN [acl EXCEPT !.rules = rs]
        ELSE IF IsRoute(l) THEN [acl EXCEPT !.routes = ts]
        ELSE [acl EXCEPT !.ok = FALSE]
  BY <1>2 DEF rs, ts
<1>4. new.ok
  OBVIOUS
<1> HIDE DEF new
<1>5. acl.ok
  BY <1>3, <1>4
<1>6. IsDefault(l) \/ IsRule(l) \/ IsRoute(l)
  BY <1>1, <1>3, <1>4, <1>5
<1>7. CASE IsDefault(l)
  BY <1>1, <1>3, <1>5, <1>7 DEF new
<1>8. CASE ~IsDefault(l) /\ IsRule(l)
  <2>1. new.policy = acl.policy /\ new.rules = rs /\ new.routes = acl.routes
    BY <1>1, <1>3, <1>5, <1>8
  <2> QED
    BY <1>5, <1>8, <2>1, Zenon DEF new, rs
<1>9. CASE ~IsDefault(l) /\ ~IsRule(l) /\ IsRoute(l)
  <2>1. new.policy = acl.policy /\ new.rules = acl.rules /\ new.routes = ts
    BY <1>1, <1>3, <1>5, <1>9
  <2> QED
    BY <1>5, <1>9, <2>1, Zenon DEF new, ts
<1> QED
  BY <1>6, <1>7, <1>8, <1>9

\* What the first n lines of the file say: of r, of the host r names, and where
\* no rule applies.
AppliesBy(file, r, n) == {i \in 1..n : Applies(file[i], r)}
RoutedBy(file, r, n) == {i \in 1..n : i \in Routes(file, r)}
PolicyBy(file, n, policy) ==
    \/ policy = "allow" /\ \A i \in 1..n : file[i].verb # "default"
    \/ \E i \in 1..n : /\ file[i].verb = "default" /\ file[i].word = policy
                       /\ \A j \in 1..n : file[j].verb = "default" => j <= i

RuleHits(acl, r) == {k \in DOMAIN acl.rules : RuleMatches(acl.rules[k], r)}
RouteHits(acl, host) ==
    {k \in DOMAIN acl.routes : wildcard_match(acl.routes[k].pattern, to_lower(host))}

\* The configuration answers for r as the lines it is made of.
Mirrors(acl, file, r, host, n) ==
    /\ PolicyBy(file, n, acl.policy)
    /\ NamedPlainly(file, r) =>
          Leads(acl.rules, RuleHits(acl, r), AppliesBy(file, r, n),
                [i \in 1..Len(file) |-> RuleOf(file[i])])
    /\ Leads(acl.routes, RouteHits(acl, host), RoutedBy(file, r, n),
             [i \in 1..Len(file) |-> RouteOf(file[i])])

LEMMA AppliesStep ==
    ASSUME NEW file, NEW r, NEW n \in Nat, n > 0
    PROVE  AppliesBy(file, r, n) = IF Applies(file[n], r) THEN AppliesBy(file, r, n - 1) \cup {n}
                                   ELSE AppliesBy(file, r, n - 1)
<1>1. 1..n = 1..(n - 1) \cup {n}
  OBVIOUS
<1> QED
  BY <1>1, Zenon DEF AppliesBy

LEMMA RoutedStep ==
    ASSUME NEW file, NEW r, NEW n \in Nat, n > 0
    PROVE  RoutedBy(file, r, n) = IF n \in Routes(file, r) THEN RoutedBy(file, r, n - 1) \cup {n}
                                  ELSE RoutedBy(file, r, n - 1)
<1>1. 1..n = 1..(n - 1) \cup {n}
  OBVIOUS
<1> QED
  BY <1>1, Zenon DEF RoutedBy

LEMMA PolicyStays ==
    ASSUME NEW file, NEW n \in Nat, n > 0, NEW policy, file[n].verb # "default",
           PolicyBy(file, n - 1, policy)
    PROVE  PolicyBy(file, n, policy)
<1>1. \A i \in 1..n : i # n => i \in 1..(n - 1)
  OBVIOUS
<1>2. \A i \in 1..(n - 1) : i \in 1..n
  OBVIOUS
<1> QED
  BY <1>1, <1>2, Zenon DEF PolicyBy

LEMMA AppendIs ==
    ASSUME NEW R, NEW s \in Seq(R), NEW e \in R
    PROVE  /\ Append(s, e) \in Seq(R) /\ DOMAIN s = 1..Len(s) /\ Len(s) \in Nat
           /\ DOMAIN Append(s, e) = DOMAIN s \cup {Len(s) + 1}
           /\ \A k \in DOMAIN s : k < Len(s) + 1 /\ Append(s, e)[k] = s[k]
           /\ Append(s, e)[Len(s) + 1] = e
<1>1. Append(s, e) \in Seq(R) /\ Len(s) \in Nat /\ Len(Append(s, e)) = Len(s) + 1
  OBVIOUS
<1>2. DOMAIN s = 1..Len(s) /\ DOMAIN Append(s, e) = 1..(Len(s) + 1)
  BY <1>1
<1>3. 1..(Len(s) + 1) = 1..Len(s) \cup {Len(s) + 1}
  BY <1>1
<1>4. \A k \in 1..Len(s) : k < Len(s) + 1 /\ Append(s, e)[k] = s[k]
  BY <1>1
<1>5. Append(s, e)[Len(s) + 1] = e
  BY <1>1
<1> QED
  BY <1>1, <1>2, <1>3, <1>4, <1>5

\* A rule more.
LEMMA RuleLeads ==
    ASSUME NEW R, NEW acl, NEW new, NEW file, NEW r, NEW n \in 1..Len(file), Len(file) \in Nat,
           acl.rules \in Seq(R), RuleOf(file[n]) \in R,
           new.rules = Append(acl.rules, RuleOf(file[n])),
           RuleMatches(RuleOf(file[n]), r) <=> Applies(file[n], r),
           NEW made, made[n] = RuleOf(file[n]),
           Leads(acl.rules, RuleHits(acl, r), AppliesBy(file, r, n - 1), made)
    PROVE  Leads(new.rules, RuleHits(new, r), AppliesBy(file, r, n), made)
<1> DEFINE s == acl.rules
           e == RuleOf(file[n])
           t == new.rules
           H == RuleHits(acl, r)
           G == RuleHits(new, r)
           A == AppliesBy(file, r, n - 1)
           B == AppliesBy(file, r, n)
           both == Applies(file[n], r)
           m == Len(s) + 1
           hit == RuleMatches(e, r)
<1>1. n \in Nat /\ n > 0 /\ n - 1 \in Nat
  OBVIOUS
<1>2. s \in Seq(R) /\ e \in R /\ t = Append(s, e) /\ (hit <=> both) /\ made[n] = e
  OBVIOUS
<1>3. B = IF both THEN A \cup {n} ELSE A
  BY <1>1, AppliesStep
<1>4. A \in SUBSET Nat /\ \A a \in A : a < n
  BY <1>1 DEF AppliesBy
<1>5. H = {k \in DOMAIN s : RuleMatches(s[k], r)} /\ G = {k \in DOMAIN t : RuleMatches(t[k], r)}
  BY DEF RuleHits
<1>6. Leads(s, H, A, made)
  OBVIOUS
<1> HIDE DEF s, e, t, H, G, A, B, both, hit
<1>7. /\ DOMAIN s = 1..Len(s) /\ Len(s) \in Nat
      /\ DOMAIN t = DOMAIN s \cup {m}
      /\ \A k \in DOMAIN s : k < m /\ t[k] = s[k]
      /\ t[m] = e
  BY <1>2, AppendIs
<1> HIDE DEF m
<1>8. H \in SUBSET Nat /\ m \in Nat
  BY <1>5, <1>7 DEF m
<1>9. \A h \in H : h < m /\ t[h] = s[h]
  BY <1>5, <1>7
<1>10. G = IF both THEN H \cup {m} ELSE H
  <2>1. \A k : k \in G <=> (k \in DOMAIN s /\ RuleMatches(s[k], r)) \/ (k = m /\ RuleMatches(t[m], r))
    BY <1>5, <1>7, Zenon
  <2>2. RuleMatches(t[m], r) <=> both
    BY <1>2, <1>7 DEF hit
  <2>3. \A k : k \in G <=> k \in H \/ (k = m /\ both)
    BY <1>5, <2>1, <2>2, Zenon
  <2> QED
    BY <2>3, Zenon
<1>11. t[m] = made[n]
  BY <1>2, <1>7
<1>12. CASE both
  <2>1. Leads(t, IF TRUE THEN H \cup {m} ELSE H, IF TRUE THEN A \cup {n} ELSE A, made)
    BY <1>1, <1>4, <1>6, <1>8, <1>9, <1>11, LeadsGrows, Zenon
  <2> QED
    BY <1>3, <1>10, <1>12, <2>1 DEF t, G, B
<1>13. CASE ~both
  <2>1. Leads(t, IF FALSE THEN H \cup {m} ELSE H, IF FALSE THEN A \cup {n} ELSE A, made)
    BY <1>1, <1>4, <1>6, <1>8, <1>9, <1>11, LeadsGrows, Zenon
  <2> QED
    BY <1>3, <1>10, <1>13, <2>1 DEF t, G, B
<1> QED
  BY <1>12, <1>13
\* A route more.
LEMMA RouteLeads ==
    ASSUME NEW R, NEW acl, NEW new, NEW file, NEW r, NEW host, NEW n \in 1..Len(file), Len(file) \in Nat,
           acl.routes \in Seq(R), RouteOf(file[n]) \in R,
           new.routes = Append(acl.routes, RouteOf(file[n])),
           wildcard_match(RouteOf(file[n]).pattern, to_lower(host)) <=> n \in Routes(file, r),
           NEW made, made[n] = RouteOf(file[n]),
           Leads(acl.routes, RouteHits(acl, host), RoutedBy(file, r, n - 1), made)
    PROVE  Leads(new.routes, RouteHits(new, host), RoutedBy(file, r, n), made)
<1> DEFINE s == acl.routes
           e == RouteOf(file[n])
           t == new.routes
           H == RouteHits(acl, host)
           G == RouteHits(new, host)
           A == RoutedBy(file, r, n - 1)
           B == RoutedBy(file, r, n)
           both == n \in Routes(file, r)
           m == Len(s) + 1
           hit == wildcard_match(e.pattern, to_lower(host))
<1>1. n \in Nat /\ n > 0 /\ n - 1 \in Nat
  OBVIOUS
<1>2. s \in Seq(R) /\ e \in R /\ t = Append(s, e) /\ (hit <=> both) /\ made[n] = e
  OBVIOUS
<1>3. B = IF both THEN A \cup {n} ELSE A
  BY <1>1, RoutedStep
<1>4. A \in SUBSET Nat /\ \A a \in A : a < n
  BY <1>1 DEF RoutedBy
<1>5. /\ H = {k \in DOMAIN s : wildcard_match(s[k].pattern, to_lower(host))} 
      /\ G = {k \in DOMAIN t : wildcard_match(t[k].pattern, to_lower(host))}
  BY DEF RouteHits
<1>6. Leads(s, H, A, made)
  OBVIOUS
<1> HIDE DEF s, e, t, H, G, A, B, both, hit
<1>7. /\ DOMAIN s = 1..Len(s) /\ Len(s) \in Nat
      /\ DOMAIN t = DOMAIN s \cup {m}
      /\ \A k \in DOMAIN s : k < m /\ t[k] = s[k]
      /\ t[m] = e
  BY <1>2, AppendIs
<1> HIDE DEF m
<1>8. H \in SUBSET Nat /\ m \in Nat
  BY <1>5, <1>7 DEF m
<1>9. \A h \in H : h < m /\ t[h] = s[h]
  BY <1>5, <1>7
<1>10. G = IF both THEN H \cup {m} ELSE H
  <2>1. \A k : k \in G <=> (k \in DOMAIN s /\ wildcard_match(s[k].pattern, to_lower(host))) \/ (k = m /\ wildcard_match(t[m].pattern, to_lower(host)))
    BY <1>5, <1>7, Zenon
  <2>2. wildcard_match(t[m].pattern, to_lower(host)) <=> both
    BY <1>2, <1>7 DEF hit
  <2>3. \A k : k \in G <=> k \in H \/ (k = m /\ both)
    BY <1>5, <2>1, <2>2, Zenon
  <2> QED
    BY <2>3, Zenon
<1>11. t[m] = made[n]
  BY <1>2, <1>7
<1>12. CASE both
  <2>1. Leads(t, IF TRUE THEN H \cup {m} ELSE H, IF TRUE THEN A \cup {n} ELSE A, made)
    BY <1>1, <1>4, <1>6, <1>8, <1>9, <1>11, LeadsGrows, Zenon
  <2> QED
    BY <1>3, <1>10, <1>12, <2>1 DEF t, G, B
<1>13. CASE ~both
  <2>1. Leads(t, IF FALSE THEN H \cup {m} ELSE H, IF FALSE THEN A \cup {n} ELSE A, made)
    BY <1>1, <1>4, <1>6, <1>8, <1>9, <1>11, LeadsGrows, Zenon
  <2> QED
    BY <1>3, <1>10, <1>13, <2>1 DEF t, G, B
<1> QED
  BY <1>12, <1>13

\* One line more, and the configuration still answers as the lines do.
LEMMA MirrorsLine ==
    ASSUME NEW R, NEW T, NEW acl \in AclOf(R, T), NEW file, Len(file) \in Nat,
           DOMAIN file = 1..Len(file), NEW n \in 1..Len(file),
           IsRule(file[n]) => RuleOf(file[n]) \in R, RouteOf(file[n]) \in T,
           LoadLine(acl, file[n]).ok, Documented(file[n].pattern),
           NEW r, KeepsToHTTP(r), NEW host, to_lower(host) = to_lower(r.means.host),
           Mirrors(acl, file, r, host, n - 1)
    PROVE  Mirrors(LoadLine(acl, file[n]), file, r, host, n)
<1> DEFINE new == LoadLine(acl, file[n])
           l == file[n]
           mr == [i \in 1..Len(file) |-> RuleOf(file[i])]
           mt == [i \in 1..Len(file) |-> RouteOf(file[i])]
<1>1. /\ acl.rules \in Seq(R) /\ acl.routes \in Seq(T)
  BY DEF AclOf
<1>2. n \in Nat /\ n > 0 /\ mr[n] = RuleOf(l) /\ mt[n] = RouteOf(l)
  OBVIOUS
<1>3. /\ PolicyBy(file, n - 1, acl.policy)
      /\ NamedPlainly(file, r) =>
            Leads(acl.rules, RuleHits(acl, r), AppliesBy(file, r, n - 1), mr)
      /\ Leads(acl.routes, RouteHits(acl, host), RoutedBy(file, r, n - 1), mt)
  BY DEF Mirrors
<1>4. \/ /\ IsDefault(l) /\ new.policy = l.word
         /\ new.rules = acl.rules /\ new.routes = acl.routes
      \/ /\ IsRule(l) /\ new.policy = acl.policy
         /\ new.rules = Append(acl.rules, RuleOf(l)) /\ new.routes = acl.routes
      \/ /\ IsRoute(l) /\ new.policy = acl.policy
         /\ new.rules = acl.rules /\ new.routes = Append(acl.routes, RouteOf(l))
  BY LineEffect
<1> SUFFICES /\ PolicyBy(file, n, new.policy)
             /\ NamedPlainly(file, r) =>
                   Leads(new.rules, RuleHits(new, r), AppliesBy(file, r, n), mr)
             /\ Leads(new.routes, RouteHits(new, host), RoutedBy(file, r, n), mt)
  BY DEF Mirrors
<1> HIDE DEF new, mr, mt
<1>5. /\ n \in Routes(file, r) => l.verb = "route"
      /\ Applies(l, r) => l.verb \in Policies
  BY DEF Routes, Applies
<1>6. new.rules = acl.rules => RuleHits(new, r) = RuleHits(acl, r)
  BY DEF RuleHits
<1>7. new.routes = acl.routes => RouteHits(new, host) = RouteHits(acl, host)
  BY DEF RouteHits
<1>8. l.verb \notin Policies => AppliesBy(file, r, n) = AppliesBy(file, r, n - 1)
  BY <1>2, <1>5, AppliesStep
<1>9. l.verb # "route" => RoutedBy(file, r, n) = RoutedBy(file, r, n - 1)
  BY <1>2, <1>5, RoutedStep
<1>10. CASE IsDefault(l) /\ new.policy = l.word /\ new.rules = acl.rules /\ new.routes = acl.routes
  <2>1. l.verb = "default" /\ l.verb \notin Policies /\ l.verb # "route"
    BY <1>10 DEF IsDefault, Policies
  <2>2. PolicyBy(file, n, new.policy)
    <3>1. n \in 1..n /\ \A j \in 1..n : j <= n
      BY <1>2
    <3> QED
      BY <1>10, <2>1, <3>1 DEF PolicyBy
  <2> QED
    BY <1>3, <1>6, <1>7, <1>8, <1>9, <1>10, <2>1, <2>2
<1>11. CASE /\ IsRule(l) /\ new.policy = acl.policy
            /\ new.rules = Append(acl.rules, RuleOf(l)) /\ new.routes = acl.routes
  <2>1. l.verb # "default" /\ l.verb # "route"
    BY <1>11 DEF IsRule, Policies
  <2>2. PolicyBy(file, n, new.policy)
    BY <1>2, <1>3, <1>11, <2>1, PolicyStays
  <2>3. NamedPlainly(file, r) => (RuleMatches(RuleOf(l), r) <=> Applies(l, r))
    <3>1. l.verb \in Policies
      BY <1>11 DEF IsRule
    <3>2. NamedPlainly(file, r) /\ l.word = "host" => r.means.host = r.means.name
      BY <3>1 DEF NamedPlainly
    <3> QED
      BY <1>11, <3>2, RuleApplies
  <2>4. RuleOf(l) \in R
    BY <1>11
  <2>5. ASSUME NamedPlainly(file, r)
        PROVE  Leads(new.rules, RuleHits(new, r), AppliesBy(file, r, n), mr)
    BY <1>1, <1>2, <1>3, <1>11, <2>3, <2>4, <2>5, RuleLeads, Zenon
  <2> QED
    BY <1>3, <1>7, <1>9, <1>11, <2>1, <2>2, <2>5
<1>12. CASE /\ IsRoute(l) /\ new.policy = acl.policy
            /\ new.rules = acl.rules /\ new.routes = Append(acl.routes, RouteOf(l))
  <2>1. l.verb = "route" /\ l.verb # "default" /\ l.verb \notin Policies
    BY <1>12 DEF IsRoute, Policies
  <2>2. PolicyBy(file, n, new.policy)
    BY <1>2, <1>3, <1>12, <2>1, PolicyStays
  <2>3. wildcard_match(RouteOf(l).pattern, to_lower(host)) <=> n \in Routes(file, r)
    <3>1. RouteOf(l).pattern = to_lower(l.pattern)
      BY DEF RouteOf
    <3>2. Documented(to_lower(l.pattern))
      BY LowerDocumented
    <3>3. IsText(to_lower(host))
      <4>1. IsText(r.means.host)
        BY DEF KeepsToHTTP
      <4> QED
        BY <4>1, LowerText
    <3>4. wildcard_match(to_lower(l.pattern), to_lower(host)) <=> Denotes(to_lower(l.pattern), to_lower(host))
      BY <3>2, <3>3, MatchDenotes
    <3>5. n \in Routes(file, r) <=> Denotes(to_lower(l.pattern), to_lower(r.means.host))
      BY <2>1 DEF Routes
    <3> QED
      BY <3>1, <3>4, <3>5, Zenon
  <2>4. Leads(new.routes, RouteHits(new, host), RoutedBy(file, r, n), mt)
    BY <1>1, <1>2, <1>3, <1>12, <2>3, RouteLeads, Zenon
  <2> QED
    BY <1>3, <1>6, <1>8, <1>12, <2>1, <2>2, <2>4
<1> QED
  BY <1>4, <1>10, <1>11, <1>12

\* A file that is read completely is answered for as its lines say.
LEMMA LoadedMirrors ==
    ASSUME NEW file, Len(file) \in Nat, DOMAIN file = 1..Len(file),
           \A i \in 1..Len(file) : Documented(file[i].pattern),
           load_string(file).ok,
           NEW r, KeepsToHTTP(r), NEW host, to_lower(host) = to_lower(r.means.host)
    PROVE  Mirrors(load_string(file), file, r, host, Len(file))
<1> DEFINE R == RuleSet(file)
           T == RouteSet(file)
           acl(n) == Loaded(file)[n]
           Good(n) == /\ acl(n) \in AclOf(R, T)
                      /\ acl(n).ok => Mirrors(acl(n), file, r, host, n)
           Bad == {n \in 0..Len(file) : ~Good(n)}
<1>1. acl(0) = EmptyAcl /\ \A n \in 1..Len(file) : acl(n) = LoadLine(acl(n - 1), file[n])
  BY LoadedDefined
<1>2. \A i \in 1..Len(file) : (IsRule(file[i]) => RuleOf(file[i]) \in R) /\ RouteOf(file[i]) \in T
  BY DEF IsRule, RuleOf, RouteOf, RuleSet, RouteSet
<1>3. EmptyAcl \in AclOf(R, T)
  BY DEF EmptyAcl, AclOf, Policies
<1> HIDE DEF acl, R, T
<1>4. Good(0)
  <2>1. EmptyAcl.policy = "allow" /\ EmptyAcl.rules = <<>> /\ EmptyAcl.routes = <<>>
    BY DEF EmptyAcl
  <2>2. 1..0 = {} /\ DOMAIN <<>> = {}
    OBVIOUS
  <2>3. /\ RuleHits(EmptyAcl, r) = {} /\ RouteHits(EmptyAcl, host) = {}
        /\ AppliesBy(file, r, 0) = {} /\ RoutedBy(file, r, 0) = {}
    BY <2>1, <2>2 DEF RuleHits, RouteHits, AppliesBy, RoutedBy
  <2>4. PolicyBy(file, 0, EmptyAcl.policy)
    BY <2>1, <2>2 DEF PolicyBy
  <2>5. Mirrors(EmptyAcl, file, r, host, 0)
    BY <2>3, <2>4 DEF Mirrors, Leads
  <2> QED
    BY <1>1, <1>3, <2>5
<1>5. ASSUME NEW n \in 1..Len(file), Good(n - 1)
      PROVE  Good(n)
  <2>1. acl(n) = LoadLine(acl(n - 1), file[n])
    BY <1>1
  <2>2. acl(n - 1) \in AclOf(R, T) /\ (acl(n - 1).ok => Mirrors(acl(n - 1), file, r, host, n - 1))
    BY <1>5
  <2>3. /\ LoadLine(acl(n - 1), file[n]) \in AclOf(R, T)
        /\ LoadLine(acl(n - 1), file[n]).ok => acl(n - 1).ok
    BY <1>2, <2>2, OneLine
  <2>4. ASSUME LoadLine(acl(n - 1), file[n]).ok
        PROVE  Mirrors(LoadLine(acl(n - 1), file[n]), file, r, host, n)
    BY <1>2, <2>2, <2>3, <2>4, MirrorsLine
  <2> QED
    BY <2>1, <2>3, <2>4
<1> HIDE DEF Good
<1>6. Bad = {}
  <2> SUFFICES ASSUME Bad # {} PROVE FALSE
    OBVIOUS
  <2>1. PICK m \in Bad : \A n \in Bad : m <= n
    <3>1. Bad \in SUBSET Nat
      OBVIOUS
    <3> QED
      BY <3>1, LeastNatural
  <2>2. m \in 0..Len(file) /\ ~Good(m)
    OBVIOUS
  <2>3. m # 0
    BY <1>4, <2>2
  <2>4. m \in 1..Len(file) /\ m - 1 \in 0..Len(file) /\ m - 1 \notin Bad
    BY <2>1, <2>2, <2>3
  <2>5. Good(m - 1)
    BY <2>4
  <2> QED
    BY <1>5, <2>2, <2>4, <2>5
<1>7. Good(Len(file))
  BY <1>6
<1> QED
  BY <1>7 DEF Good, acl, load_string

\* check() decides as the file says, unless a rule has to see through a port.
LEMMA CheckIsVerdict ==
    ASSUME NEW file, Len(file) \in Nat, DOMAIN file = 1..Len(file),
           \A i \in 1..Len(file) : Documented(file[i].pattern),
           load_string(file).ok, NEW r, KeepsToHTTP(r), NamedPlainly(file, r)
    PROVE  Check(load_string(file), r) = Verdict(file, r)
<1> DEFINE acl == load_string(file)
           hits == RuleHits(acl, r)
           lines == AppliesBy(file, r, Len(file))
           made == [i \in 1..Len(file) |-> RuleOf(file[i])]
           first == {i \in DOMAIN file : /\ Applies(file[i], r)
                                         /\ \A j \in 1..(i - 1) : ~Applies(file[j], r)}
           defaults == {i \in DOMAIN file : file[i].verb = "default"}
<1>1. PolicyBy(file, Len(file), acl.policy) /\ Leads(acl.rules, hits, lines, made)
  BY LoadedMirrors DEF Mirrors
<1>2. acl \in AclOf(RuleSet(file), RouteSet(file))
  BY LoadedWell
<1>3. hits \in SUBSET Nat
  BY <1>2 DEF RuleHits, AclOf
<1>4. Check(acl, r) = IF hits = {} THEN acl.policy ELSE acl.rules[Min(hits)].decision
  BY DEF Check, RuleHits
<1>5. Verdict(file, r) = IF first # {} THEN file[CHOOSE i \in first : TRUE].verb
                         ELSE IF defaults # {} THEN file[Max(defaults)].word
                         ELSE "allow"
  BY DEF Verdict
<1>6. lines = {i \in DOMAIN file : Applies(file[i], r)}
  BY DEF AppliesBy
<1>7. lines \in SUBSET Nat
  BY <1>6
<1> SUFFICES Check(acl, r) = Verdict(file, r)
  OBVIOUS
<1> HIDE DEF acl, hits, lines, made
<1>8. ASSUME NEW k \in hits, NEW i \in lines, \A h \in hits : k <= h, \A a \in lines : i <= a,
             acl.rules[k] = made[i]
      PROVE  Check(acl, r) = Verdict(file, r)
  <2>1. Min(hits) = k
    BY <1>3, <1>8, MinIs
  <2>2. Check(acl, r) = made[i].decision
    BY <1>4, <1>8, <2>1
  <2>3. i \in 1..Len(file) /\ made[i].decision = file[i].verb
    BY <1>6 DEF made, RuleOf
  <2>4. first = {i}
    <3>1. i \in first
      <4>1. \A j \in 1..(i - 1) : j \in DOMAIN file /\ ~(i <= j)
        BY <2>3
      <4> QED
        BY <1>6, <1>8, <4>1
    <3>2. ASSUME NEW x \in first PROVE x = i
      <4>1. x \in lines /\ i \in Nat /\ x \in Nat
        BY <1>6, <1>7
      <4>2. ~(i < x)
        <5> SUFFICES ASSUME i < x PROVE FALSE
          OBVIOUS
        <5>1. i \in 1..(x - 1)
          BY <2>3, <4>1
        <5> QED
          BY <1>6, <5>1
      <4> QED
        BY <1>8, <4>1, <4>2
    <3> QED
      BY <3>1, <3>2
  <2> HIDE DEF first
  <2>5. (CHOOSE x \in first : TRUE) = i
    BY <2>4
  <2> QED
    BY <1>5, <2>2, <2>3, <2>4, <2>5
<1>9. CASE hits = {} /\ lines = {}
  <2>1. first = {}
    BY <1>6, <1>9
  <2>2. CASE acl.policy = "allow" /\ \A i \in 1..Len(file) : file[i].verb # "default"
    <3>1. defaults = {}
      BY <2>2
    <3> HIDE DEF first, defaults
    <3> QED
      BY <1>4, <1>5, <1>9, <2>1, <2>2, <3>1
  <2>3. ASSUME NEW i \in 1..Len(file), file[i].verb = "default", file[i].word = acl.policy,
               \A j \in 1..Len(file) : file[j].verb = "default" => j <= i
        PROVE  Check(acl, r) = Verdict(file, r)
    <3>1. defaults \in SUBSET Nat /\ i \in defaults /\ \A y \in defaults : y <= i
      BY <2>3
    <3> HIDE DEF first, defaults
    <3>2. Max(defaults) = i /\ defaults # {}
      BY <3>1, MaxIs
    <3> QED
      BY <1>4, <1>5, <1>9, <2>1, <2>3, <3>2
  <2> QED
    BY <1>1, <2>2, <2>3 DEF PolicyBy
<1> QED
  BY <1>1, <1>8, <1>9 DEF Leads

\* A bounded set of naturals that is not empty has a greatest element.
LEMMA GreatestOfSome ==
    ASSUME NEW n \in Nat, NEW S \in SUBSET (1..n), S # {}
    PROVE  \E x \in S : \A y \in S : x >= y
<1> DEFINE B == {b \in Nat : \A y \in S : y <= b}
<1>1. n \in B /\ B \in SUBSET Nat
  OBVIOUS
<1>2. PICK b \in B : \A c \in B : b <= c
  BY <1>1, LeastNatural
<1>3. b \in S
  <2> SUFFICES ASSUME b \notin S PROVE FALSE
    OBVIOUS
  <2>1. PICK y \in S : TRUE
    OBVIOUS
  <2>2. b >= 1 /\ \A z \in S : z <= b - 1
    BY <2>1
  <2>3. b - 1 \in B
    BY <2>2
  <2> QED
    BY <1>2, <2>3
<1>4. \A y \in S : b >= y
  OBVIOUS
<1> QED
  BY <1>3, <1>4

\* What follows the first m symbols.
LEMMA RestOf ==
    ASSUME NEW s, IsText(s), NEW n \in Nat, n = Len(s), NEW m \in 1..n
    PROVE  LET u == SubSeq(s, m + 1, n)
           IN  IsText(u) /\ Len(u) = n - m /\ \A i \in 1..(n - m) : u[i] = s[m + i]
<1> DEFINE u == SubSeq(s, m + 1, n)
<1>1. m + 1 \in 1..(n + 1) /\ n \in 0..n
  OBVIOUS
<1>2. /\ IsText(u) /\ Len(u) = IF m + 1 <= n THEN n - (m + 1) + 1 ELSE 0
      /\ \A i \in 1..(n - (m + 1) + 1) : u[i] = s[(m + 1) + i - 1]
  BY <1>1, Cut, Zenon
<1> HIDE DEF u
<1>3. Len(u) = n - m
  BY <1>2
<1>4. ASSUME NEW i \in 1..(n - m) PROVE u[i] = s[m + i]
  <2>1. i \in 1..(n - (m + 1) + 1) /\ (m + 1) + i - 1 = m + i
    OBVIOUS
  <2>2. u[i] = s[(m + 1) + i - 1]
    BY <1>2, <2>1
  <2> QED
    BY <2>1, <2>2
<1> QED
  BY <1>2, <1>3, <1>4 DEF u

\* Spellings of a host that std::tolower makes equal have the same port, and names
\* that it makes equal.
LEMMA SplitAlike ==
    ASSUME NEW a, NEW b, IsText(a), IsText(b), to_lower(a) = to_lower(b)
    PROVE  /\ to_lower(split_authority(a).host) = to_lower(split_authority(b).host)
           /\ split_authority(a).port = split_authority(b).port
<1> DEFINE colons(s) == {i \in DOMAIN s : s[i] = ":"}
           port(s) == SubSeq(s, Max(colons(s)) + 1, Len(s))
           named(s) == colons(s) # {} /\ port(s) # <<>> /\ \A i \in DOMAIN port(s) : IsDigit(port(s)[i])
<1>1. /\ Len(a) \in Nat /\ Len(a) = Len(b)
      /\ DOMAIN a = 1..Len(a) /\ DOMAIN b = 1..Len(a)
      /\ \A i \in 1..Len(a) : Lower(a[i]) = Lower(b[i])
  <2> DEFINE la == to_lower(a)
             lb == to_lower(b)
  <2>1. /\ Len(la) = Len(a) /\ \A i \in 1..Len(a) : la[i] = Lower(a[i])
        /\ Len(lb) = Len(b) /\ \A i \in 1..Len(b) : lb[i] = Lower(b[i])
    BY LowerText
  <2>2. la = lb
    OBVIOUS
  <2> HIDE DEF la, lb
  <2>3. /\ Len(a) \in Nat /\ DOMAIN a = 1..Len(a) /\ DOMAIN b = 1..Len(b)
    BY TextDomain
  <2> QED
    BY <2>1, <2>2, <2>3
<1>2. \A i \in 1..Len(a) : (a[i] = ":") <=> (b[i] = ":")
  BY <1>1, LowerMark
<1>3. colons(a) = colons(b)
  BY <1>1, <1>2
<1>4. ASSUME NEW s \in {a, b}
      PROVE  split_authority(s) =
               IF named(s)
               THEN [host |-> SubSeq(s, 1, Max(colons(s)) - 1),
                     port |-> IF Atoi(port(s)) \in PortNumbers THEN Atoi(port(s)) ELSE 80]
               ELSE [host |-> s, port |-> 80]
  BY DEF split_authority
<1> DEFINE m == Max(colons(a))
<1>5. CASE colons(a) = {}
  <2>1. ~named(a) /\ ~named(b)
    BY <1>3, <1>5
  <2> HIDE DEF named
  <2>2. split_authority(a) = [host |-> a, port |-> 80] /\ split_authority(b) = [host |-> b, port |-> 80]
    BY <1>4, <2>1
  <2> QED
    BY <2>2
<1>6. CASE colons(a) # {}
  <2> DEFINE pa == SubSeq(a, m + 1, Len(a))
             pb == SubSeq(b, m + 1, Len(a))
             ha == SubSeq(a, 1, m - 1)
             hb == SubSeq(b, 1, m - 1)
  <2>1. m \in 1..Len(a)
    <3>1. IsFiniteSet(1..Len(a)) /\ colons(a) \subseteq 1..Len(a)
      BY <1>1, FS_Interval
    <3>2. \E x \in colons(a) : \A y \in colons(a) : x >= y
      BY <1>1, <1>6, GreatestOfSome
    <3>3. m \in colons(a)
      BY <3>2 DEF Max
    <3> QED
      BY <3>1, <3>3
  <2>2. port(a) = pa /\ port(b) = pb /\ Max(colons(b)) = m
    BY <1>1, <1>3
  <2> HIDE DEF m
  <2>3. /\ IsText(pa) /\ IsText(pb) /\ Len(pa) = Len(a) - m /\ Len(pb) = Len(a) - m
        /\ \A i \in 1..(Len(a) - m) : pa[i] = a[m + i] /\ pb[i] = b[m + i]
    <3>1. ASSUME NEW s, IsText(s), Len(s) = Len(a)
          PROVE  LET u == SubSeq(s, m + 1, Len(a)) IN
                 IsText(u) /\ Len(u) = Len(a) - m /\ \A i \in 1..(Len(a) - m) : u[i] = s[m + i]
      BY <1>1, <2>1, <3>1, RestOf
    <3> QED
      BY <1>1, <3>1
  <2>4. /\ IsText(ha) /\ IsText(hb) /\ Len(ha) = m - 1 /\ Len(hb) = m - 1
        /\ \A i \in 1..(m - 1) : ha[i] = a[i] /\ hb[i] = b[i]
    <3>1. m - 1 \in 0..Len(a) /\ m - 1 \in 0..Len(b)
      BY <1>1, <2>1
    <3> QED
      BY <3>1, FirstOnes
  <2> HIDE DEF pa, pb, ha, hb
  <2>5. DOMAIN pa = 1..(Len(a) - m) /\ DOMAIN pb = 1..(Len(a) - m) /\ (pa = <<>> <=> pb = <<>>)
    BY <2>3, TextDomain
  <2>6. \A i \in 1..(Len(a) - m) : m + i \in 1..Len(a)
    BY <1>1, <2>1
  <2>7. \A i \in 1..(Len(a) - m) : IsDigit(pa[i]) \/ IsDigit(pb[i]) => pa[i] = pb[i]
    BY <1>1, <2>3, <2>6, LowerDigit
  <2>8. named(a) <=> colons(a) # {} /\ pa # <<>> /\ \A i \in 1..(Len(a) - m) : IsDigit(pa[i])
    BY <2>2, <2>5
  <2>9. named(b) <=> colons(a) # {} /\ pb # <<>> /\ \A i \in 1..(Len(a) - m) : IsDigit(pb[i])
    BY <1>3, <2>2, <2>5
  <2>10. named(a) <=> named(b)
    <3> HIDE DEF named, colons
    <3> QED
      BY <2>5, <2>7, <2>8, <2>9
  <2>11. split_authority(a) = IF named(a)
                THEN [host |-> ha, port |-> IF Atoi(pa) \in PortNumbers THEN Atoi(pa) ELSE 80]
                ELSE [host |-> a, port |-> 80]
    BY <1>4, <2>2 DEF ha, m
  <2>12. split_authority(b) = IF named(b)
                THEN [host |-> hb, port |-> IF Atoi(pb) \in PortNumbers THEN Atoi(pb) ELSE 80]
                ELSE [host |-> b, port |-> 80]
    BY <1>4, <2>2 DEF hb
  <2>13. CASE named(a)
    <3>1. pa = pb
      <4>1. \A i \in 1..Len(pa) : pa[i] = pb[i]
        BY <2>3, <2>7, <2>8, <2>13
      <4> QED
        BY <2>3, <4>1, Equal
    <3>2. to_lower(ha) = to_lower(hb)
      <4> DEFINE la == to_lower(ha)
                 lb == to_lower(hb)
      <4>1. /\ IsText(la) /\ Len(la) = Len(ha) /\ \A i \in 1..Len(ha) : la[i] = Lower(ha[i])
            /\ IsText(lb) /\ Len(lb) = Len(hb) /\ \A i \in 1..Len(hb) : lb[i] = Lower(hb[i])
        BY <2>4, LowerText
      <4> HIDE DEF la, lb
      <4>2. \A i \in 1..(m - 1) : i \in 1..Len(a)
        BY <1>1, <2>1
      <4>3. \A i \in 1..Len(la) : la[i] = lb[i]
        BY <1>1, <2>4, <4>1, <4>2
      <4>4. la = lb
        BY <2>4, <4>1, <4>3, Equal
      <4> QED
        BY <4>4 DEF la, lb
    <3> HIDE DEF named
    <3>3. split_authority(a).host = ha /\ split_authority(b).host = hb
      BY <2>10, <2>11, <2>12, <2>13
    <3>4. split_authority(a).port = split_authority(b).port
      BY <2>10, <2>11, <2>12, <2>13, <3>1
    <3> QED
      BY <3>2, <3>3, <3>4
  <2>14. CASE ~named(a)
    <3> HIDE DEF named
    <3>1. split_authority(a) = [host |-> a, port |-> 80] /\ split_authority(b) = [host |-> b, port |-> 80]
      BY <2>10, <2>11, <2>12, <2>14
    <3> QED
      BY <3>1
  <2> QED
    BY <2>13, <2>14
<1> QED
  BY <1>5, <1>6

LEMMA ColonIsNoDigit == ~IsDigit(":")
  BY DEF IsDigit, Digits

\* split_authority() finds the name and the port of a host.
LEMMA NamesSplit ==
    ASSUME NEW m, NamesHost(m), IsText(m.host), IsText(m.name)
    PROVE  split_authority(m.host) = [host |-> m.name, port |-> m.port]
<1> DEFINE a == m.host
           c == m.name
           n == Len(c)
           digits == SubSeq(a, n + 2, Len(a))
           colons == {i \in DOMAIN a : a[i] = ":"}
           port == SubSeq(a, Max(colons) + 1, Len(a))
           named == colons # {} /\ port # <<>> /\ \A i \in DOMAIN port : IsDigit(port[i])
<1>1. split_authority(a) =
        IF named THEN [host |-> SubSeq(a, 1, Max(colons) - 1),
                       port |-> IF Atoi(port) \in PortNumbers THEN Atoi(port) ELSE 80]
        ELSE [host |-> a, port |-> 80]
  BY DEF split_authority
<1>2. IsText(a) /\ IsText(c) /\ n \in Nat /\ Len(a) \in Nat /\ DOMAIN a = 1..Len(a)
  BY TextDomain
<1>3. CASE a = c /\ ~Has(c, ":") /\ m.port = 80
  <2>1. colons = {}
    BY <1>3 DEF Has
  <2> QED
    BY <1>1, <1>3, <2>1
<1>4. CASE /\ a = c \o <<":">> \o digits
           /\ digits # <<>> /\ \A i \in DOMAIN digits : IsDigit(digits[i])
           /\ m.port = IF Atoi(digits) \in PortNumbers THEN Atoi(digits) ELSE 80
  <2> DEFINE d == digits
             s == <<":">>
             v == Join(c, s)
             u == Join(v, d)
  <2>0. a = u
    BY <1>4 DEF Join
  <2>1. IsText(s) /\ Len(s) = 1 /\ s[1] = ":"
    BY OneText
  <2> HIDE DEF s
  <2>2. IsText(d)
    <3>1. PICK S : a \in Seq(S)
      BY <1>2, Over
    <3>2. SubSeq(a, n + 2, Len(a)) \in Seq(S)
      BY <1>2, <3>1
    <3> QED
      BY <3>2, Sequence
  <2> HIDE DEF d
  <2>3. Len(d) \in Nat /\ Len(d) >= 1 /\ DOMAIN d = 1..Len(d)
    BY <1>4, <2>2, TextDomain DEF d
  <2>4. /\ IsText(v) /\ Len(v) = n + Len(s) /\ \A i \in 1..n : v[i] = c[i]
        /\ \A i \in 1..Len(s) : v[n + i] = s[i]
    <3>1. IsText(c) /\ IsText(s)
      BY <1>2, <2>1
    <3> QED
      BY <3>1, JoinText
  <2>5. Len(v) = n + 1 /\ v[n + 1] = ":"
    BY <2>1, <2>4
  <2> HIDE DEF v
  <2>6. /\ IsText(u) /\ Len(u) = Len(v) + Len(d) /\ \A i \in 1..Len(v) : u[i] = v[i]
        /\ \A i \in 1..Len(d) : u[Len(v) + i] = d[i]
    <3>1. IsText(v)
      BY <2>4
    <3> QED
      BY <2>2, <3>1, JoinText
  <2> HIDE DEF u
  <2> DEFINE k == n + 1
  <2>7. /\ Len(a) = k + Len(d) /\ k \in 1..Len(a) /\ a[k] = ":" /\ k \in Nat /\ k - 1 = n
        /\ \A i \in 1..n : a[i] = c[i]
        /\ \A i \in 1..Len(d) : a[k + i] = d[i]
    <3>1. Len(u) = k + Len(d) /\ k \in 1..Len(u) /\ k \in Nat /\ k - 1 = n
      BY <1>2, <2>3, <2>5, <2>6
    <3>2. u[k] = ":"
      BY <1>2, <2>5, <2>6
    <3>3. \A i \in 1..n : u[i] = c[i]
      BY <1>2, <2>4, <2>5, <2>6
    <3>4. \A i \in 1..Len(d) : u[k + i] = d[i]
      BY <2>5, <2>6
    <3> HIDE DEF a
    <3> QED
      BY <2>0, <3>1, <3>2, <3>3, <3>4, Zenon
  <2> HIDE DEF k, a
  <2>8. \A i \in 1..Len(d) : IsDigit(d[i])
    BY <1>4, <2>3, ZenonT(60) DEF d
  <2>9. colons \in SUBSET Nat /\ k \in colons /\ \A y \in colons : y <= k
    <3>1. colons \in SUBSET Nat /\ k \in colons
      BY <1>2, <2>7
    <3>2. ASSUME NEW y \in colons PROVE y <= k
      <4> SUFFICES ASSUME k < y PROVE FALSE
        BY <3>1
      <4>1. y - k \in 1..Len(d) /\ k + (y - k) = y /\ a[y] = ":"
        BY <1>2, <2>3, <2>7
      <4>2. d[y - k] = ":"
        BY <2>7, <4>1
      <4> QED
        BY <2>8, <4>1, <4>2, ColonIsNoDigit
    <3> QED
      BY <3>1, <3>2
  <2>10. Max(colons) = k /\ colons # {}
    BY <2>9, MaxIs
  <2> HIDE DEF colons
  <2>11. port = d
    <3>1. IsText(port) /\ Len(port) = Len(a) - k /\ \A i \in 1..(Len(a) - k) : port[i] = a[k + i]
      BY <1>2, <2>7, <2>10, RestOf
    <3> HIDE DEF port
    <3>2. Len(port) = Len(d) /\ \A i \in 1..Len(port) : port[i] = d[i]
      BY <2>3, <2>7, <3>1
    <3> QED
      BY <2>2, <3>1, <3>2, Equal
  <2>12. SubSeq(a, 1, k - 1) = c
    <3> DEFINE h == SubSeq(a, 1, k - 1)
    <3>1. k - 1 \in 0..Len(a)
      BY <1>2, <2>7
    <3>2. IsText(h) /\ Len(h) = k - 1 /\ \A i \in 1..(k - 1) : h[i] = a[i]
      BY <1>2, <3>1, FirstOnes
    <3> HIDE DEF h
    <3>3. Len(h) = Len(c) /\ \A i \in 1..Len(h) : h[i] = c[i]
      BY <2>7, <3>2
    <3>4. h = c
      BY <1>2, <3>2, <3>3, Equal
    <3> QED
      BY <3>4 DEF h
  <2>13. named
    BY <1>4, <2>3, <2>8, <2>10, <2>11 DEF d
  <2> HIDE DEF named
  <2>14. m.port = IF Atoi(d) \in PortNumbers THEN Atoi(d) ELSE 80
    BY <1>4 DEF d, a
  <2> QED
    BY <1>1, <2>10, <2>11, <2>12, <2>13, <2>14 DEF a
<1> QED
  BY <1>3, <1>4 DEF NamesHost

\* resolve() goes where the file says, or to the host and port the client names.
LEMMA ResolveIsRight ==
    ASSUME NEW file, Len(file) \in Nat, DOMAIN file = 1..Len(file),
           \A i \in 1..Len(file) : Documented(file[i].pattern),
           load_string(file).ok, NEW r, KeepsToHTTP(r),
           NEW host, IsText(host), to_lower(host) = to_lower(r.means.host)
    PROVE  IsRight(file, r, resolve(load_string(file), host))
<1> DEFINE acl == load_string(file)
           hits == RouteHits(acl, host)
           lines == RoutedBy(file, r, Len(file))
           made == [i \in 1..Len(file) |-> RouteOf(file[i])]
           o == resolve(acl, host)
<1>1. Leads(acl.routes, hits, lines, made)
  BY LoadedMirrors DEF Mirrors
<1>2. acl \in AclOf(RuleSet(file), RouteSet(file))
  BY LoadedWell
<1>3. hits \in SUBSET Nat
  BY <1>2 DEF RouteHits, AclOf
<1>4. o = IF hits = {} THEN split_authority(host)
          ELSE [host |-> acl.routes[Min(hits)].host, port |-> acl.routes[Min(hits)].port]
  BY DEF resolve, RouteHits
<1>5. Routes(file, r) = lines /\ lines \in SUBSET Nat
  BY DEF RoutedBy, Routes
<1>6. IsRight(file, r, o) <=>
        IF lines # {}
        THEN o = [host |-> file[Min(lines)].host, port |-> file[Min(lines)].port]
        ELSE to_lower(o.host) = to_lower(r.means.name) /\ o.port = r.means.port
  BY <1>5 DEF IsRight
<1> SUFFICES IsRight(file, r, o)
  OBVIOUS
<1> HIDE DEF acl, hits, lines, o
<1>7. ASSUME NEW k \in hits, NEW i \in lines, \A h \in hits : k <= h, \A a \in lines : i <= a,
             acl.routes[k] = made[i]
      PROVE  IsRight(file, r, o)
  <2>1. Min(hits) = k /\ Min(lines) = i
    BY <1>3, <1>5, <1>7, MinIs
  <2>2. i \in 1..Len(file)
    BY DEF lines, RoutedBy
  <2>3. made[i].host = file[i].host /\ made[i].port = file[i].port
    BY <2>2 DEF RouteOf
  <2> QED
    BY <1>4, <1>6, <1>7, <2>1, <2>3
<1>8. CASE hits = {} /\ lines = {}
  <2>1. /\ IsText(r.means.host) /\ IsText(r.means.name) /\ NamesHost(r.means)
    BY DEF KeepsToHTTP
  <2>2. split_authority(r.means.host) = [host |-> r.means.name, port |-> r.means.port]
    BY <2>1, NamesSplit
  <2>3. /\ to_lower(split_authority(host).host) = to_lower(split_authority(r.means.host).host)
        /\ split_authority(host).port = split_authority(r.means.host).port
    BY <2>1, SplitAlike
  <2> QED
    BY <1>4, <1>6, <1>8, <2>2, <2>3
<1> QED
  BY <1>1, <1>7, <1>8 DEF Leads

------------------------------------------------------------------------------
(* What the inductive invariant says of the answers.                       *)

\* A worker with a response in hand serves a request under the file's rules.
LEMMA Busy ==
    ASSUME IndInv, NEW w \in Workers, resp[w] # None
    PROVE  /\ phase = "serve" /\ g_acl = load_string(scenario.file) /\ g_acl.ok
           /\ scenario \in Scenarios
           /\ req[w] \in scenario.requests
           /\ resp[w] \in Answers
           /\ resp[w] # BadRequest => Valid(req[w])
           /\ resp[w] = Forbidden => Check(g_acl, req[w]) # "allow"
           /\ resp[w] \in OriginResponses \cup {BadGateway} => Check(g_acl, req[w]) = "allow"
           /\ resp[w] \in OriginResponses => Answering(scenario, g_acl, resp[w], req[w])
<1> DEFINE p == resp[w]
           r == req[w]
           s == pc[w]
<1>1. InHand(scenario, g_acl, s, r, p, state[w])
  BY DEF IndInv, Handling
<1>2. s \in Stages /\ p # None
  BY DEF IndInv, ServeType
<1>3. scenario \in Scenarios /\ (phase # "serve" => s = "idle")
      /\ (phase = "serve" => g_acl = load_string(scenario.file) /\ g_acl.ok)
  BY DEF IndInv, ServeType, Booted
<1>4. \A q \in {Forbidden, BadGateway, BadRequest} : q \notin OriginResponses
  BY AnswersAssumption
<1> HIDE DEF p, r, s
<1>5. s \in {"store", "send", "log"}
  BY <1>1, <1>2 DEF InHand, Stages
<1>6. phase = "serve" /\ r \in scenario.requests
  BY <1>1, <1>3, <1>5 DEF InHand
<1>7. CASE s = "store"
  BY <1>1, <1>3, <1>4, <1>6, <1>7 DEF InHand, Answering, Answers, p, r, s
<1>8. CASE s \in {"send", "log"}
  BY <1>1, <1>3, <1>4, <1>6, <1>8 DEF InHand, p, r, s
<1> QED
  BY <1>5, <1>7, <1>8

\* A response an origin gave, for any worker that has one.
LEMMA Origin ==
    ASSUME NEW w \in Workers, FromOrigin(w), resp[w] \in Answers
    PROVE  resp[w] \in OriginResponses
  BY DEF FromOrigin, Answers

LEMMA Balance == IndInv => AccountsBalance
<1> SUFFICES ASSUME IndInv PROVE AccountsBalance
  OBVIOUS
<1> DEFINE Pending(o) == {w \in At("store") \cup At("send") \cup At("log") : Outcome(w) = o}
<1>1. At("acl") \cup At("lookup") \cup At("fetch") = {w \in Workers : Class[w] = "wait"}
  <2>1. ASSUME NEW w \in Workers
        PROVE  pc[w] \in {"acl", "lookup", "fetch"} <=> Class[w] = "wait"
    BY DEF Class, ClassOf
  <2> QED
    BY <2>1 DEF At
<1>2. ASSUME NEW o \in Outcomes
      PROVE  Pending(o) = {w \in Workers : Class[w] = o}
  <2>1. ASSUME NEW w \in Workers
        PROVE  pc[w] \in {"store", "send", "log"} /\ Outcome(w) = o <=> Class[w] = o
    <3>1. CASE pc[w] \in {"store", "send", "log"}
      BY <3>1 DEF Class, ClassOf, Outcome
    <3>2. CASE pc[w] \notin {"store", "send", "log"}
      BY <3>2 DEF Class, ClassOf, Outcomes
    <3> QED
      BY <3>1, <3>2
  <2> QED
    BY <2>1 DEF At
<1>3. Cardinality(At("acl") \cup At("lookup") \cup At("fetch")) = N("wait")
  BY <1>1 DEF N, Count
<1>4. \A o \in Outcomes : Cardinality(Pending(o)) = N(o)
  BY <1>2 DEF N, Count
<1>5. Accounts
  BY DEF IndInv
<1>6. CountersBalance
  BY <1>3, <1>5 DEF CountersBalance, Accounts
<1>7. LogMatchesCounters
  <2> HIDE DEF Pending
  <2>1. /\ Cardinality(Pending("BAD")) = N("BAD") /\ Cardinality(Pending("DENY")) = N("DENY")
        /\ Cardinality(Pending("HIT")) = N("HIT") /\ Cardinality(Pending("ERROR")) = N("ERROR")
        /\ Cardinality(Pending("OK")) = N("OK")
    BY <1>4 DEF Outcomes
  <2>2. /\ log["BAD"] + Cardinality(Pending("BAD")) + refused[431] = bad_requests
        /\ log["DENY"] + Cardinality(Pending("DENY")) = denied_requests
        /\ log["HIT"] + Cardinality(Pending("HIT")) = cache_served
        /\ log["ERROR"] + Cardinality(Pending("ERROR")) = upstream_errors
        /\ log["OK"] + Cardinality(Pending("OK")) = forwarded_requests
    BY <1>5, <2>1 DEF Accounts
  <2> QED
    BY <2>2 DEF LogMatchesCounters, Pending
<1> QED
  BY <1>6, <1>7 DEF AccountsBalance

\* No two requests share a key of the cache unless they ask for the same.
KeysDistinguish ==
    \A s \in Scenarios : \A r, q \in s.requests :
        Valid(r) /\ Valid(q) /\ CacheKey(r) = CacheKey(q) => SameResource(r, q)

\* resolve() goes where the file says, also for a request that shares its key of
\* the cache with another.
RoutesAgree ==
    \A s \in Scenarios : \A r, q \in s.requests :
        Valid(r) /\ Valid(q) /\ CacheKey(r) = CacheKey(q) /\ load_string(s.file).ok =>
            IsRight(s.file, r, resolve(load_string(s.file), Host(q)))

\* check() decides as the file says, unless a rule has to see through a port.
RulesAgree ==
    \A s \in Scenarios : \A r \in s.requests :
        Valid(r) /\ load_string(s.file).ok /\ NamedPlainly(s.file, r) =>
            Check(load_string(s.file), r) = Verdict(s.file, r)

LEMMA Own == IndInv /\ KeysDistinguish => OwnAnswer
<1> SUFFICES ASSUME IndInv, KeysDistinguish, NEW w \in Workers, FromOrigin(w)
             PROVE  \/ resp[w].for = req[w]
                    \/ /\ SameResource(resp[w].for, req[w])
                       /\ ~resp[w].for.auth /\ ~req[w].auth
  BY DEF OwnAnswer
<1>1. resp[w] # None /\ resp[w] # BadRequest
  BY DEF FromOrigin
<1>2. /\ scenario \in Scenarios /\ req[w] \in scenario.requests /\ Valid(req[w])
      /\ resp[w] \in Answers
      /\ resp[w] \in OriginResponses => Answering(scenario, g_acl, resp[w], req[w])
  BY <1>1, Busy
<1>3. Answering(scenario, g_acl, resp[w], req[w])
  BY <1>2, Origin
<1> QED
  BY <1>2, <1>3 DEF Answering, KeysDistinguish

LEMMA RightPlace == IndInv /\ RoutesAgree => RightOrigin
<1> SUFFICES ASSUME IndInv, RoutesAgree, NEW w \in Workers, FromOrigin(w)
             PROVE  IsRight(scenario.file, req[w], resp[w].from)
  BY DEF RightOrigin
<1> DEFINE q == resp[w].for
<1>1. resp[w] # None /\ resp[w] # BadRequest
  BY DEF FromOrigin
<1>2. /\ scenario \in Scenarios /\ req[w] \in scenario.requests /\ Valid(req[w])
      /\ resp[w] \in Answers /\ g_acl = load_string(scenario.file) /\ g_acl.ok
      /\ resp[w] \in OriginResponses => Answering(scenario, g_acl, resp[w], req[w])
  BY <1>1, Busy
<1>3. Answering(scenario, g_acl, resp[w], req[w])
  BY <1>2, Origin
<1>4. /\ resp[w].from = resolve(g_acl, Host(q))
      /\ q \in scenario.requests /\ Valid(q) /\ CacheKey(q) = CacheKey(req[w])
  BY <1>2, <1>3 DEF Answering
<1> HIDE DEF q
<1>5. IsRight(scenario.file, req[w], resolve(load_string(scenario.file), Host(q)))
  BY <1>2, <1>4 DEF RoutesAgree
<1> QED
  BY <1>2, <1>4, <1>5

LEMMA Denied == IndInv /\ RulesAgree => DeniedStopsHere
<1> SUFFICES ASSUME IndInv, RulesAgree PROVE DeniedStopsHere
  OBVIOUS
<1>1. ASSUME NEW r \in fetched, NamedPlainly(scenario.file, r)
      PROVE  Verdict(scenario.file, r) = "allow"
  <2>1. /\ scenario \in Scenarios /\ g_acl = load_string(scenario.file) /\ g_acl.ok
        /\ r \in scenario.requests /\ Valid(r) /\ Check(g_acl, r) = "allow"
    BY DEF IndInv, ServeType, Booted, Fetched
  <2> QED
    BY <1>1, <2>1 DEF RulesAgree
<1>2. ASSUME NEW w \in Workers, resp[w] \notin {None, BadRequest},
             NamedPlainly(scenario.file, req[w])
      PROVE  (resp[w] = Forbidden) = (Verdict(scenario.file, req[w]) = "deny")
  <2> DEFINE v == Check(g_acl, req[w])
  <2>1. /\ scenario \in Scenarios /\ req[w] \in scenario.requests /\ Valid(req[w])
        /\ resp[w] \in Answers /\ g_acl = load_string(scenario.file) /\ g_acl.ok
        /\ resp[w] = Forbidden => v # "allow"
        /\ resp[w] \in OriginResponses \cup {BadGateway} => v = "allow"
    BY <1>2, Busy
  <2>2. v = Verdict(scenario.file, req[w])
    BY <1>2, <2>1 DEF RulesAgree
  <2>3. v \in Policies
    <3>1. g_acl \in AclOf(RuleSet(scenario.file), RouteSet(scenario.file))
      BY <2>1, FilesAssumption, LoadedWell
    <3> QED
      BY <3>1, CheckDecides
  <2> HIDE DEF v
  <2>4. resp[w] # Forbidden => resp[w] \in OriginResponses \cup {BadGateway}
    BY <1>2, <2>1 DEF Answers
  <2> QED
    BY <2>1, <2>2, <2>3, <2>4 DEF Policies
<1> QED
  BY <1>1, <1>2 DEF DeniedStopsHere

LEMMA Closed == IndInv => FailClosed
<1> SUFFICES ASSUME IndInv, phase = "serve"
             PROVE  \A i \in DOMAIN scenario.file : WellFormed(scenario.file[i])
  BY DEF FailClosed
<1>1. scenario \in Scenarios /\ g_acl = load_string(scenario.file) /\ g_acl.ok
  BY DEF IndInv, ServeType, Booted
<1>2. Len(scenario.file) \in Nat /\ DOMAIN scenario.file = 1..Len(scenario.file)
  BY <1>1, FilesAssumption
<1> QED
  BY <1>1, <1>2, LoadedWell

------------------------------------------------------------------------------
(* Clients that keep to HTTP and files that keep to the documentation.     *)

\* Equal keys of the cache: equal methods, hosts but for case, and paths.
LEMMA KeyIsResource ==
    ASSUME NEW r, NEW q, KeepsToHTTP(r), KeepsToHTTP(q), CacheKey(r) = CacheKey(q)
    PROVE  SameResource(r, q)
<1>1. ASSUME NEW x, KeepsToHTTP(x)
      PROVE  /\ IsText(Method(x)) /\ IsText(to_lower(x.means.host)) /\ IsText(x.means.path)
             /\ ~Has(Method(x), "SP") /\ ~Has(to_lower(x.means.host), "/")
             /\ x.means.path # <<>> /\ x.means.path[1] = "/"
             /\ CacheKey(x) = Join(Join(Join(Method(x), <<"SP">>), to_lower(x.means.host)),
                                   x.means.path)
  <2> DEFINE h == x.means.host
  <2>1. /\ IsText(Method(x)) /\ IsText(h) /\ IsText(x.means.path)
        /\ ~Has(Method(x), "SP") /\ ~Has(h, "/")
        /\ x.means.path # <<>> /\ x.means.path[1] = "/"
    BY <1>1 DEF KeepsToHTTP
  <2>2. /\ IsText(to_lower(h)) /\ Len(to_lower(h)) = Len(h)
        /\ \A i \in 1..Len(h) : to_lower(h)[i] = Lower(h[i])
    BY <2>1, LowerText
  <2>3. DOMAIN h = 1..Len(h) /\ DOMAIN to_lower(h) = 1..Len(h)
    BY <2>1, <2>2, TextDomain
  <2>4. ~Has(to_lower(h), "/")
    BY <2>1, <2>2, <2>3, LowerMark DEF Has
  <2>5. Host(x) = h /\ PathOf(x) = x.means.path
    BY <1>1, ParsedAsMeant
  <2>6. CacheKey(x) = Join(Join(Join(Method(x), <<"SP">>), to_lower(h)), x.means.path)
    BY <2>5 DEF CacheKey, Join
  <2> QED
    BY <2>1, <2>2, <2>4, <2>6
<1> DEFINE hr == to_lower(r.means.host)
           hq == to_lower(q.means.host)
<1>2. Join(Join(Join(Method(r), <<"SP">>), hr), r.means.path)
        = Join(Join(Join(Method(q), <<"SP">>), hq), q.means.path)
  BY <1>1
<1>3. Method(r) = Method(q) /\ hr = hq /\ r.means.path = q.means.path
  BY <1>1, <1>2, KeyShows
<1> QED
  BY <1>3 DEF SameResource

\* From what clients write and files say to what Own, RightPlace and Denied ask.
LEMMA KeysTell == ClientsKeepToHTTP => KeysDistinguish
  BY KeyIsResource DEF ClientsKeepToHTTP, KeysDistinguish

LEMMA RulesTell == ClientsKeepToHTTP /\ FilesAreDocumented => RulesAgree
<1> SUFFICES ASSUME ClientsKeepToHTTP, FilesAreDocumented,
                    NEW s \in Scenarios, NEW r \in s.requests, Valid(r), load_string(s.file).ok,
                    NamedPlainly(s.file, r)
             PROVE  Check(load_string(s.file), r) = Verdict(s.file, r)
  BY DEF RulesAgree
<1>1. KeepsToHTTP(r)
  BY DEF ClientsKeepToHTTP
<1>2. /\ Len(s.file) \in Nat /\ DOMAIN s.file = 1..Len(s.file)
      /\ \A i \in 1..Len(s.file) : Documented(s.file[i].pattern)
  BY FilesAssumption DEF FilesAreDocumented
<1> QED
  BY <1>1, <1>2, CheckIsVerdict

LEMMA RoutesTell == ClientsKeepToHTTP /\ FilesAreDocumented => RoutesAgree
<1> SUFFICES ASSUME ClientsKeepToHTTP, FilesAreDocumented,
                    NEW s \in Scenarios, NEW r \in s.requests, NEW q \in s.requests,
                    Valid(r), Valid(q), CacheKey(r) = CacheKey(q), load_string(s.file).ok
             PROVE  IsRight(s.file, r, resolve(load_string(s.file), Host(q)))
  BY DEF RoutesAgree
<1>1. KeepsToHTTP(r) /\ KeepsToHTTP(q)
  BY DEF ClientsKeepToHTTP
<1>2. /\ Len(s.file) \in Nat /\ DOMAIN s.file = 1..Len(s.file)
      /\ \A i \in 1..Len(s.file) : Documented(s.file[i].pattern)
  BY FilesAssumption DEF FilesAreDocumented
<1>3. SameResource(r, q)
  BY <1>1, KeyIsResource
<1>4. Host(q) = q.means.host
  BY <1>1, ParsedAsMeant
<1>5. IsText(Host(q))
  BY <1>1, <1>4 DEF KeepsToHTTP
<1>6. to_lower(Host(q)) = to_lower(r.means.host)
  BY <1>3, <1>4 DEF SameResource
<1> QED
  BY <1>1, <1>2, <1>5, <1>6, ResolveIsRight

------------------------------------------------------------------------------
(* The theorems.                                                           *)

\* Whatever the workers interleave, each has in hand what its stage calls for, the
\* rules in force are the file's, and the accounts count every worker once.
THEOREM Invariance == Spec => []IndInv
  BY InitInv, NextInv, PTL DEF Spec

\* Every request taken is counted once, and the log agrees with the counters class
\* by class, for any number of workers (AccountsBalance).
THEOREM EveryRequestAccounted == Spec => []AccountsBalance
  BY Invariance, Balance, PTL

\* Only an origin's 200 to a request without Authorization, for the entry's own
\* method, host and path and free to be kept, is ever in the cache (CacheHoldsPublic).
THEOREM CacheIsPublic == Spec => []CacheHoldsPublic
<1>1. IndInv => CacheHoldsPublic
  BY DEF IndInv, Stored, Public, CacheHoldsPublic
<1> QED
  BY <1>1, Invariance, PTL

\* Whatever clients that keep to HTTP send, in whichever form, serve_one_request()
\* answers a client with what it asks for, and never with what another's
\* credentials got: the keys of the cache tell resources apart (OwnAnswer).
THEOREM AnswerIsOwn == ClientsKeepToHTTP => (Spec => []OwnAnswer)
<1> SUFFICES ASSUME ClientsKeepToHTTP PROVE Spec => []OwnAnswer
  OBVIOUS
<1>1. IndInv => OwnAnswer
  BY Own, KeysTell
<1> QED
  BY <1>1, Invariance, PTL

\* For files of any length with documented patterns, an answer comes from the
\* origin of the file's first route for the host the client means, or else from
\* the host and port it names, through the cache too: resolve(), split_authority()
\* and wildcard_match() compute what the documentation says (RightOrigin).
THEOREM OriginIsRight ==
    ClientsKeepToHTTP /\ FilesAreDocumented => (Spec => []RightOrigin)
<1> SUFFICES ASSUME ClientsKeepToHTTP, FilesAreDocumented PROVE Spec => []RightOrigin
  OBVIOUS
<1>1. IndInv => RightOrigin
  BY RightPlace, RoutesTell
<1> QED
  BY <1>1, Invariance, PTL

\* For files of any length with documented patterns, a request gets 403 if and only
\* if the first line that applies to what its client means, or else the default,
\* denies it; then it reaches neither cache nor upstream (DeniedStopsHere).  A client
\* that writes a port after the host is left out if the file has a rule about hosts:
\* check() compares such a rule with host and port.
THEOREM FileDecides ==
    ClientsKeepToHTTP /\ FilesAreDocumented => (Spec => []DeniedStopsHere)
<1> SUFFICES ASSUME ClientsKeepToHTTP, FilesAreDocumented
             PROVE  Spec => []DeniedStopsHere
  OBVIOUS
<1>1. IndInv => DeniedStopsHere
  BY Denied, RulesTell
<1> QED
  BY <1>1, Invariance, PTL

\* For every file: if load_string() meets a line it does not understand, the server
\* never serves (FailClosed).
THEOREM MistakeEndsServer == Spec => []FailClosed
  BY Invariance, Closed, PTL
==============================================================================
