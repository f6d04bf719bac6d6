# A TLA+ model of the multi-threaded proxy server

The system is a caching forward HTTP proxy for Linux: one thread waits on epoll
and accepts connections, a pool of workers serves them, responses are kept in a
sharded LRU cache, every request passes an access-control list and leaves a line
in a buffered access log. `server_phase5.cpp` is the proxy, with `http.hpp` and
`lru_cache.hpp`; the other servers are its earlier stages, and a test origin and a
load generator go with it. This directory holds
TLA+ modules for its parts, TLC configurations that check them on small
instances, and TLAPS proofs, for all instances, about each part of the proxy and
about its fourth stage.

## 1. Inventory

| Component | State | Operations | Hard part | What makes it correct |
|---|---|---|---|---|
| Task queue and thread pool (`server_phase5.cpp` 51-119) | `tasks_`, `mtx_`, `cv_`, `shutdown_`, `high_water_`, threads | push, pop, stop, join | lost wakeups, shutdown with work queued | FIFO, each task once, nobody asleep while needed, join returns drained |
| Response cache (`lru_cache.hpp`) | list and index per shard, counters | get, put, erase, stats, reset | iterators into a list whose nodes come and go; sums over shards | list and index agree, capacity, exact LRU, latest value |
| Event loop and connections (`server_phase5.cpp` 164-217, 431-523, 721-783) | `Conn` objects, descriptors, epoll registrations, counters | accept, dispatch, handle_ready, re-arm, close_conn | ownership without locks, reuse of descriptor numbers, edge-triggered events, half-received requests | one holder per Conn, no leak, no lost event, answers in order |
| Upstream fetch (`server_phase5.cpp` 240-346) | address list, socket, buffer | resolve, connect, send, read to the framing | origins that stop, close or reset anywhere; timeouts | everything released, success means a whole response, always ends |
| Request handling (`server_phase5.cpp` 352-427) | `g_stats`, the cache, the log | serve_one_request | several workers on the same key | counters and log classify each request once, only public responses cached, denied requests stop |
| Access log (`http.hpp` 519-631) | buffer, file, cached timestamp prefix | write, flush, open | two locked sections per line, flusher, crash | no line lost or repeated, own timestamp, bounded loss in a crash |
| Request parsing (`http.hpp` 79-195) | none | find_header_end, parse_request | two forms of a target, folded headers, incomplete input | one host, path and key for one resource; what is complete is decided the same way however input is cut |
| Response framing (`http.hpp` 215-319) | none | parse_response_headers, chunked_body_complete, response_complete | chunk data that looks like framing, any cut | complete exactly when the message is |
| Access control and routing (`http.hpp` 339-510) | rules, default, routes | load_string, check, resolve | order of rules, patterns, refusing a bad file | first match wins, a bad file never means allow all |
| Fourth server (`server_phase4.cpp`) | epoll set, queue, cache under a reader-writer lock | accept, dispatch, handle_request, get, put | a get with two locks, stampedes, the descriptor limit, SIGPIPE | every client answered before it is closed, every lookup counted once |
| Third server's pool (`server_phase3.cpp` 26-96) | queue, flags, threads | push, pop, stop, shutdown | stop() without the mutex | shutdown returns |
| Base and second server | none | one thread per connection | | not modelled |
| Test origin (`origin_server.cpp`) | `Conn` buffers, epoll, queue | accept, handle, close_conn | ONESHOT re-arming, half requests, `--close` | every request is answered |
| Load generator (`benchmark.cpp`) | socket and buffer per thread, counters | connect_to, send_all, read_one_response | responses in pieces on a reused connection | an ok is the whole answer to its own request, every request counted once |
| Tests and scripts | | | | not part of the system |

How they interact: `main()` pushes `handle_ready(c)` into the task queue for
every event of a connection; the worker that pops it owns `c` until it re-arms
the descriptor or deletes `c`; for each complete request it calls
`serve_one_request`, which asks the access list, the cache, `fetch_upstream` and
the cache again, sends, and writes to the log; a statistics thread flushes the
log every 100 ms and reads the counters. `PROJECT.json` lists under "hazards"
where this is hard to test. In a benchmark the load generator's threads play the
clients and the origin answers what the proxy fetches; both can also be run
against each other, which is what `Harness` does.

## 2. Modules

| Module | Models | State and actions |
|---|---|---|
| `WorkQueue` | what the queue and pool promise (abstract) | pending tasks, the task each worker holds; Add, Take, Finish, Close, Leave |
| `TaskQueue` | the queue and pool | the mutex, where each thread is, the queue; one action per critical section or notification. `cv_.wait` is two steps: test with the mutex held (PopEmpty), then release and sleep (Block) |
| `ForgetfulStore` | what the cache promises (abstract) | a partial map in shards; a step puts one key or forgets entries, a put forgets another entry only when its key is new to a full shard, and a shard keeps to its capacity |
| `ShardedLRUCache` | the cache | lists of nodes with addresses, an index of addresses; get, put (three cases) and erase are one step each, under their shard's mutex; stats and reset are one step per shard |
| `EventLoop` | connections from accept to delete | clients and kernel (external), main()'s loop, workers in handle_ready and close_conn, a step per system call |
| `ResponseFraming` | parse_response_headers, chunked_body_complete, response_complete | operators on sequences of characters |
| `UpstreamFetch` | fetch_upstream against one origin | a step per system call, and an origin that sends, closes or resets; when to stop reading is `ResponseFraming`'s answer |
| `RequestParsing` | parse_request | operators on a header block as words of tokens |
| `AccessControl` | load_string, check, wildcard_match, resolve, split_authority | operators on lines and requests |
| `ServeRequest` | from the rules file to the answers, by several workers | Load, then a step per access to shared state; the refusals of handle_ready |
| `AccessLog` | the log, its flusher and shutdown | write is three steps: clock, first lock, second lock; a write to the file may fail part of the way and the stream is then bad |
| `EarlyPool` | the queue and pool of phases 3 and 4 | as `TaskQueue`, with the unlocked stop() and the `running` flag |
| `CachingServer` | the fourth server | clients and epoll (external), main()'s loop, a worker's recv, the two locks of get, put, send and close |
| `Loopback` | TCP connections of the harness (external) | two streams, two ends, resets |
| `OriginServer`, `LoadGenerator` | origin and benchmark | a step per system call; requests and responses travel in two pieces |
| `Harness` | both together | the composition, its fairness and properties |
| `MC*` | | instances for TLC |
| `TaskQueueProofs`, `ShardedLRUCacheProofs`, `EventLoopProofs`, `UpstreamFetchProofs`, `ServeRequestProofs`, `AccessLogProofs`, `CachingServerProofs`, `HarnessProofs` | | the theorems about each module (section 5) |

The modules stand on each other by contract: `EventLoop` uses the FIFO queue that
`TaskQueue` is proved to implement, `ServeRequest` uses a cache with atomic get
and put that may evict at any time and a fetch with the outcomes of
`UpstreamFetch`, and `EventLoop` takes serve_one_request as a step with the
outcomes of `ServeRequest`.

Data is abstracted to what the properties tell apart. A task is the number of its
push. Client input is a sequence of pieces, each of which ends a header block or
does not; since one `recv` may return any number of bytes, the piece is the
smallest unit that changes what the parser can say. A piece that ends a header block
ends it in CRLF CRLF or in LF LF, which find_header_end tells apart. An upstream response is a
header (status, Transfer-Encoding, Content-Length) and a body of characters, so
that the chunk walk is the code's. Hosts, paths and patterns are sequences of
tokens: separators, wildcards and names are tokens of their own. A cache key is
such a sequence: method, space, lower-cased host and path, joined as the code does.
Log lines are the writer, a number and the second they show. Bodies of the fourth
server are the path they are made for.

Definitions whose comment begins with "Mutant" are not part of the model: each is
a plausible mistake in the definition that follows it, kept to show that the
property it is paired with in `PROJECT.json` would notice.

## 3. Runs

| Run | Instance | Shows |
|---|---|---|
| `task_queue` | 3 workers, 4 tasks, 2 spurious wakeups | `FifoOnce`, `WorkConserving`, `NoneAsleepAfterStop`, `DrainedAtJoin`, the inductive invariant `IndInv`; every queued task runs, shutdown terminates, and the abstract `WorkQueue` is implemented with its fairness |
| `cache` | 2 shards of capacity 2, 3 keys in one and 1 in the other, 2 values, 3 addresses | `IndexMatchesList`, `HoldsLatest`, `ExactLRU`; `StatsBracketed`: a sum over shards taken lock by lock; `ImplementsStore`: the refinement of `ForgetfulStore` |
| `event_loop` | 2 clients, 2 workers, 1 descriptor, 1 failing call; every stream of up to 2 and chosen ones of 3 and 4 pieces, with CRLF and bare LF line ends | `SingleOwner`, `HeldIffLive`, `OwnDescriptor`, `ActiveCounts`, `AnswersInOrder`; `RequestsServed`, `HungUpClosed`, `BacklogAccepted` |
| `upstream` | responses of each framing, complete, cut and malformed, with extensions, trailers and data that looks like a last chunk | `OkIsFramed`, `TimeoutMeansIncomplete`, `FetchEnds` |
| `upstream_truncated` | the same | a violation of `OkIsComplete` (finding 1) |
| `upstream_head` | responses that announce a body and have none | a violation of `TimeoutMeansIncomplete` (finding 2) |
| `serve_request` | 2 workers, 3 requests, 11 rules files with 2 to 4 kinds of request each | `AccountsBalance`, `CacheHoldsPublic`, `OwnAnswer`, `RightOrigin`, `DeniedStopsHere`, `FailClosed` |
| `serve_unlogged` | the same | a violation of `LineAlways` (finding 4) |
| `access_log` | 2 writers of 2 lines, buffer of 2 lines | `NoLineLost`, `CompleteAtExit`, `CrashLoss`, `OwnTimestamp`, `NoHole` |
| `caching_server` | 3 clients (2 for one path), 3 descriptors, 2 workers, cache of 1 entry, 1 client that leaves | `ClosedAnswered`, `CacheAccounts`, `RequestAnswered` |
| `harness` | 2 threads of 2 requests, 2 workers, 1 fault, all four settings of keep-alive | `OwnResponse`, `BenchmarkSettles` |
| `early_pool` | 2 workers, 2 tasks | a violation of `ShutdownReturns` (finding 3) |

Why the bounds are enough to see the interesting cases:

- Three workers let one sleep, one be about to sleep and one run while main()
  pushes or stops; four tasks exceed the workers, so the queue fills behind them.
- Capacity two with three keys is the least in which a hit changes the victim;
  with as many addresses as the shards can hold nodes, a new node takes the memory
  of the evicted one, and a shard that kept one too many would find memory for it.
  The second shard with one key is there for the sums, and for a put that must not
  disturb the other shard.
- Two clients, two workers and one descriptor are the least in which a descriptor
  number is reused while its last owner is still inside close_conn, and here every
  accept reuses one: while one worker is still in close_conn of the first
  connection another may be in handle_ready of the second. The second client must
  wait for the first. What more descriptors and clients add, connections that are
  open side by side, is in the proofs of section 5. One failing system call per behaviour is placed at
  every point where one can fail.
- `MaxHeader = 2` and `MaxBody = 1` pieces put all limits within reach of streams
  of four pieces, and leave room for two pipelined requests.
- Three requests on two workers allow a store to race a lookup and an eviction and
  be followed by a hit. The requests of a file differ in one respect each: the
  spelling of the host, the form of the target, credentials, method, port, a host
  or path that is a prefix of another. The reference reading of a file (`Verdict`,
  `Routes`, `WellFormed`) is written apart from the code's operators: a pattern is
  the set of words it denotes, and a rule applies to what the client means.
- Chunked bodies of up to 17 characters have two chunks, an extension, a trailer,
  and a last chunk's bytes inside data; `MaxChunk` puts an absurd size in reach.
- In the fourth server three descriptors for three clients reach the descriptor
  limit, at which accept() fails although nobody waits, and a number is reused when
  a connection is closed before the last one is accepted; a third path evicts between the two locks of get.
- Two requests per thread are what it takes to be out of step, or to lose the
  second to a connection the origin has closed.
- Two lines per writer and a buffer of two give a flush by size, by timer and at
  exit; the clock takes two values in any order. Any write may fail after any part.

For every safety property of `TaskQueue`, `ShardedLRUCache`, `EventLoop`,
`UpstreamFetch`, `ServeRequest`, `AccessLog`, `CachingServer` and `Harness` the
proofs of section 5 remove these bounds, those on the length of requests, patterns,
rules files and chunked bodies too. They remain for liveness.

Only `SYMMETRY` sets that permute interchangeable workers, keys or addresses are
used, and in runs without liveness properties only
(`ImplementsStore` is a safety property).

Fairness. `TaskQueue`, `EventLoop`, `CachingServer` and `Harness` assume weak
fairness of each thread: the scheduler eventually runs a thread that can step. No fairness is assumed of
clients, of the origin, of failures, or of main()'s choice to leave its loop. In
`TaskQueue` a thread waiting for the mutex can be overtaken only finitely often,
since pushes and spurious wakeups are bounded, so strong fairness of the mutex is
not needed. `UpstreamFetch` has weak fairness of the fetch: connect, send and recv
have `SO_SNDTIMEO` or `SO_RCVTIMEO`, so they return. getaddrinfo
(`server_phase5.cpp:250`) has no timeout of the program's; that it returns rests on
the resolver, which gives up after its own attempts. A worker that serves a request
returns for the same reason, and because `send_all` gives up on a stalled peer.
Clients of `Harness` are the load generator's threads, so they are fair too; the
origin's listener is level-triggered, so every waiting connection is accepted.

Four properties leave out what the code does not do, each by a condition in its
formula:

- `RequestAnswered` leaves out a main() that spins in the accept loop at the
  descriptor limit (`server_phase4.cpp:344`), and a process that SIGPIPE has ended
  (`:263`). The model has both states, so neither hazard is covered by a property:
  the fourth server does hang, and does die.
- `BenchmarkSettles` bounds the failures that -k causes against an origin that
  closes.
- `AnswersInOrder` is about clients that keep to one kind of line end, and
  `DeniedStopsHere` about requests that name their host without a port where the
  file has a rule about hosts: see the end of section 4.

## 4. Findings

1. A framed upstream response that is cut short by the end of the stream counts
   as a success and may be cached (`server_phase5.cpp:317`): run
   `upstream_truncated`.
2. The answer to HEAD with a Content-Length (and 204 or 304 with one) on a
   keep-alive connection is waited for until the socket timeout and turned into
   502 (`server_phase5.cpp:313`): run `upstream_head`.
3. The pool of the third and fourth server can hang in its destructor, because
   stop() sets its flag without the mutex (`server_phase3.cpp:54`): run
   `early_pool`. In `server_phase5.cpp` this is right, and proved.
4. A request that is refused for its size, with 413 (`server_phase5.cpp:440`) or 431
   (`:460`), leaves no line in the access log. `readme.md:135` promises "One line per
   request, always -- hit, miss, denial, or malformed", and `http.hpp:516` one "for
   every request the proxy touches": run `serve_unlogged`. `AccountsBalance` says of
   the log what the code does, not what the documentation says.

Two more disagreements have no run of their own. The models have the behaviour, and
the properties that meet it say under which condition they hold:

- find_header_end (`http.hpp:79-85`) looks for CRLF CRLF in the whole buffer before
  it looks for LF LF ("tolerate bare-LF clients"). If a request with bare LF line ends
  has a CRLF CRLF behind it in the buffer, of the next request or in a body, its header
  block is taken to reach to there: parse_request reads the first request, and
  `server_phase5.cpp:496` erases both, so one answer is missing. Whether the two are
  in the buffer together depends on how recv cut the stream. `HeaderEnd` and `Request`
  of `EventLoop` do the same; `AnswersInOrder` holds under `OneLineEnd`, and without
  that condition TLC finds the lost answer.
- check() compares a rule about hosts with the host as it is written, port and all
  (`http.hpp:432,435`), although `test_http.cpp:223` says "host match must survive a
  port" (the test below that comment sends no port): `deny host x` does not match
  `Host: x:80`. The reference reading `Applies` takes the name without the port;
  `DeniedStopsHere` holds under `NamedPlainly`, and without it TLC finds the request
  that is let through. resolve() compares a route in the same way, and there no
  comment says otherwise.

## 5. Proofs

Every safety invariant that a run checks is a theorem for all values of the
constants; `PROJECT.json` lists them under "theorems". Each
module of proofs has the same shape: an inductive invariant `IndInv`, one lemma per
action that it is kept, `Invariance`, and the properties from it. The properties
are not inductive alone; what the invariants add is said below. TLC checked each
of them on the instance of the run before it was proved.

Assumptions on constants are ASSUMEs of the component's module, which TLC evaluates
in the runs: sets that are counted are finite, limits are natural numbers, markers
such as `None` differ from what they stand for, and descriptor numbers are natural
numbers.

**`TaskQueueProofs`**, for every finite non-empty set of workers and any number of
tasks and spurious wakeups. `IndInv` joins the types; `MutexInv` (the mutex is held
across a step only by a worker that saw an empty queue and no shutdown and is about
to sleep, the reason why no push or stop can slip in); `FifoOnce` (dequeued and
queued tasks are 1..pushed in order); `Accounted` (a dequeued task is running or
finished); `ShutdownInv` (shutdown_ agrees with where main() is, and a worker leaves
only when shutdown_ is set and the queue is empty, which stays so because push is
refused); and `NoneAsleepAfterStop`. `JoinDrains` follows because main() passes join
only when all workers have left. `NoNeededWorkerSleeps` needs the cardinality of the
set of workers on their way to the queue: a push raises the queue by one and leaves
a notification pending, the notification moves one sleeper to the way, a pop takes
one worker and one task. `RefinesWorkQueue` maps every step to a step of `WorkQueue`
or a stutter.

**`EventLoopProofs`**, for any clients, workers, descriptors, streams and number of
failing calls. `Exclusive`, `Once` and `Held` say that a live Conn is at exactly one
of five places: armed in the epoll set, among the events main() has fetched, in the
queue, with main() before ADD, with a worker. `Descriptors` ties a Conn to its number through the window in which it is
already deregistered, or closed with its number reused by main(), and not yet
deleted. `Counts` has one live connection per open descriptor and per worker between
close and delete. From these: `OneOwner`, `HeldWhileLive`, `DescriptorIsOwn`,
`ActiveIsExact`. `AnswersAreInOrder` has an invariant of its own (`StreamInv`): the
stream of a client is cut in three places into what has been answered, what is in
the input buffer, what the kernel holds and what is unsent, and what the responses
so far and the rest call for together is what the whole stream calls for. It rests
on lemmas about `Calls`: what a stream calls for is what its first request calls for
and then what the rest does, and the pieces of a body are skipped. The first request
is where the header block ends only in a stream that keeps to one kind of line end
(`HeaderEndIs`), so the theorem is about those; that the buffer is a cut of the stream
holds for every stream.

**`ShardedLRUCacheProofs`**, for any keys, values, addresses, shards and capacity.
`ShardsSound` says of each shard that list nodes have distinct addresses and keys,
that index and list agree, and that the list is the head of the history of uses;
the last is why a put evicts the least recently used key, and also why an entry is
of its own shard. `ScanInv` bounds the partial sum of a stats() by the lookups of
the shards it has passed; the sum of a shard function when one shard changes is a
lemma proved by a least counterexample. From these: `ListAndIndexAgree`,
`HitIsLatest`, `EvictionIsLRU`, `StatsAreBracketed`, and `RefinesStore`, the whole of
`ImplementsStore`.

**`UpstreamFetchProofs`**, for any set of responses and limits. `Holding` says at
each point of the code what is held; `EverythingReleased` is read off at the exits.
`CompleteStays` says that response_complete is monotone in the bytes received, for
a body of any shape and length: a walk over chunks that has ended at one cut ends the
same way at every later one, by induction on the bytes left. This is why the fetch
may test after each recv, whatever recv returns. `OkHasAll` and `NoNeedlessWait`
assume `FramingShows` of the responses: one that keeps to its framing has the length
it announces, or a body that is `Chunked` (chunks that begin with hexadecimal digits,
spaces and extensions allowed, and end with a line end; a last one, trailer lines and a
blank line); one that does not is shorter than announced, or its sizes lead to a place
where there is no chunk (`Unchunked`). `Chunked` is a reading of the RFC apart from
the code's walk: a set of positions, at each of which a chunk begins and leads to
another of the set or is the last. That response_complete then ends such a response
at its last byte and not one before (`ShowsExact`) is proved for any number of chunks:
what AddDigit reads is the number that the digits write (`SizeOfDigits`), and the last
position of the set at which the walk is wrong cannot exist. What `FramingShows`
leaves out is what the code lets pass: it does not look at the two bytes behind the
data of a chunk, so a body that has something else there may be taken for complete.
Findings 1 and 2 are about responses that end early.

**`ServeRequestProofs`**, for any finite set of workers and any requests, answers and
rules files. `Handling` says what a worker can have in hand at each stage; `Stored`
says that an entry is a public answer from the origin that the routes in force give; `Accounts`
counts, for each class of outcome, the workers that have been counted and not yet
logged, so that counters and log agree in between. `EveryRequestAccounted`,
`CacheIsPublic` and `MistakeEndsServer` need no more; the last is a lemma on
load_string for files of any length. Three properties also depend on what the
operators on text compute. `AnswerIsOwn`, `OriginIsRight` and `FileDecides` are proved
for all inputs that meet two conditions, which say nothing of the code.
`ClientsKeepToHTTP`: a client writes what it means in origin form with a Host header,
or in absolute form; its host is a name, with a port or without, and has no slash; its
path begins with one; a method has no space. `FilesAreDocumented`: no pattern has a
star at both ends, unless it is the star alone or `*.` and a suffix. `FileDecides` says
nothing of a request that names its host with a port under a file with rules about
hosts (`NamedPlainly`): there the code does not do what the file says. Methods, hosts,
paths, patterns and files are of any length. The argument, in lemmas of their own:

- parse_request finds the host and the path that the client means, in either form
  (`ParsedAsMeant`); a cache key is cut in one way only, at its first space and then at
  its first slash, so equal keys are the same resource (`KeyIsResource`) although
  nothing separates host and path (`server_phase5.cpp:390`);
- wildcard_match is membership in the set of words a pattern denotes (`MatchDenotes`,
  `RuleApplies`). The condition on patterns is needed: the code tests for a trailing
  star before anything but the star alone and the suffix, so `*a*` is the words that
  begin with `*a`;
- load_string leaves rules and routes that mirror the lines of the file, in order
  (`LineEffect`, `LoadedMirrors`); first match on them is the verdict of the file
  (`CheckIsVerdict`);
- split_authority gives name and port of every host that is meant, and the default
  port (`SplitAlike`, `ResolveIsRight`), and does so alike for two spellings of a host,
  which is why an answer from the cache came from the right origin too.

**`AccessLogProofs`**, for any set of writers, number of lines and buffer
limit. A line's number is its place among its writer's lines (`Numbered`), `Reading`
follows a writer between its clock and its locks, `Buffer` bounds the buffer between
two writes, and `Complete` joins file and buffer while no write has failed. From
these: `NothingLost`, `ExitIsComplete`, `CrashLossBounded`, `TimestampIsOwn`,
`TrailHasNoHole`.

**`CachingServerProofs`**, for any finite sets of clients and workers, any descriptors,
paths and capacity. `Owned` says that an open descriptor is watched, in one task
or with one worker, and never in two hands, so close never hits a reused number;
`Reported` that one is reported or pushed only if there is something to read or its
client has left; `Whole` that a request that was not sent in pieces is read whole, so
that its answer is for its own path (`extract_path` gives "/" for half a request
line); `ListSound` that the list
has no duplicates and keeps to the capacity; `Counted` has one hit or miss per
lookup, in progress or done. From these: `NoStrayClose` and `LookupsAddUp`.

**`HarnessProofs`**, for any finite set of threads, any number of requests per thread
(none too), any set of origin workers, any number of resets, and all four settings of
keep-alive. `Owned` is EPOLLONESHOT: a connection that the origin has open is armed,
in one task or with one worker, and never in two hands (`OneHandlerAtATime`). `Placed`
says which connection a thread has and that later ones are untouched. `Streams` is the
heart: on a connection that is whole, the origin's buffer, both directions of the
stream and the thread's buffer hold together the pieces of one request or of one
response, those of the request the thread is at, and the worker that writes a body
writes the one the thread waits for; after a reset, what the thread has read is how
that response begins, and nothing more arrives. A statement about the buffers one by
one would not be inductive, because every recv and send moves a cut. `Closing` says
why an origin closes: its client has closed, the request asked for it, or it runs
with --close and has answered. `Counted` has ok + failed as the number of requests
behind their threads, and keeps one failure in reserve for each thread that is exposed
to one: its connection was reset, or reused after the origin may have closed it. From
these: `ResponseIsOwn` and `EveryRequestCounted`, the safety part of
`BenchmarkSettles`. The assumptions are that the set of threads is finite, that the
numbers of requests and of resets are natural numbers, and that `NoSock` is not a
connection.

The conditions on inputs are met by what the runs are about: that they hold of the
requests, files and responses there is an ASSUME, which TLC evaluates
(`InputsAssumption` of `MCServeRequest`, `FramedAssumption` of `MCUpstreamFetch`). The
definitions by recursion that proofs use (`Loaded`, `Sizes`, `Walk`, `Numeral`,
`Calls`, the sum over shards) are recursive functions; that such a function exists and
satisfies its equation is proved for each from its definition, and facts about all its
arguments by a least counterexample, since the library's induction theorems cannot
be instantiated here.

Only model-checked:

- liveness, because fairness and ENABLED are out of the prover's reach:
  `EveryTaskRuns`, `ShutdownTerminates`, the fairness part of `ImplementsWorkQueue`,
  `RequestsServed`, `HungUpClosed`, `BacklogAccepted`, `FetchEnds`,
  `RequestAnswered`, `BenchmarkSettles`;
- what the refutations of `OkIsComplete`, `TimeoutMeansIncomplete` for HEAD,
  `ShutdownReturns` and `LineAlways` (findings 1 to 4) show: a counterexample is an instance.

Outside both are `Header`, of which the conditions take only that the Host header has
the value the client wrote, and the properties of library functions that the model
takes as given (`Atoi`, `Lower`, `LineEndAt`).

## 6. Not modelled

- A header block that mixes line ends so that it ends in LF CRLF, which
  find_header_end does not see as an end.
- The digits of a request's Content-Length and its Connection tokens: a piece of
  `EventLoop` says what they amount to. Request bodies with chunked coding, which
  the code does not read as such (`http.hpp:193`). Targets without a leading slash
  that are not absolute, for which the cache key has no separator
  (`server_phase5.cpp:390`).
- Counters that only the statistics line reads (`total_connections`,
  `requests_served`, evictions), hit rates, durations, the wording of responses
  and log lines, the copy of the log on stdout.
- `hash` and the division of the capacity over shards: constants. The floor of one
  entry per shard (`lru_cache.hpp:160`) makes the cache larger than asked for when
  there are more shards than entries.
- `epoll_wait`'s limit of events per call: it delays an event, and an event that is
  delayed is one that became ready later.
- Time. No timer closes an idle connection (`server_phase5.cpp:469`): a client that
  sends half a request keeps its descriptor, and no property says otherwise.
- Startup apart from the access rules (arguments, limits, listener), which runs
  before any thread.
- The base and the second server: a loop of recv and send per thread, nothing
  shared but the static buffer of `inet_ntoa`, whose text a new thread may read
  after the next accept has replaced it (`server_phase2.cpp:116`). The loop of the
  third server: it is the fourth's without EPOLL_CTL_DEL and close, the mutants
  `DispatchWatched` and `AnswerKeepsOpen`.
- Of the load generator: responses without Content-Length, the Zipf draw, the
  report. Tests and scripts, which are sequential.
- Data races: the proxy's shared fields are under a mutex, atomic, or owned by one
  thread at a time (`SingleOwner`).

## 7. Plan

Done, in this order: `TaskQueue` with `WorkQueue` and the proofs,
`ShardedLRUCache`, `EventLoop`, `UpstreamFetch`, `ServeRequest`, `AccessLog`,
`EarlyPool`; then `RequestParsing` and `AccessControl` under `ServeRequest`,
`ResponseFraming` under `UpstreamFetch`, `ForgetfulStore` above the cache, failed
writes in `AccessLog`, `CachingServer`, and the harness.

Then the proofs, in the order `TaskQueue`, `EventLoop`, `AccessLog`,
`ShardedLRUCache`, `ServeRequest`, `UpstreamFetch`, `CachingServer`, `Harness`.

No safety invariant is left to prove, and no hypothesis on what an operator computes.
What is left is liveness, for which the fairness arguments of section 3 stand beside
the runs.
