--------------------------- MODULE ShardedLRUCache ---------------------------
(***************************************************************************)
(* The response cache of lru_cache.hpp: independent LRU shards, each a     *)
(* doubly linked list of nodes (front = most recently used) and an index   *)
(* from keys to list iterators, behind one mutex per shard.                *)
(*                                                                         *)
(* get, put and erase hold the shard's mutex from their first line to      *)
(* their last, so each is one step.  stats() and reset() take the shards'  *)
(* mutexes one after the other, so they are one step per shard and other   *)
(* threads run in between.  An iterator is the address of its node: a new  *)
(* node gets any address no node of any shard has.  evictions_ is only     *)
(* counted and printed, and left out.                                      *)
(***************************************************************************)
EXTENDS Integers, Sequences, FiniteSets

CONSTANTS
    Key, Value,
    NumShards,    \* size of shards_
    PerShard,     \* capacity_ of each shard
    ShardOf,      \* shard_for: the shard of each key
    Addr,         \* addresses list nodes can have
    None,         \* key not in the index; no value
    MaxLookups    \* bound: hits and misses counted per shard

Shards == 0..(NumShards - 1)

ASSUME SizeAssumption == NumShards \in Nat \ {0} /\ PerShard \in Nat \ {0}
ASSUME HashAssumption == ShardOf \in [Key -> Shards]
ASSUME NoneAssumption == None \notin Addr /\ None \notin Value
ASSUME BoundAssumption == MaxLookups \in Nat

VARIABLES
    items_,      \* per shard: its list of nodes
    index_,      \* per shard: key -> address of its node, or None
    hits_, misses_,
    scan,        \* the stats() call in progress
    sweep,       \* reset(): the next shard it clears; NumShards when none runs
    latest,      \* history: the value last put for each key, None once erased
    recent,      \* history, per shard: its keys by last use, latest first
    floor        \* history: per shard, lookups counted when stats() began

cvars == <<items_, index_, hits_, misses_>>
vars == <<items_, index_, hits_, misses_, scan, sweep, latest,
          recent, floor>>

\* What stats() has added up; next is the shard it locks next, NumShards when
\* it is about to return and Idle when it is not running; clean is history: no
\* reset() has overlapped it.
Idle == NumShards + 1
NoScan == [next |-> Idle, hits |-> 0, misses |-> 0, size |-> 0,
           clean |-> TRUE]

------------------------------------------------------------------------------
(* std::list                                                               *)

\* Where the node at address a is in list q.
PosOf(q, a) == CHOOSE i \in 1..Len(q) : q[i].addr = a

\* splice(begin(), ..., i): node i to the front, the others in their order.
Splice(q, i) ==
    [j \in 1..Len(q) |-> IF j = 1 THEN q[i] ELSE IF j <= i THEN q[j - 1] ELSE q[j]]

\* push_front.
PushFront(q, x) == [j \in 1..(Len(q) + 1) |-> IF j = 1 THEN x ELSE q[j - 1]]

\* erase of node i.
EraseAt(q, i) == [j \in 1..(Len(q) - 1) |-> IF j < i THEN q[j] ELSE q[j + 1]]

\* pop_back.
PopBack(q) == EraseAt(q, Len(q))

Addrs(q) == {q[i].addr : i \in 1..Len(q)}

\* The allocator: an address no node has, once list s is q.
Free(a, s, q) == a \notin Addrs(q) \cup UNION {Addrs(items_[t]) : t \in Shards \ {s}}

\* History: key k becomes the most recently used of q.
Touch(q, k) ==
    IF \E i \in 1..Len(q) : q[i] = k
    THEN Splice(q, CHOOSE i \in 1..Len(q) : q[i] = k)
    ELSE PushFront(q, k)

------------------------------------------------------------------------------
(* Initial state: the constructors.                                        *)

Init ==
    /\ items_ = [s \in Shards |-> <<>>]
    /\ index_ = [s \in Shards |-> [k \in Key |-> None]]
    /\ hits_ = [s \in Shards |-> 0]
    /\ misses_ = [s \in Shards |-> 0]
    /\ scan = NoScan
    /\ sweep = NumShards
    /\ latest = [k \in Key |-> None]
    /\ recent = [s \in Shards |-> <<>>]
    /\ floor = [s \in Shards |-> 0]

------------------------------------------------------------------------------
(* get, put, erase                                                         *)

\* Mutant: a hit leaves the recency order alone.
HitNoSplice(s, k) == items_[s]

\* The list after a hit on k.
Hit(s, k) == Splice(items_[s], PosOf(items_[s], index_[s][k]))

Get(k) ==
    LET s == ShardOf[k] IN
    /\ hits_[s] + misses_[s] < MaxLookups
    /\ IF index_[s][k] = None
       THEN /\ misses_' = [misses_ EXCEPT ![s] = @ + 1]
            /\ UNCHANGED <<hits_, items_, recent>>
       ELSE /\ hits_' = [hits_ EXCEPT ![s] = @ + 1]
            /\ items_' = [items_ EXCEPT ![s] = Hit(s, k)]
            /\ recent' = [recent EXCEPT ![s] = Touch(@, k)]
            /\ UNCHANGED misses_
    /\ UNCHANGED <<index_, scan, sweep, latest, floor>>

\* Mutant: the new value is not stored when the key is present.
OverwriteKeepsValue(s, k, v) == Hit(s, k)

\* The list after put found k: its node gets the value and goes to the front.
Overwrite(s, k, v) == [Hit(s, k) EXCEPT ![1].value = v]

PutPresent(k, v) ==
    LET s == ShardOf[k] IN
    /\ index_[s][k] # None
    /\ items_' = [items_ EXCEPT ![s] = Overwrite(s, k, v)]
    /\ latest' = [latest EXCEPT ![k] = v]
    /\ recent' = [recent EXCEPT ![s] = Touch(@, k)]
    /\ UNCHANGED <<index_, hits_, misses_, scan, sweep, floor>>

\* Mutant: off by one.
FullLate(s) == Len(items_[s]) > PerShard

\* items_.size() >= capacity_
Full(s) == Len(items_[s]) >= PerShard

\* Mutant: the victim's index entry stays.
UnindexNothing(s) == index_[s]

\* The index once the entry of the list's last node is erased.
UnindexLast(s) ==
    [index_[s] EXCEPT ![items_[s][Len(items_[s])].key] = None]

\* put of a key that is absent from a full shard: the last node goes first.
PutEvicting(k, v, a) ==
    LET s == ShardOf[k] IN
    /\ index_[s][k] = None
    /\ Full(s)
    /\ Free(a, s, PopBack(items_[s]))
    /\ items_' = [items_ EXCEPT ![s] =
           PushFront(PopBack(@), [addr |-> a, key |-> k, value |-> v])]
    /\ index_' = [index_ EXCEPT ![s] = [UnindexLast(s) EXCEPT ![k] = a]]
    /\ latest' = [latest EXCEPT ![k] = v]
    /\ recent' = [recent EXCEPT ![s] = Touch(@, k)]
    /\ UNCHANGED <<hits_, misses_, scan, sweep, floor>>

\* put of a key that is absent, with room in the shard.
PutNew(k, v, a) ==
    LET s == ShardOf[k] IN
    /\ index_[s][k] = None
    /\ ~Full(s)
    /\ Free(a, s, items_[s])
    /\ items_' = [items_ EXCEPT ![s] =
           PushFront(@, [addr |-> a, key |-> k, value |-> v])]
    /\ index_' = [index_ EXCEPT ![s][k] = a]
    /\ latest' = [latest EXCEPT ![k] = v]
    /\ recent' = [recent EXCEPT ![s] = Touch(@, k)]
    /\ UNCHANGED <<hits_, misses_, scan, sweep, floor>>

\* erase of a key that is present (of an absent one it changes nothing).
Erase(k) ==
    LET s == ShardOf[k] IN
    /\ index_[s][k] # None
    /\ items_' = [items_ EXCEPT ![s] = EraseAt(@, PosOf(@, index_[s][k]))]
    /\ index_' = [index_ EXCEPT ![s][k] = None]
    /\ latest' = [latest EXCEPT ![k] = None]
    /\ recent' = [recent EXCEPT ![s] =
           EraseAt(@, CHOOSE i \in 1..Len(@) : @[i] = k)]
    /\ UNCHANGED <<hits_, misses_, scan, sweep, floor>>

------------------------------------------------------------------------------
(* stats() and reset(): one shard at a time.                               *)

StatsBegin ==
    /\ scan = NoScan
    /\ scan' = [NoScan EXCEPT !.next = 0, !.clean = (sweep = NumShards)]
    /\ floor' = [s \in Shards |-> hits_[s] + misses_[s]]
    /\ UNCHANGED <<items_, index_, hits_, misses_, sweep, latest, recent>>

\* Mutant: misses are not added up.
AddShardHitsOnly(s) ==
    [scan EXCEPT !.next = @ + 1, !.hits = @ + hits_[s],
                 !.size = @ + Len(items_[s])]

\* What stats() has added up once shard s, locked, is counted.
AddShard(s) ==
    [scan EXCEPT !.next = @ + 1, !.hits = @ + hits_[s], !.misses = @ + misses_[s],
                 !.size = @ + Len(items_[s])]

StatsShard ==
    /\ scan.next < NumShards
    /\ scan' = AddShard(scan.next)
    /\ UNCHANGED <<items_, index_, hits_, misses_, sweep, latest,
                   recent, floor>>

StatsReturn ==
    /\ scan.next = NumShards
    /\ scan' = NoScan
    /\ floor' = [s \in Shards |-> 0]
    /\ UNCHANGED <<items_, index_, hits_, misses_, sweep, latest, recent>>

\* reset() is called; a stats() that overlaps it adds up counters of two eras.
ResetBegin ==
    /\ sweep = NumShards
    /\ sweep' = 0
    /\ scan' = [scan EXCEPT !.clean = (scan = NoScan)]
    /\ UNCHANGED <<items_, index_, hits_, misses_, latest, recent, floor>>

ResetShard ==
    /\ sweep < NumShards
    /\ sweep' = sweep + 1
    /\ items_' = [items_ EXCEPT ![sweep] = <<>>]
    /\ index_' = [index_ EXCEPT ![sweep] = [k \in Key |-> None]]
    /\ hits_' = [hits_ EXCEPT ![sweep] = 0]
    /\ misses_' = [misses_ EXCEPT ![sweep] = 0]
    /\ latest' = [k \in Key |-> IF ShardOf[k] = sweep THEN None ELSE latest[k]]
    /\ recent' = [recent EXCEPT ![sweep] = <<>>]
    /\ UNCHANGED <<scan, floor>>

Next ==
    \/ \E k \in Key : Get(k) \/ Erase(k)
    \/ \E k \in Key, v \in Value : PutPresent(k, v)
    \/ \E k \in Key, v \in Value, a \in Addr : PutEvicting(k, v, a) \/ PutNew(k, v, a)
    \/ StatsBegin \/ StatsShard \/ StatsReturn
    \/ ResetBegin \/ ResetShard

Spec == Init /\ [][Next]_vars

------------------------------------------------------------------------------
(* Properties.                                                             *)

\* List and index describe the same entries: every node is the one its key's
\* index entry points to, every index entry points to a node of that key (no
\* dangling iterator, no node that cannot be found), and nodes are distinct.
IndexMatchesList ==
    \A s \in Shards :
        /\ \A i \in 1..Len(items_[s]) :
              index_[s][items_[s][i].key] = items_[s][i].addr
        /\ \A k \in Key : index_[s][k] # None =>
              \E i \in 1..Len(items_[s]) :
                  items_[s][i].key = k /\ items_[s][i].addr = index_[s][k]
        /\ \A i, j \in 1..Len(items_[s]) : items_[s][i].addr = items_[s][j].addr => i = j

\* Every entry holds the value put last for its key, so a hit never returns an
\* older one; a key lives in its own shard only.
HoldsLatest ==
    \A s \in Shards : \A i \in 1..Len(items_[s]) :
        /\ items_[s][i].value = latest[items_[s][i].key]
        /\ ShardOf[items_[s][i].key] = s

\* Exact LRU per shard: the entries, in list order, are the most recently used
\* keys of the shard in the order of their last use.
ExactLRU ==
    \A s \in Shards :
        /\ Len(items_[s]) <= Len(recent[s])
        /\ \A i \in 1..Len(items_[s]) : items_[s][i].key = recent[s][i]

\* The value a get of k would return.
Held(k) ==
    LET s == ShardOf[k] IN
    IF index_[s][k] = None THEN None ELSE items_[s][PosOf(items_[s], index_[s][k])].value

Store == INSTANCE ForgetfulStore WITH
    Home     <- ShardOf,
    Capacity <- PerShard,
    store    <- [k \in Key |-> Held(k)]

\* To its callers the cache is a store of bounded size: a put costs one other
\* entry if its key is new to a full shard and none otherwise, nothing but a put
\* changes what a get returns, except that entries are erased, and a shard never
\* holds more than its capacity.
ImplementsStore == Store!Spec

\* The sums of f over the first shards, and over all of them.
Sums(f) ==
    LET sum[n \in 0..NumShards] == IF n = 0 THEN 0 ELSE sum[n - 1] + f[n - 1]
    IN  sum

SumOver(f) == Sums(f)[NumShards]

Lookups == [s \in Shards |-> hits_[s] + misses_[s]]

\* A stats() that no reset() overlapped returns no fewer lookups than
\* were counted when it began and no more than are counted now, and no more
\* entries than the cache can hold.
StatsBracketed ==
    scan.next = NumShards /\ scan.clean =>
        /\ scan.hits + scan.misses <= SumOver(Lookups)
        /\ scan.hits + scan.misses >= SumOver(floor)
        /\ scan.size <= NumShards * PerShard
==============================================================================
