-------------------------- MODULE MCShardedLRUCache --------------------------
(* ShardedLRUCache for TLC.  One shard has more keys than entries, for the   *)
(* order of eviction; the other, what happens between the locks of stats()   *)
(* and reset().  The memory is as large as the entries that can be held, so  *)
(* at the limit a new node takes the place of the evicted one.               *)
EXTENDS ShardedLRUCache, TLC

CONSTANTS k1, k2, k3, k4

\* Three keys in shard 0, one in shard 1.
HashThreeOne == [k \in {k1, k2, k3, k4} |-> IF k = k4 THEN 1 ELSE 0]

\* The keys of a shard are interchangeable; addresses and values always are.
Symmetry ==
    Permutations({k1, k2, k3}) \cup Permutations(Addr) \cup Permutations(Value)
==============================================================================
