---------------------------- MODULE ForgetfulStore ----------------------------
(***************************************************************************)
(* What a cache in shards promises its callers: a map that holds no more   *)
(* than Capacity entries of a shard and may lose them, but only in certain *)
(* ways.  A put costs another entry only if the key is new and its shard   *)
(* is full, and then one of that shard; an entry changes its value only    *)
(* when it is put.                                                         *)
(***************************************************************************)
EXTENDS Naturals, FiniteSets

CONSTANTS
    Key, Value, None,
    Home,      \* the shard of each key
    Capacity   \* entries a shard may hold

VARIABLE store  \* per key: its value, or None

Init == store = [k \in Key |-> None]

Held(s) == {k \in Key : s[k] # None}
Changed(old, new) == {k \in Key : new[k] # old[k]}

\* The entries of k's shard.
Beside(k, s) == {j \in Held(s) : Home[j] = Home[k]}

\* Key k is put: another entry is lost only to make room, one of k's shard.
Put(k, old, new) ==
    LET lost == Changed(old, new) \ {k} IN
    /\ new[k] # None
    /\ lost \subseteq Beside(k, old) \ Held(new)
    /\ lost # {} => /\ old[k] = None
                    /\ Cardinality(lost) = 1
                    /\ Cardinality(Beside(k, old)) = Capacity
    /\ Cardinality(Beside(k, new)) <= Capacity

\* Entries are erased, one or many.
Drop(old, new) == Changed(old, new) \cap Held(new) = {}

Step(old, new) == Drop(old, new) \/ \E k \in Key : Put(k, old, new)

Next == Step(store, store') /\ store' \in [Key -> Value \cup {None}]

Spec == Init /\ [][Next]_store
===============================================================================
