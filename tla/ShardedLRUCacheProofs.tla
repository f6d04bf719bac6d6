------------------------ MODULE ShardedLRUCacheProofs ------------------------
(***************************************************************************)
(* Proofs about ShardedLRUCache, for any keys, values, addresses, number   *)
(* of shards and capacity: list and index stay one structure, an entry has *)
(* the latest value of its key, eviction is exact LRU, stats() lies        *)
(* between the lookups at its beginning and at its end, and the cache      *)
(* implements ForgetfulStore.                                              *)
(***************************************************************************)
EXTENDS ShardedLRUCache, FiniteSetTheorems, FunctionTheorems, WellFoundedInduction, TLAPS

------------------------------------------------------------------------------
(* The inductive invariant.                                                *)

Nodes == [addr : Addr, key : Key, value : Value]

Scans == [next : 0..Idle, hits : Nat, misses : Nat, size : Nat, clean : BOOLEAN]

\* Shard s with list q, index ix, keys by last use rc and latest values la.
Sound(s, q, ix, rc, la) ==
    /\ q \in Seq(Nodes) /\ ix \in [Key -> Addr \cup {None}] /\ rc \in Seq(Key)
    /\ Len(q) <= PerShard
    \* list and index
    /\ \A i \in 1..Len(q) : ix[q[i].key] = q[i].addr
    /\ \A k \in Key : ix[k] # None => \E i \in 1..Len(q) : q[i].key = k
    /\ \A i, j \in 1..Len(q) : q[i].addr = q[j].addr => i = j
    \* values
    /\ \A i \in 1..Len(q) : q[i].value = la[q[i].key] /\ ShardOf[q[i].key] = s
    \* order
    /\ Len(q) <= Len(rc)
    /\ \A i \in 1..Len(q) : q[i].key = rc[i]
    /\ \A i, j \in 1..Len(rc) : rc[i] = rc[j] => i = j

\* The types around the shards.
CacheType ==
    /\ items_ \in [Shards -> Seq(Nodes)]
    /\ index_ \in [Shards -> [Key -> Addr \cup {None}]]
    /\ recent \in [Shards -> Seq(Key)]
    /\ latest \in [Key -> Value \cup {None}]
    /\ hits_ \in [Shards -> Nat] /\ misses_ \in [Shards -> Nat]
    /\ floor \in [Shards -> Nat]
    /\ sweep \in 0..NumShards
    /\ scan \in Scans

ShardsSound ==
    \A s \in Shards : Sound(s, items_[s], index_[s], recent[s], latest)

\* A stats() that no reset() has overlapped: no shard's counters have gone down
\* since it began, and what it has added up lies between the sums over the shards
\* it has been to, at its beginning and now.
ScanSound(sc, sw, fl, lk) ==
    sc.next # Idle /\ sc.clean =>
        /\ sw = NumShards
        /\ \A s \in Shards : fl[s] <= lk[s]
        /\ Sums(fl)[sc.next] <= sc.hits + sc.misses
        /\ sc.hits + sc.misses <= Sums(lk)[sc.next]
        /\ sc.size <= sc.next * PerShard

ScanInv == ScanSound(scan, sweep, floor, Lookups)

IndInv == CacheType /\ ShardsSound /\ ScanInv

------------------------------------------------------------------------------
(* Lemmas about lists.                                                     *)

\* A function on 1..n is a sequence of length n.
LEMMA ListType ==
    ASSUME NEW S, NEW n \in Nat, NEW f \in [1..n -> S]
    PROVE  f \in Seq(S) /\ Len(f) = n
  OBVIOUS

\* splice moves one element to the front.
LEMMA SpliceList ==
    ASSUME NEW S, NEW q \in Seq(S), NEW i \in 1..Len(q)
    PROVE  /\ Splice(q, i) \in Seq(S) /\ Len(Splice(q, i)) = Len(q)
           /\ Splice(q, i)[1] = q[i]
           /\ \A j \in 2..Len(q) :
                 Splice(q, i)[j] = IF j <= i THEN q[j - 1] ELSE q[j]
<1>1. Splice(q, i) \in [1..Len(q) -> S]
  BY DEF Splice
<1>2. Splice(q, i) \in Seq(S) /\ Len(Splice(q, i)) = Len(q)
  BY <1>1, ListType
<1> QED
  BY <1>2 DEF Splice

\* push_front.
LEMMA PushFrontList ==
    ASSUME NEW S, NEW q \in Seq(S), NEW x \in S
    PROVE  /\ PushFront(q, x) \in Seq(S) /\ Len(PushFront(q, x)) = Len(q) + 1
           /\ PushFront(q, x)[1] = x
           /\ \A j \in 2..(Len(q) + 1) : PushFront(q, x)[j] = q[j - 1]
<1>1. PushFront(q, x) \in [1..(Len(q) + 1) -> S]
  BY DEF PushFront
<1>2. PushFront(q, x) \in Seq(S) /\ Len(PushFront(q, x)) = Len(q) + 1
  BY <1>1, ListType
<1> QED
  BY <1>2 DEF PushFront

\* erase closes the gap.
LEMMA EraseAtList ==
    ASSUME NEW S, NEW q \in Seq(S), NEW i \in 1..Len(q)
    PROVE  /\ EraseAt(q, i) \in Seq(S) /\ Len(EraseAt(q, i)) = Len(q) - 1
           /\ \A j \in 1..(Len(q) - 1) :
                 EraseAt(q, i)[j] = IF j < i THEN q[j] ELSE q[j + 1]
<1>1. EraseAt(q, i) \in [1..(Len(q) - 1) -> S]
  BY DEF EraseAt
<1>2. EraseAt(q, i) \in Seq(S) /\ Len(EraseAt(q, i)) = Len(q) - 1
  BY <1>1, ListType
<1> QED
  BY <1>2 DEF EraseAt

------------------------------------------------------------------------------
(* What the operations do to a sound shard.                                *)

\* The index leads to the node of the key, at the same place in the order of use.
LEMMA Found ==
    ASSUME NEW s, NEW q, NEW ix, NEW rc, NEW la, Sound(s, q, ix, rc, la),
           NEW k \in Key, ix[k] # None
    PROVE  /\ PosOf(q, ix[k]) \in 1..Len(q)
           /\ q[PosOf(q, ix[k])].key = k /\ q[PosOf(q, ix[k])].addr = ix[k]
           /\ PosOf(q, ix[k]) \in 1..Len(rc) /\ rc[PosOf(q, ix[k])] = k
           /\ \A j \in 1..Len(rc) : rc[j] = k => j = PosOf(q, ix[k])
           /\ ShardOf[k] = s
<1>1. PICK i \in 1..Len(q) : q[i].key = k
  BY DEF Sound
<1>2. q[i].addr = ix[k]
  BY <1>1 DEF Sound
<1>3. \A j \in 1..Len(q) : q[j].addr = ix[k] => j = i
  BY <1>2 DEF Sound
<1>4. PosOf(q, ix[k]) = i
  BY <1>2, <1>3 DEF PosOf
<1>5. q \in Seq(Nodes) /\ rc \in Seq(Key) /\ Len(q) <= Len(rc)
  BY DEF Sound
<1>6. i \in 1..Len(rc) /\ rc[i] = k
  BY <1>1, <1>5 DEF Sound
<1> QED
  BY <1>1, <1>2, <1>4, <1>6 DEF Sound

\* A key becomes the most recently used: it moves from where it was.
LEMMA TouchPresent ==
    ASSUME NEW rc \in Seq(Key), NEW k, NEW i \in 1..Len(rc), rc[i] = k,
           \A j \in 1..Len(rc) : rc[j] = k => j = i
    PROVE  Touch(rc, k) = Splice(rc, i)
<1>1. (CHOOSE j \in 1..Len(rc) : rc[j] = k) = i
  OBVIOUS
<1> QED
  BY <1>1 DEF Touch

\* q2 is q with node i, of key k, at the front and with the value la2 has for k.
Moved(q, q2, i, ix, k, la, la2) ==
    /\ i = PosOf(q, ix[k])
    /\ q2 \in Seq(Nodes) /\ Len(q2) = Len(q)
    /\ q2[1].key = k /\ q2[1].addr = ix[k] /\ q2[1].value = la2[k]
    /\ \A j \in 2..Len(q) : q2[j] = IF j <= i THEN q[j - 1] ELSE q[j]
    /\ \A x \in Key : x # k => la2[x] = la[x]

\* A hit or an overwrite keeps a shard sound.
LEMMA MovedSound ==
    ASSUME NEW s, NEW q, NEW ix, NEW rc, NEW la, Sound(s, q, ix, rc, la),
           NEW k \in Key, ix[k] # None,
           NEW q2, NEW la2, NEW i, Moved(q, q2, i, ix, k, la, la2)
    PROVE  Sound(s, q2, ix, Touch(rc, k), la2)
<1>1. /\ i \in 1..Len(q) /\ q[i].key = k /\ q[i].addr = ix[k]
      /\ i \in 1..Len(rc) /\ rc[i] = k
      /\ \A j \in 1..Len(rc) : rc[j] = k => j = i
      /\ ShardOf[k] = s
  BY Found DEF Moved
<1>2. /\ q \in Seq(Nodes) /\ ix \in [Key -> Addr \cup {None}] /\ rc \in Seq(Key)
      /\ Len(q) <= PerShard /\ Len(q) <= Len(rc)
      /\ Len(q) \in Nat /\ Len(rc) \in Nat
  BY DEF Sound
<1> DEFINE r2 == Touch(rc, k)
<1>3. /\ r2 \in Seq(Key) /\ Len(r2) = Len(rc) /\ r2[1] = k
      /\ \A j \in 2..Len(rc) : r2[j] = IF j <= i THEN rc[j - 1] ELSE rc[j]
  <2>1. r2 = Splice(rc, i)
    BY <1>1, <1>2, TouchPresent
  <2> HIDE DEF r2
  <2>2. /\ Splice(rc, i) \in Seq(Key) /\ Len(Splice(rc, i)) = Len(rc)
        /\ Splice(rc, i)[1] = rc[i]
        /\ \A j \in 2..Len(rc) : Splice(rc, i)[j] = IF j <= i THEN rc[j - 1] ELSE rc[j]
    BY <1>1, <1>2, SpliceList
  <2> QED
    BY <1>1, <2>1, <2>2
<1> HIDE DEF r2
<1> DEFINE from(j) == IF j = 1 THEN i ELSE IF j <= i THEN j - 1 ELSE j
\* Element j comes from place from(j).
<1>0. /\ \A m \in 1..Len(q) : /\ q[m].key \in Key /\ ix[q[m].key] = q[m].addr
                              /\ q[m].value = la[q[m].key] /\ ShardOf[q[m].key] = s
                              /\ q[m].key = rc[m]
      /\ \A m, n \in 1..Len(q) : q[m].addr = q[n].addr => m = n
      /\ \A m, n \in 1..Len(rc) : rc[m] = rc[n] => m = n
  <2>1. \A m \in 1..Len(q) : q[m] \in Nodes
    BY <1>2
  <2>2. \A m \in 1..Len(q) : q[m].key \in Key
    BY <2>1 DEF Nodes
  <2> QED
    BY <2>2 DEF Sound
<1>4. /\ \A j \in 1..Len(rc) : from(j) \in 1..Len(rc)
      /\ \A j \in 1..Len(q) : from(j) \in 1..Len(q)
  BY <1>1, <1>2
<1>5. \A j, m \in 1..Len(rc) : from(j) = from(m) => j = m
  BY <1>1, <1>2
<1>6. \A j \in 1..Len(rc) : r2[j] = rc[from(j)]
  BY <1>1, <1>2, <1>3
<1>7. \A j \in 1..Len(q) : q2[j].key = q[from(j)].key /\ q2[j].addr = q[from(j)].addr
  BY <1>1, <1>2 DEF Moved
<1>8. \A j \in 1..Len(q) : j \in 1..Len(rc)
  BY <1>2
<1>9. \A m \in 1..Len(q) : \E j \in 1..Len(q) : from(j) = m
  <2> SUFFICES ASSUME NEW m \in 1..Len(q) PROVE \E j \in 1..Len(q) : from(j) = m
    OBVIOUS
  <2>1. CASE m = i
    BY <1>2, <2>1
  <2>2. CASE m < i
    <3>1. m + 1 \in 1..Len(q) /\ from(m + 1) = m
      BY <1>1, <1>2, <2>2
    <3> QED
      BY <3>1
  <2>3. CASE m > i
    BY <1>1, <1>2, <2>3
  <2> QED
    BY <1>1, <1>2, <2>1, <2>2, <2>3
<1>10. \A j \in 1..Len(q) : q2[j].value = la2[q2[j].key]
  <2> SUFFICES ASSUME NEW j \in 1..Len(q) PROVE q2[j].value = la2[q2[j].key]
    OBVIOUS
  <2>1. CASE j = 1
    BY <2>1 DEF Moved
  <2>2. CASE j # 1
    <3>1. from(j) \in 1..Len(q) /\ q2[j] = q[from(j)] /\ from(j) # i
      BY <1>1, <1>2, <1>4, <1>8, <2>2 DEF Moved
    <3>2. q[from(j)].key = rc[from(j)] /\ q[from(j)].key \in Key
      BY <1>0, <3>1
    <3>3. q[from(j)].key # k
      BY <1>1, <1>8, <3>1, <3>2
    <3> QED
      BY <1>0, <3>1, <3>2, <3>3, SMTT(60) DEF Moved
  <2> QED
    BY <2>1, <2>2
<1> HIDE DEF from
<1>11. \A j \in 1..Len(q) : ix[q2[j].key] = q2[j].addr /\ ShardOf[q2[j].key] = s
  <2> SUFFICES ASSUME NEW j \in 1..Len(q)
               PROVE  ix[q2[j].key] = q2[j].addr /\ ShardOf[q2[j].key] = s
    OBVIOUS
  <2>1. PICK m \in 1..Len(q) : q2[j].key = q[m].key /\ q2[j].addr = q[m].addr
    BY <1>4, <1>7
  <2> QED
    BY <1>0, <2>1
<1>12. ASSUME NEW x \in Key, ix[x] # None PROVE \E j \in 1..Len(q) : q2[j].key = x
  <2>1. PICK m \in 1..Len(q) : q[m].key = x
    BY <1>12 DEF Sound
  <2>2. PICK j \in 1..Len(q) : from(j) = m
    BY <1>9
  <2> QED
    BY <1>7, <2>1, <2>2
<1>13. ASSUME NEW j \in 1..Len(q), NEW m \in 1..Len(q), q2[j].addr = q2[m].addr PROVE j = m
  <2>1. /\ from(j) \in 1..Len(q) /\ q2[j].addr = q[from(j)].addr
        /\ from(m) \in 1..Len(q) /\ q2[m].addr = q[from(m)].addr
    BY <1>4, <1>7
  <2>2. q[from(j)].addr = q[from(m)].addr
    BY <1>13, <2>1
  <2>3. \A i1, i2 \in 1..Len(q) : q[i1].addr = q[i2].addr => i1 = i2
    BY <1>0
  <2>4. from(j) = from(m)
    BY <2>1, <2>2, <2>3, Zenon
  <2> QED
    BY <1>5, <1>8, <2>4
<1>14. \A j \in 1..Len(q) : q2[j].key = r2[j]
  BY <1>0, <1>4, <1>6, <1>7, <1>8, SMTT(60)
<1>15. ASSUME NEW j \in 1..Len(rc), NEW m \in 1..Len(rc), r2[j] = r2[m] PROVE j = m
  <2>1. from(j) = from(m)
    BY <1>0, <1>4, <1>6, <1>15, SMTT(60)
  <2> QED
    BY <1>5, <2>1
<1> QED
  BY <1>2, <1>3, <1>10, <1>11, <1>12, <1>13, <1>14, <1>15 DEF Sound, Moved, r2

\* A key that is none of the first n becomes the most recently used: those move
\* down by one.
LEMMA TouchAbsent ==
    ASSUME NEW rc \in Seq(Key), NEW k \in Key, NEW n \in 0..Len(rc),
           \A i, j \in 1..Len(rc) : rc[i] = rc[j] => i = j,
           \A i \in 1..n : rc[i] # k
    PROVE  /\ Touch(rc, k) \in Seq(Key) /\ n + 1 <= Len(Touch(rc, k))
           /\ Touch(rc, k)[1] = k
           /\ \A j \in 2..(n + 1) : Touch(rc, k)[j] = rc[j - 1]
           /\ \A i, j \in 1..Len(Touch(rc, k)) : Touch(rc, k)[i] = Touch(rc, k)[j] => i = j
<1>0. Len(rc) \in Nat
  OBVIOUS
<1>1. CASE \E i \in 1..Len(rc) : rc[i] = k
  <2>1. PICK i \in 1..Len(rc) : rc[i] = k
    BY <1>1
  <2>2. i > n
    BY <2>1
  <2>3. Touch(rc, k) = Splice(rc, i)
    BY <2>1, TouchPresent
  <2> DEFINE r == Splice(rc, i)
  <2>4. /\ r \in Seq(Key) /\ Len(r) = Len(rc) /\ r[1] = k
        /\ \A j \in 2..Len(rc) : r[j] = IF j <= i THEN rc[j - 1] ELSE rc[j]
    BY <2>1, SpliceList
  <2> HIDE DEF r
  <2> DEFINE from(j) == IF j = 1 THEN i ELSE IF j <= i THEN j - 1 ELSE j
  <2>5. \A j \in 1..Len(rc) : from(j) \in 1..Len(rc) /\ r[j] = rc[from(j)]
    BY <1>0, <2>1, <2>4
  <2>6. \A j, m \in 1..Len(rc) : from(j) = from(m) => j = m
    BY <1>0
  <2> HIDE DEF from
  <2>7. ASSUME NEW j \in 1..Len(r), NEW m \in 1..Len(r), r[j] = r[m] PROVE j = m
    <3>1. /\ j \in 1..Len(rc) /\ m \in 1..Len(rc)
          /\ from(j) \in 1..Len(rc) /\ from(m) \in 1..Len(rc)
          /\ rc[from(j)] = rc[from(m)]
      BY <2>4, <2>5, <2>7
    <3>2. from(j) = from(m)
      BY <3>1
    <3> QED
      BY <2>6, <3>1, <3>2
  <2>8. n + 1 <= Len(r) /\ \A j \in 2..(n + 1) : r[j] = rc[j - 1]
    BY <1>0, <2>2, <2>4
  <2> QED
    BY <2>3, <2>4, <2>7, <2>8 DEF r
<1>2. CASE ~ \E i \in 1..Len(rc) : rc[i] = k
  <2> DEFINE r == PushFront(rc, k)
  <2>1. Touch(rc, k) = r
    BY <1>2 DEF Touch
  <2>2. /\ r \in Seq(Key) /\ Len(r) = Len(rc) + 1 /\ r[1] = k
        /\ \A j \in 2..(Len(rc) + 1) : r[j] = rc[j - 1]
    BY PushFrontList
  <2> HIDE DEF r
  <2>3. ASSUME NEW j \in 1..Len(r), NEW m \in 1..Len(r), r[j] = r[m] PROVE j = m
    <3>1. \A h \in 2..Len(r) : h - 1 \in 1..Len(rc) /\ r[h] = rc[h - 1] /\ r[h] # k
      BY <1>0, <1>2, <2>2
    <3>2. CASE j = 1 \/ m = 1
      BY <1>0, <2>2, <2>3, <3>1, <3>2
    <3>3. CASE j # 1 /\ m # 1
      <4>1. j \in 2..Len(r) /\ m \in 2..Len(r)
        BY <1>0, <2>2, <3>3
      <4>2. j - 1 = m - 1
        BY <2>3, <3>1, <4>1
      <4> QED
        BY <4>1, <4>2
    <3> QED
      BY <3>2, <3>3
  <2> QED
    BY <1>0, <2>1, <2>2, <2>3
<1> QED
  BY <1>1, <1>2

\* What a shard's own nodes say: used where the definition of Sound is too much.
LEMMA SoundFacts ==
    ASSUME NEW s, NEW q, NEW ix, NEW rc, NEW la, Sound(s, q, ix, rc, la)
    PROVE  /\ q \in Seq(Nodes) /\ ix \in [Key -> Addr \cup {None}] /\ rc \in Seq(Key)
           /\ Len(q) \in Nat /\ Len(rc) \in Nat /\ Len(q) <= PerShard /\ Len(q) <= Len(rc)
           /\ \A m \in 1..Len(q) :
                 /\ q[m].key \in Key /\ q[m].addr \in Addr
                 /\ ix[q[m].key] = q[m].addr /\ q[m].value = la[q[m].key]
                 /\ ShardOf[q[m].key] = s /\ q[m].key = rc[m]
           /\ \A m, n \in 1..Len(q) : q[m].addr = q[n].addr => m = n
           /\ \A m, n \in 1..Len(q) : q[m].key = q[n].key => m = n
           /\ \A m, n \in 1..Len(rc) : rc[m] = rc[n] => m = n
           /\ \A k \in Key : ix[k] # None => \E i \in 1..Len(q) : q[i].key = k
<1>1. /\ q \in Seq(Nodes) /\ ix \in [Key -> Addr \cup {None}] /\ rc \in Seq(Key)
      /\ Len(q) <= PerShard /\ Len(q) <= Len(rc)
      /\ Len(q) \in Nat /\ Len(rc) \in Nat
  BY DEF Sound
<1>2. \A m \in 1..Len(q) : q[m] \in Nodes
  BY <1>1
<1>3. \A m \in 1..Len(q) : q[m].key \in Key /\ q[m].addr \in Addr
  BY <1>2 DEF Nodes
<1>4. \A m, n \in 1..Len(q) : q[m].key = q[n].key => m = n
  BY DEF Sound
<1> QED
  BY <1>1, <1>3, <1>4 DEF Sound

\* An absent key is put into a shard that has room.
LEMMA PushSound ==
    ASSUME NEW s, NEW q, NEW ix, NEW rc, NEW la, Sound(s, q, ix, rc, la),
           la \in [Key -> Value \cup {None}],
           NEW k \in Key, ShardOf[k] = s, ix[k] = None,
           NEW v \in Value, NEW a \in Addr, a \notin Addrs(q), Len(q) < PerShard
    PROVE  Sound(s, PushFront(q, [addr |-> a, key |-> k, value |-> v]),
                 [ix EXCEPT ![k] = a], Touch(rc, k), [la EXCEPT ![k] = v])
<1> DEFINE x == [addr |-> a, key |-> k, value |-> v]
           q2 == PushFront(q, x)
           ix2 == [ix EXCEPT ![k] = a]
           r2 == Touch(rc, k)
           la2 == [la EXCEPT ![k] = v]
<1>1. /\ q \in Seq(Nodes) /\ ix \in [Key -> Addr \cup {None}] /\ rc \in Seq(Key)
      /\ Len(q) \in Nat /\ Len(rc) \in Nat /\ Len(q) <= PerShard /\ Len(q) <= Len(rc)
  BY SoundFacts
<1>2. \A m \in 1..Len(q) :
          /\ q[m].key \in Key /\ q[m].addr \in Addr
          /\ ix[q[m].key] = q[m].addr /\ q[m].value = la[q[m].key]
          /\ ShardOf[q[m].key] = s /\ q[m].key = rc[m]
  BY SoundFacts
<1>3. \A m, n \in 1..Len(q) : q[m].addr = q[n].addr => m = n
  BY SoundFacts
<1>4. \A y \in Key : ix[y] # None => \E i \in 1..Len(q) : q[i].key = y
  BY SoundFacts
<1>5. \A m \in 1..Len(q) : q[m].key # k /\ q[m].addr # a
  BY <1>2, NoneAssumption DEF Addrs
<1>6. x \in Nodes /\ x.key = k /\ x.addr = a /\ x.value = v
  BY DEF Nodes
<1> HIDE DEF x
<1>7. /\ q2 \in Seq(Nodes) /\ Len(q2) = Len(q) + 1 /\ q2[1] = x
      /\ \A j \in 2..(Len(q) + 1) : q2[j] = q[j - 1]
  BY <1>1, <1>6, PushFrontList
<1>8. /\ r2 \in Seq(Key) /\ Len(q) + 1 <= Len(r2) /\ r2[1] = k
      /\ \A j \in 2..(Len(q) + 1) : r2[j] = rc[j - 1]
      /\ \A i, j \in 1..Len(r2) : r2[i] = r2[j] => i = j
  <2>1. Len(q) \in 0..Len(rc) /\ \A i \in 1..Len(q) : rc[i] # k
    BY <1>1, <1>2, <1>5
  <2>2. \A i, j \in 1..Len(rc) : rc[i] = rc[j] => i = j
    BY SoundFacts
  <2> QED
    BY <1>1, <2>1, <2>2, TouchAbsent
<1>9. /\ ix2 \in [Key -> Addr \cup {None}] /\ ix2[k] = a
      /\ \A y \in Key : y # k => ix2[y] = ix[y]
      /\ la2[k] = v /\ \A y \in Key : y # k => la2[y] = la[y]
  BY <1>1
<1> HIDE DEF q2, ix2, r2, la2
<1>10. \A j \in 2..Len(q2) : j - 1 \in 1..Len(q) /\ q2[j] = q[j - 1] /\ r2[j] = rc[j - 1]
  BY <1>1, <1>7, <1>8
<1>11. ASSUME NEW j \in 1..Len(q2)
       PROVE  /\ ix2[q2[j].key] = q2[j].addr /\ q2[j].value = la2[q2[j].key]
              /\ ShardOf[q2[j].key] = s /\ q2[j].key = r2[j]
  <2>1. CASE j = 1
    BY <1>6, <1>7, <1>8, <1>9, <2>1
  <2>2. CASE j # 1
    <3>1. j \in 2..Len(q2)
      BY <1>1, <1>7, <2>2
    <3>2. PICK m \in 1..Len(q) : q2[j] = q[m] /\ r2[j] = rc[m]
      BY <1>10, <3>1
    <3> QED
      BY <1>2, <1>5, <1>9, <3>2
  <2> QED
    BY <2>1, <2>2
<1>12. ASSUME NEW y \in Key, ix2[y] # None PROVE \E j \in 1..Len(q2) : q2[j].key = y
  <2>1. CASE y = k
    BY <1>1, <1>6, <1>7, <2>1
  <2>2. CASE y # k
    <3>1. PICK i \in 1..Len(q) : q[i].key = y
      BY <1>4, <1>9, <1>12, <2>2
    <3>2. i + 1 \in 2..(Len(q) + 1) /\ i + 1 \in 1..Len(q2) /\ (i + 1) - 1 = i
      BY <1>1, <1>7
    <3> QED
      BY <1>7, <3>1, <3>2
  <2> QED
    BY <2>1, <2>2
<1>13. ASSUME NEW j \in 1..Len(q2), NEW m \in 1..Len(q2), q2[j].addr = q2[m].addr PROVE j = m
  <2>1. \A h \in 2..Len(q2) : q2[h].addr # a
    BY <1>5, <1>10
  <2>2. q2[1].addr = a
    BY <1>6, <1>7
  <2>3. CASE j = 1 \/ m = 1
    BY <1>1, <1>7, <1>13, <2>1, <2>2, <2>3
  <2>4. CASE j # 1 /\ m # 1
    <3>1. j \in 2..Len(q2) /\ m \in 2..Len(q2)
      BY <1>1, <1>7, <2>4
    <3>2. j - 1 = m - 1
      BY <1>3, <1>10, <1>13, <3>1, SMTT(60)
    <3> QED
      BY <3>1, <3>2
  <2> QED
    BY <2>3, <2>4
<1>14. Len(q2) <= PerShard
  BY <1>1, <1>7, SizeAssumption
<1>15. Sound(s, q2, ix2, r2, la2)
  BY <1>7, <1>8, <1>9, <1>11, <1>12, <1>13, <1>14 DEF Sound
<1> QED
  BY <1>15 DEF q2, ix2, r2, la2, x

\* Node i of q is gone, from the index too, and the first keys of r2 are those of
\* rc without that node's.
Removed(q, i, ix2, ix, r2, rc, la2, la) ==
    /\ i \in 1..Len(q)
    /\ ix2 = [ix EXCEPT ![q[i].key] = None]
    /\ r2 \in Seq(Key) /\ Len(q) - 1 <= Len(r2)
    /\ \A j, m \in 1..Len(r2) : r2[j] = r2[m] => j = m
    /\ \A j \in 1..(Len(q) - 1) : r2[j] = IF j < i THEN rc[j] ELSE rc[j + 1]
    /\ \A y \in Key : y # q[i].key => la2[y] = la[y]

\* Removing a node keeps a shard sound.
LEMMA RemovedSound ==
    ASSUME NEW s, NEW q, NEW ix, NEW rc, NEW la, Sound(s, q, ix, rc, la),
           NEW i, NEW ix2, NEW r2, NEW la2, Removed(q, i, ix2, ix, r2, rc, la2, la)
    PROVE  Sound(s, EraseAt(q, i), ix2, r2, la2)
<1> DEFINE q2 == EraseAt(q, i)
           k == q[i].key
           from(j) == IF j < i THEN j ELSE j + 1
<1>1. /\ q \in Seq(Nodes) /\ ix \in [Key -> Addr \cup {None}]
      /\ Len(q) \in Nat /\ Len(q) <= PerShard
  BY SoundFacts
<1>2. \A m \in 1..Len(q) :
          /\ q[m].key \in Key /\ q[m].addr \in Addr
          /\ ix[q[m].key] = q[m].addr /\ q[m].value = la[q[m].key]
          /\ ShardOf[q[m].key] = s /\ q[m].key = rc[m]
  BY SoundFacts
<1>3. \A m, n \in 1..Len(q) : q[m].addr = q[n].addr => m = n
  BY SoundFacts
<1>4. \A m, n \in 1..Len(q) : q[m].key = q[n].key => m = n
  BY SoundFacts
<1>5. \A y \in Key : ix[y] # None => \E m \in 1..Len(q) : q[m].key = y
  BY SoundFacts
<1>6. i \in 1..Len(q) /\ k \in Key
  BY <1>2 DEF Removed
<1>7. /\ q2 \in Seq(Nodes) /\ Len(q2) = Len(q) - 1
      /\ \A j \in 1..(Len(q) - 1) : q2[j] = IF j < i THEN q[j] ELSE q[j + 1]
  BY <1>1, <1>6, EraseAtList
<1> HIDE DEF q2
<1>8. /\ r2 \in Seq(Key) /\ Len(q2) <= Len(r2)
      /\ \A j, m \in 1..Len(r2) : r2[j] = r2[m] => j = m
  BY <1>7 DEF Removed
<1>9. \A j \in 1..Len(q2) :
          /\ from(j) \in 1..Len(q) /\ from(j) # i /\ q2[j] = q[from(j)] /\ r2[j] = rc[from(j)]
  BY <1>1, <1>6, <1>7 DEF Removed
<1>10. \A j, m \in 1..Len(q2) : from(j) = from(m) => j = m
  BY <1>1, <1>6, <1>7
<1>11. \A m \in 1..Len(q) : m # i => \E j \in 1..Len(q2) : from(j) = m
  <2> SUFFICES ASSUME NEW m \in 1..Len(q), m # i PROVE \E j \in 1..Len(q2) : from(j) = m
    OBVIOUS
  <2>1. CASE m < i
    BY <1>1, <1>6, <1>7, <2>1
  <2>2. CASE m > i
    <3>1. m - 1 \in 1..Len(q2) /\ from(m - 1) = m
      BY <1>1, <1>6, <1>7, <2>2
    <3> QED
      BY <3>1
  <2> QED
    BY <1>1, <1>6, <2>1, <2>2
<1> HIDE DEF from
<1>12. /\ ix2 \in [Key -> Addr \cup {None}] /\ ix2[k] = None
       /\ \A y \in Key : y # k => ix2[y] = ix[y] /\ la2[y] = la[y]
  BY <1>1, <1>6 DEF Removed
<1> HIDE DEF k
<1>13. ASSUME NEW j \in 1..Len(q2)
       PROVE  /\ ix2[q2[j].key] = q2[j].addr /\ q2[j].value = la2[q2[j].key]
              /\ ShardOf[q2[j].key] = s /\ q2[j].key = r2[j]
  <2>1. PICK m \in 1..Len(q) : m # i /\ q2[j] = q[m] /\ r2[j] = rc[m]
    BY <1>9
  <2>2. q[m].key # k
    BY <1>4, <1>6, <2>1 DEF k
  <2> QED
    BY <1>2, <1>12, <2>1, <2>2
<1>14. ASSUME NEW y \in Key, ix2[y] # None PROVE \E j \in 1..Len(q2) : q2[j].key = y
  <2>1. y # k /\ ix[y] # None
    BY <1>12, <1>14
  <2>2. PICK m \in 1..Len(q) : q[m].key = y
    BY <1>5, <2>1
  <2>3. m # i
    BY <2>1, <2>2 DEF k
  <2>4. PICK j \in 1..Len(q2) : from(j) = m
    BY <1>11, <2>3
  <2> QED
    BY <1>9, <2>2, <2>4
<1>15. ASSUME NEW j \in 1..Len(q2), NEW m \in 1..Len(q2), q2[j].addr = q2[m].addr PROVE j = m
  <2>1. from(j) = from(m)
    BY <1>3, <1>9, <1>15
  <2> QED
    BY <1>10, <2>1
<1>16. Len(q2) <= PerShard
  BY <1>1, <1>7, SizeAssumption
<1>17. Sound(s, q2, ix2, r2, la2)
  BY <1>7, <1>8, <1>12, <1>13, <1>14, <1>15, <1>16 DEF Sound
<1> QED
  BY <1>17 DEF q2

\* pop_back, with the index entry of the last node: its key stays in the order of use.
LEMMA PopSound ==
    ASSUME NEW s, NEW q, NEW ix, NEW rc, NEW la, Sound(s, q, ix, rc, la), q # <<>>
    PROVE  Sound(s, PopBack(q), [ix EXCEPT ![q[Len(q)].key] = None], rc, la)
<1> DEFINE ix2 == [ix EXCEPT ![q[Len(q)].key] = None]
<1>1. /\ q \in Seq(Nodes) /\ rc \in Seq(Key) /\ Len(q) \in Nat /\ Len(rc) \in Nat
      /\ Len(q) <= Len(rc)
  BY SoundFacts
<1>2. \A m, n \in 1..Len(rc) : rc[m] = rc[n] => m = n
  BY SoundFacts
<1>3. Len(q) \in 1..Len(q)
  BY <1>1
<1>4. Removed(q, Len(q), ix2, ix, rc, rc, la, la)
  BY <1>1, <1>2, <1>3 DEF Removed
<1> QED
  BY <1>4, RemovedSound DEF PopBack

\* Where k is in the order of use.
PlaceOf(rc, k) == CHOOSE i \in 1..Len(rc) : rc[i] = k

\* erase of a key that is present.
LEMMA EraseSound ==
    ASSUME NEW s, NEW q, NEW ix, NEW rc, NEW la, Sound(s, q, ix, rc, la),
           la \in [Key -> Value \cup {None}], NEW k \in Key, ix[k] # None
    PROVE  Sound(s, EraseAt(q, PosOf(q, ix[k])), [ix EXCEPT ![k] = None],
                 EraseAt(rc, PlaceOf(rc, k)), [la EXCEPT ![k] = None])
<1> DEFINE i == PosOf(q, ix[k])
           r2 == EraseAt(rc, i)
           ix2 == [ix EXCEPT ![k] = None]
           la2 == [la EXCEPT ![k] = None]
<1>1. /\ i \in 1..Len(q) /\ q[i].key = k /\ i \in 1..Len(rc) /\ rc[i] = k
      /\ \A j \in 1..Len(rc) : rc[j] = k => j = i
  BY Found
<1> HIDE DEF i
<1>2. PlaceOf(rc, k) = i
  BY <1>1 DEF PlaceOf
<1>3. /\ q \in Seq(Nodes) /\ rc \in Seq(Key) /\ Len(q) \in Nat /\ Len(rc) \in Nat
      /\ Len(q) <= Len(rc)
  BY SoundFacts
<1>4. \A m, n \in 1..Len(rc) : rc[m] = rc[n] => m = n
  BY SoundFacts
<1>5. /\ r2 \in Seq(Key) /\ Len(r2) = Len(rc) - 1
      /\ \A j \in 1..(Len(rc) - 1) : r2[j] = IF j < i THEN rc[j] ELSE rc[j + 1]
  BY <1>1, <1>3, EraseAtList
<1> HIDE DEF r2
<1>6. ASSUME NEW j \in 1..Len(r2), NEW m \in 1..Len(r2), r2[j] = r2[m] PROVE j = m
  <2> DEFINE from(h) == IF h < i THEN h ELSE h + 1
  <2>1. \A h \in 1..Len(r2) : from(h) \in 1..Len(rc) /\ r2[h] = rc[from(h)]
    BY <1>3, <1>5
  <2>2. from(j) = from(m) => j = m
    BY <1>1, <1>3
  <2> HIDE DEF from
  <2>3. from(j) = from(m)
    BY <1>4, <1>6, <2>1
  <2> QED
    BY <2>2, <2>3
<1>7. \A y \in Key : y # k => la2[y] = la[y]
  OBVIOUS
<1> HIDE DEF la2
<1>8. Removed(q, i, ix2, ix, r2, rc, la2, la)
  BY <1>1, <1>3, <1>5, <1>6, <1>7 DEF Removed
<1>9. Sound(s, EraseAt(q, i), ix2, r2, la2)
  BY <1>8, RemovedSound
<1> QED
  BY <1>2, <1>9 DEF i, r2, la2

\* A shard does not depend on the values of the others' keys.
LEMMA OtherShard ==
    ASSUME NEW s, NEW q, NEW ix, NEW rc, NEW la, Sound(s, q, ix, rc, la),
           NEW la2, \A k \in Key : ShardOf[k] = s => la2[k] = la[k]
    PROVE  Sound(s, q, ix, rc, la2)
<1>1. \A m \in 1..Len(q) : q[m].key \in Key /\ ShardOf[q[m].key] = s
  BY SoundFacts
<1> QED
  BY <1>1 DEF Sound

\* A shard as constructed, or after clear().
LEMMA EmptySound ==
    ASSUME NEW s, NEW la
    PROVE  Sound(s, <<>>, [k \in Key |-> None], <<>>, la)
  BY SizeAssumption DEF Sound

------------------------------------------------------------------------------
(* Sums over the first shards.                                             *)

\* A set of naturals that is not empty has a least element: what stands for
\* induction here.
LEMMA LeastNatural ==
    ASSUME NEW S \in SUBSET Nat, S # {}
    PROVE  \E m \in S : \A n \in S : m <= n
<1>1. PICK m \in S : \A n \in S : <<n, m>> \notin OpToRel(<, Nat)
  BY NatLessThanWellFounded, WFMin
<1>2. \A n \in S : ~ (n < m)
  BY <1>1 DEF OpToRel
<1> QED
  BY <1>2

\* Sums(f) up to m.
SumsTo(g, f, m) == g = [n \in 0..m |-> IF n = 0 THEN 0 ELSE g[n - 1] + f[n - 1]]

\* One more shard.
LEMMA SumsExtend ==
    ASSUME NEW f, NEW m \in Nat, \E g : SumsTo(g, f, m)
    PROVE  \E h : SumsTo(h, f, m + 1)
<1>1. PICK g : SumsTo(g, f, m)
  OBVIOUS
<1> DEFINE h == [n \in 0..(m + 1) |-> IF n = m + 1 THEN g[m] + f[m] ELSE g[n]]
<1>2. \A n \in 0..m : g[n] = IF n = 0 THEN 0 ELSE g[n - 1] + f[n - 1]
  BY <1>1 DEF SumsTo
<1>3. ASSUME NEW n \in 0..(m + 1)
      PROVE  h[n] = IF n = 0 THEN 0 ELSE h[n - 1] + f[n - 1]
  <2>1. CASE n = m + 1
    BY <2>1
  <2>2. CASE n # m + 1
    BY <1>2, <2>2
  <2> QED
    BY <2>1, <2>2
<1>4. h = [n \in 0..(m + 1) |-> h[n]]
  OBVIOUS
<1> HIDE DEF h
<1>5. [n \in 0..(m + 1) |-> h[n]] =
          [n \in 0..(m + 1) |-> IF n = 0 THEN 0 ELSE h[n - 1] + f[n - 1]]
  BY <1>3
<1>6. SumsTo(h, f, m + 1)
  BY <1>4, <1>5 DEF SumsTo
<1> QED
  BY <1>6

\* The sums over the first shards exist, and are what their definition says.
LEMMA SumsDefined ==
    ASSUME NEW f
    PROVE  /\ Sums(f)[0] = 0
           /\ \A n \in 1..NumShards : Sums(f)[n] = Sums(f)[n - 1] + f[n - 1]
<1> DEFINE Bad == {m \in Nat : ~ \E g : SumsTo(g, f, m)}
<1>1. SumsTo([n \in 0..0 |-> 0], f, 0)
  BY DEF SumsTo
<1>2. Bad = {}
  <2> SUFFICES ASSUME Bad # {} PROVE FALSE
    OBVIOUS
  <2>1. PICK m \in Bad : \A n \in Bad : m <= n
    <3>1. Bad \in SUBSET Nat
      OBVIOUS
    <3> QED
      BY <3>1, LeastNatural
  <2>2. m \in Nat /\ ~ \E g : SumsTo(g, f, m)
    OBVIOUS
  <2>3. m # 0
    BY <1>1, <2>2
  <2>4. m - 1 \in Nat /\ (m - 1) + 1 = m /\ m - 1 \notin Bad
    BY <2>1, <2>2, <2>3
  <2>5. \E g : SumsTo(g, f, m - 1)
    BY <2>4
  <2>6. \E g : SumsTo(g, f, (m - 1) + 1)
    BY <2>4, <2>5, SumsExtend
  <2> QED
    BY <2>2, <2>4, <2>6
<1>3. \E g : SumsTo(g, f, NumShards)
  BY <1>2, SizeAssumption
<1>4. Sums(f) = [n \in 0..NumShards |->
                    IF n = 0 THEN 0 ELSE Sums(f)[n - 1] + f[n - 1]]
  BY <1>3 DEF SumsTo, Sums
<1> QED
  BY <1>4, SizeAssumption

\* Larger counters, larger sums.
LEMMA SumsMonotone ==
    ASSUME NEW f \in [Shards -> Nat], NEW g \in [Shards -> Nat],
           \A s \in Shards : f[s] <= g[s]
    PROVE  \A n \in 0..NumShards :
               Sums(f)[n] \in Nat /\ Sums(g)[n] \in Nat /\ Sums(f)[n] <= Sums(g)[n]
<1> DEFINE Ok(n) == Sums(f)[n] \in Nat /\ Sums(g)[n] \in Nat /\ Sums(f)[n] <= Sums(g)[n]
           Bad == {n \in 0..NumShards : ~ Ok(n)}
<1>1. Ok(0)
  BY SumsDefined
<1>2. ASSUME NEW n \in 1..NumShards, Ok(n - 1) PROVE Ok(n)
  <2>1. n - 1 \in Shards
    BY SizeAssumption DEF Shards
  <2>2. f[n - 1] \in Nat /\ g[n - 1] \in Nat /\ f[n - 1] <= g[n - 1]
    BY <2>1
  <2>3. /\ Sums(f)[n] = Sums(f)[n - 1] + f[n - 1]
        /\ Sums(g)[n] = Sums(g)[n - 1] + g[n - 1]
    BY SumsDefined
  <2> QED
    BY <1>2, <2>2, <2>3
<1> HIDE DEF Ok
<1>3. Bad = {}
  <2> SUFFICES ASSUME Bad # {} PROVE FALSE
    OBVIOUS
  <2>1. PICK m \in Bad : \A n \in Bad : m <= n
    <3>1. Bad \in SUBSET Nat
      BY SizeAssumption
    <3> QED
      BY <3>1, LeastNatural
  <2>2. m \in 0..NumShards /\ ~ Ok(m) /\ m # 0
    BY <1>1
  <2>3. m \in 1..NumShards /\ m - 1 \in 0..NumShards /\ m - 1 < m
    BY <2>2, SizeAssumption
  <2>4. Ok(m - 1)
    <3>1. m - 1 \notin Bad
      BY <2>1, <2>3
    <3> QED
      BY <2>3, <3>1
  <2> QED
    BY <1>2, <2>2, <2>3, <2>4
<1> QED
  BY <1>3 DEF Ok

------------------------------------------------------------------------------
(* What the operations do to stats().                                      *)

\* Lookups of other threads only move the upper bound up.
LEMMA ScanGrows ==
    ASSUME NEW sc \in Scans, NEW sw, NEW fl,
           NEW lk \in [Shards -> Nat], NEW lk2 \in [Shards -> Nat],
           fl \in [Shards -> Nat],
           \A s \in Shards : lk[s] <= lk2[s],
           sc.next # Idle => sc.next \in 0..NumShards,
           ScanSound(sc, sw, fl, lk)
    PROVE  ScanSound(sc, sw, fl, lk2)
<1> SUFFICES ASSUME sc.next # Idle, sc.clean
             PROVE  /\ sw = NumShards
                    /\ \A s \in Shards : fl[s] <= lk2[s]
                    /\ Sums(fl)[sc.next] <= sc.hits + sc.misses
                    /\ sc.hits + sc.misses <= Sums(lk2)[sc.next]
                    /\ sc.size <= sc.next * PerShard
  BY DEF ScanSound
<1>1. /\ sw = NumShards
      /\ \A s \in Shards : fl[s] <= lk[s]
      /\ Sums(fl)[sc.next] <= sc.hits + sc.misses
      /\ sc.hits + sc.misses <= Sums(lk)[sc.next]
      /\ sc.size <= sc.next * PerShard
  BY DEF ScanSound
<1>2. Sums(lk)[sc.next] \in Nat /\ Sums(lk2)[sc.next] \in Nat
      /\ Sums(lk)[sc.next] <= Sums(lk2)[sc.next]
  BY SumsMonotone
<1>3. sc.hits \in Nat /\ sc.misses \in Nat
  BY DEF Scans
<1>4. sc.hits + sc.misses <= Sums(lk2)[sc.next]
  BY <1>1, <1>2, <1>3
<1>5. \A s \in Shards : fl[s] <= lk2[s]
  <2>1. \A s \in Shards : fl[s] \in Nat /\ lk[s] \in Nat /\ lk2[s] \in Nat
    OBVIOUS
  <2> QED
    BY <1>1, <2>1
<1> QED
  BY <1>1, <1>4, <1>5

\* stats() begins.
LEMMA ScanBegins ==
    ASSUME NEW sw, NEW lk \in [Shards -> Nat]
    PROVE  ScanSound([NoScan EXCEPT !.next = 0, !.clean = (sw = NumShards)], sw, lk, lk)
<1> DEFINE sc == [NoScan EXCEPT !.next = 0, !.clean = (sw = NumShards)]
<1>1. /\ sc.next = 0 /\ sc.hits = 0 /\ sc.misses = 0 /\ sc.size = 0
      /\ sc.clean = (sw = NumShards)
  BY DEF NoScan
<1> HIDE DEF sc
<1>2. Sums(lk)[0] = 0
  BY SumsDefined
<1>3. \A s \in Shards : lk[s] <= lk[s]
  <2>1. \A s \in Shards : lk[s] \in Nat
    OBVIOUS
  <2> QED
    BY <2>1
<1>4. 0 <= 0 * PerShard
  BY SizeAssumption
<1>5. /\ Sums(lk)[sc.next] <= sc.hits + sc.misses
      /\ sc.hits + sc.misses <= Sums(lk)[sc.next]
      /\ sc.size <= sc.next * PerShard
  BY <1>1, <1>2, <1>4
<1>6. sc.clean => sw = NumShards
  BY <1>1
<1>7. ScanSound(sc, sw, lk, lk)
  BY <1>3, <1>5, <1>6 DEF ScanSound
<1> QED
  BY <1>7 DEF sc

\* stats() adds up its next shard.
LEMMA ScanAdds ==
    ASSUME NEW sc \in Scans, NEW sw, NEW fl \in [Shards -> Nat],
           NEW lk \in [Shards -> Nat], ScanSound(sc, sw, fl, lk),
           sc.next \in 0..(NumShards - 1),
           NEW h \in Nat, NEW m \in Nat, h + m = lk[sc.next],
           NEW z \in Nat, z <= PerShard,
           NEW sc2, sc2.next = sc.next + 1, sc2.hits = sc.hits + h,
           sc2.misses = sc.misses + m, sc2.size = sc.size + z, sc2.clean = sc.clean
    PROVE  ScanSound(sc2, sw, fl, lk)
<1> SUFFICES ASSUME sc2.clean
             PROVE  /\ sw = NumShards
                    /\ \A s \in Shards : fl[s] <= lk[s]
                    /\ Sums(fl)[sc2.next] <= sc2.hits + sc2.misses
                    /\ sc2.hits + sc2.misses <= Sums(lk)[sc2.next]
                    /\ sc2.size <= sc2.next * PerShard
  BY DEF ScanSound
<1> DEFINE n == sc.next
<1>1. n \in Nat /\ n # Idle /\ n \in Shards /\ n + 1 \in 1..NumShards /\ n \in 0..NumShards
      /\ (n + 1) - 1 = n
  BY SizeAssumption, SMTT(60) DEF Idle, Shards
<1>2. /\ sw = NumShards
      /\ \A s \in Shards : fl[s] <= lk[s]
      /\ Sums(fl)[n] <= sc.hits + sc.misses
      /\ sc.hits + sc.misses <= Sums(lk)[n]
      /\ sc.size <= n * PerShard
  BY <1>1 DEF ScanSound
<1>3. Sums(fl)[n] \in Nat /\ Sums(lk)[n] \in Nat
  BY <1>1, <1>2, SumsMonotone
<1>4. Sums(fl)[n + 1] = Sums(fl)[n] + fl[n] /\ Sums(lk)[n + 1] = Sums(lk)[n] + lk[n]
  BY <1>1, SumsDefined
<1>5. fl[n] \in Nat /\ lk[n] \in Nat /\ fl[n] <= lk[n]
  BY <1>1, <1>2
<1>6. sc.hits \in Nat /\ sc.misses \in Nat /\ sc.size \in Nat
  BY DEF Scans
<1>7. (n + 1) * PerShard = n * PerShard + PerShard /\ n * PerShard \in Nat
  BY <1>1, SizeAssumption
<1>8. sc.size + z <= (n + 1) * PerShard
  BY <1>2, <1>6, <1>7, SizeAssumption
<1>9. /\ Sums(fl)[n + 1] <= (sc.hits + h) + (sc.misses + m)
      /\ (sc.hits + h) + (sc.misses + m) <= Sums(lk)[n + 1]
  BY <1>2, <1>3, <1>4, <1>5, <1>6
<1> QED
  BY <1>2, <1>8, <1>9

------------------------------------------------------------------------------
(* The invariant is inductive.                                             *)

\* The constructors.
LEMMA InitInv == Init => IndInv
<1> SUFFICES ASSUME Init PROVE IndInv
  OBVIOUS
<1>1. CacheType
  BY SizeAssumption DEF Init, CacheType, Scans, NoScan, Idle
<1>2. ShardsSound
  BY EmptySound DEF Init, ShardsSound
<1>3. scan.next = Idle
  BY DEF Init, NoScan
<1>4. ScanInv
  BY <1>3 DEF ScanInv, ScanSound
<1> QED
  BY <1>1, <1>2, <1>4 DEF IndInv

\* A step on one shard that leaves the values of the other shards' keys alone.
LEMMA ShardStep ==
    ASSUME CacheType, ShardsSound,
           NEW s \in Shards, NEW q, NEW ix, NEW rc, Sound(s, q, ix, rc, latest'),
           items_' = [items_ EXCEPT ![s] = q], index_' = [index_ EXCEPT ![s] = ix],
           recent' = [recent EXCEPT ![s] = rc],
           latest' \in [Key -> Value \cup {None}],
           \A k \in Key : ShardOf[k] # s => latest'[k] = latest[k]
    PROVE  /\ ShardsSound' /\ items_' \in [Shards -> Seq(Nodes)]
           /\ index_' \in [Shards -> [Key -> Addr \cup {None}]]
           /\ recent' \in [Shards -> Seq(Key)]
<1>1. q \in Seq(Nodes) /\ ix \in [Key -> Addr \cup {None}] /\ rc \in Seq(Key)
  BY SoundFacts
<1>2. /\ items_' \in [Shards -> Seq(Nodes)]
      /\ index_' \in [Shards -> [Key -> Addr \cup {None}]]
      /\ recent' \in [Shards -> Seq(Key)]
  BY <1>1 DEF CacheType
<1>3. items_'[s] = q /\ index_'[s] = ix /\ recent'[s] = rc
  BY DEF CacheType
<1>4. ASSUME NEW t \in Shards PROVE Sound(t, items_'[t], index_'[t], recent'[t], latest')
  <2>1. CASE t = s
    BY <1>3, <2>1
  <2>2. CASE t # s
    <3>1. items_'[t] = items_[t] /\ index_'[t] = index_[t] /\ recent'[t] = recent[t]
      BY <2>2 DEF CacheType
    <3>2. \A k \in Key : ShardOf[k] = t => latest'[k] = latest[k]
      BY <2>2
    <3>3. Sound(t, items_[t], index_[t], recent[t], latest)
      BY DEF ShardsSound
    <3>4. Sound(t, items_[t], index_[t], recent[t], latest')
      BY <3>2, <3>3, OtherShard
    <3> QED
      BY <3>1, <3>4
  <2> QED
    BY <2>1, <2>2
<1> QED
  BY <1>2, <1>4 DEF ShardsSound

\* Steps that count no lookup leave stats() where it is.
LEMMA ScanQuiet ==
    ASSUME ScanInv, UNCHANGED <<hits_, misses_, scan, sweep, floor>>
    PROVE  ScanInv'
  BY DEF ScanInv, Lookups

\* The list after a hit, and after an overwrite.
LEMMA HitMoved ==
    ASSUME NEW s, NEW q, NEW ix, NEW rc, NEW la, Sound(s, q, ix, rc, la),
           NEW k \in Key, ix[k] # None, la \in [Key -> Value \cup {None}]
    PROVE  /\ Moved(q, Splice(q, PosOf(q, ix[k])), PosOf(q, ix[k]), ix, k, la, la)
           /\ \A v \in Value :
                 Moved(q, [Splice(q, PosOf(q, ix[k])) EXCEPT ![1].value = v],
                       PosOf(q, ix[k]), ix, k, la, [la EXCEPT ![k] = v])
<1> DEFINE i == PosOf(q, ix[k])
           p == Splice(q, i)
<1>1. i \in 1..Len(q) /\ q[i].key = k /\ q[i].addr = ix[k]
  BY Found
<1> HIDE DEF i
<1>2. q \in Seq(Nodes) /\ Len(q) \in Nat /\ q[i].value = la[k]
  BY <1>1, SoundFacts
<1>3. /\ p \in Seq(Nodes) /\ Len(p) = Len(q) /\ p[1] = q[i]
      /\ \A j \in 2..Len(q) : p[j] = IF j <= i THEN q[j - 1] ELSE q[j]
  BY <1>1, <1>2, SpliceList
<1> HIDE DEF p
<1>4. Moved(q, p, i, ix, k, la, la)
  BY <1>1, <1>2, <1>3 DEF Moved, i
<1>5. ASSUME NEW v \in Value
      PROVE  Moved(q, [p EXCEPT ![1].value = v], i, ix, k, la, [la EXCEPT ![k] = v])
  <2> DEFINE p2 == [p EXCEPT ![1].value = v]
             la2 == [la EXCEPT ![k] = v]
  <2>1. 1 \in 1..Len(p) /\ p[1] \in Nodes
    BY <1>1, <1>2, <1>3
  <2>2. p2[1] \in Nodes /\ p2[1].key = k /\ p2[1].addr = ix[k] /\ p2[1].value = v
    BY <1>1, <1>3, <2>1 DEF Nodes
  <2>3. /\ p2 \in Seq(Nodes) /\ Len(p2) = Len(q)
        /\ \A j \in 2..Len(q) : p2[j] = p[j]
    <3>1. p2 = [j \in 1..Len(p) |-> IF j = 1 THEN p2[1] ELSE p[j]]
      BY <1>3, <2>1
    <3> HIDE DEF p2
    <3>2. \A j \in 1..Len(p) : p[j] \in Nodes
      BY <1>3
    <3>3. p2 \in [1..Len(p) -> Nodes]
      BY <2>2, <3>1, <3>2
    <3>4. Len(p) \in Nat
      BY <1>2, <1>3
    <3>5. p2 \in Seq(Nodes) /\ Len(p2) = Len(p)
      BY <3>3, <3>4, ListType
    <3>6. \A j \in 2..Len(q) : p2[j] = p[j]
      BY <1>2, <1>3, <3>1
    <3> QED
      BY <1>3, <3>5, <3>6
  <2>4. la2[k] = v /\ \A x \in Key : x # k => la2[x] = la[x]
    OBVIOUS
  <2> HIDE DEF p2, la2
  <2>5. Moved(q, p2, i, ix, k, la, la2)
    BY <1>3, <2>2, <2>3, <2>4 DEF Moved, i
  <2> QED
    BY <2>5 DEF p2, la2
<1> QED
  BY <1>4, <1>5 DEF i, p

\* Facts of a state of the invariant that each operation starts from.
LEMMA AtShard ==
    ASSUME IndInv, NEW k \in Key
    PROVE  /\ CacheType /\ ShardsSound /\ ScanInv /\ ShardOf[k] \in Shards
           /\ Sound(ShardOf[k], items_[ShardOf[k]], index_[ShardOf[k]],
                    recent[ShardOf[k]], latest)
           /\ latest \in [Key -> Value \cup {None}]
<1>1. CacheType /\ ShardsSound /\ ScanInv
  BY DEF IndInv
<1>2. ShardOf[k] \in Shards
  BY HashAssumption
<1> QED
  BY <1>1, <1>2 DEF ShardsSound, CacheType

\* A lookup that is counted moves stats()'s upper bound only.
LEMMA LookupCounted ==
    ASSUME CacheType, ScanInv, NEW s \in Shards, UNCHANGED <<scan, sweep, floor>>,
           \/ hits_' = [hits_ EXCEPT ![s] = @ + 1] /\ misses_' = misses_
           \/ misses_' = [misses_ EXCEPT ![s] = @ + 1] /\ hits_' = hits_
    PROVE  ScanInv' /\ hits_' \in [Shards -> Nat] /\ misses_' \in [Shards -> Nat]
<1>1. /\ hits_ \in [Shards -> Nat] /\ misses_ \in [Shards -> Nat]
      /\ scan \in Scans /\ floor \in [Shards -> Nat]
  BY DEF CacheType
<1>2. /\ hits_' \in [Shards -> Nat] /\ misses_' \in [Shards -> Nat]
      /\ \A t \in Shards : hits_[t] + misses_[t] <= hits_'[t] + misses_'[t]
  BY <1>1
<1> DEFINE lk == Lookups
           lk2 == [t \in Shards |-> hits_'[t] + misses_'[t]]
<1>3. lk \in [Shards -> Nat] /\ lk2 \in [Shards -> Nat]
  BY <1>1, <1>2 DEF Lookups
<1>4. \A t \in Shards : lk[t] <= lk2[t]
  BY <1>2 DEF Lookups
<1>5. ScanSound(scan, sweep, floor, lk)
  BY DEF ScanInv
<1>6. scan.next # Idle => scan.next \in 0..NumShards
  <2>1. scan.next \in 0..Idle
    BY <1>1 DEF Scans
  <2> QED
    BY <2>1, SizeAssumption DEF Idle
<1>7. lk2 = Lookups'
  BY DEF Lookups
<1> HIDE DEF lk, lk2
<1>8. ScanSound(scan, sweep, floor, lk2)
  BY <1>1, <1>3, <1>4, <1>5, <1>6, ScanGrows
<1> QED
  BY <1>2, <1>7, <1>8 DEF ScanInv

\* get: a miss changes nothing but its counter; a hit moves the node and its key
\* to the front of the list and of the order of use.
LEMMA GetInv ==
    ASSUME IndInv, NEW k \in Key, Get(k)
    PROVE  IndInv'
<1> DEFINE s == ShardOf[k]
<1>1. /\ CacheType /\ ShardsSound /\ ScanInv /\ s \in Shards
      /\ Sound(s, items_[s], index_[s], recent[s], latest)
      /\ latest \in [Key -> Value \cup {None}]
  BY AtShard
<1> HIDE DEF s
<1>2. /\ ScanInv' /\ hits_' \in [Shards -> Nat] /\ misses_' \in [Shards -> Nat]
  BY <1>1, LookupCounted DEF Get, s
<1>3. CASE index_[s][k] = None
  <2>1. UNCHANGED <<items_, index_, recent, latest, scan, sweep, floor>>
    BY <1>3 DEF Get, s
  <2> QED
    BY <1>1, <1>2, <2>1 DEF IndInv, CacheType, ShardsSound
<1>4. CASE index_[s][k] # None
  <2> DEFINE q2 == Splice(items_[s], PosOf(items_[s], index_[s][k]))
             r2 == Touch(recent[s], k)
  <2>1. /\ items_' = [items_ EXCEPT ![s] = q2] /\ recent' = [recent EXCEPT ![s] = r2]
        /\ index_' = index_ /\ latest' = latest /\ UNCHANGED <<scan, sweep, floor>>
    BY <1>4 DEF Get, Hit, s
  <2>2. Sound(s, q2, index_[s], r2, latest)
    BY <1>1, <1>4, HitMoved, MovedSound
  <2> HIDE DEF q2, r2
  <2>3. index_' = [index_ EXCEPT ![s] = index_[s]]
    BY <1>1, <2>1 DEF CacheType
  <2>4. /\ ShardsSound' /\ items_' \in [Shards -> Seq(Nodes)]
        /\ index_' \in [Shards -> [Key -> Addr \cup {None}]]
        /\ recent' \in [Shards -> Seq(Key)]
    BY <1>1, <2>1, <2>2, <2>3, ShardStep
  <2> QED
    BY <1>1, <1>2, <2>1, <2>4 DEF IndInv, CacheType
<1> QED
  BY <1>3, <1>4

\* put of a present key.
LEMMA PutPresentInv ==
    ASSUME IndInv, NEW k \in Key, NEW v \in Value, PutPresent(k, v)
    PROVE  IndInv'
<1> DEFINE s == ShardOf[k]
           q2 == [Splice(items_[s], PosOf(items_[s], index_[s][k])) EXCEPT ![1].value = v]
           r2 == Touch(recent[s], k)
           la2 == [latest EXCEPT ![k] = v]
<1>1. /\ CacheType /\ ShardsSound /\ ScanInv /\ s \in Shards
      /\ Sound(s, items_[s], index_[s], recent[s], latest)
      /\ latest \in [Key -> Value \cup {None}]
  BY AtShard
<1>2. /\ items_' = [items_ EXCEPT ![s] = q2] /\ recent' = [recent EXCEPT ![s] = r2]
      /\ index_' = index_ /\ latest' = la2
      /\ UNCHANGED <<hits_, misses_, scan, sweep, floor>> /\ index_[s][k] # None
  BY DEF PutPresent, Overwrite, Hit
<1>3. Sound(s, q2, index_[s], r2, la2)
  BY <1>1, <1>2, HitMoved, MovedSound
<1>4. la2 \in [Key -> Value \cup {None}] /\ \A x \in Key : ShardOf[x] # s => la2[x] = latest[x]
  BY <1>1
<1>5. index_' = [index_ EXCEPT ![s] = index_[s]]
  BY <1>1, <1>2 DEF CacheType
<1> HIDE DEF s, q2, r2, la2
<1>6. /\ ShardsSound' /\ items_' \in [Shards -> Seq(Nodes)]
      /\ index_' \in [Shards -> [Key -> Addr \cup {None}]]
      /\ recent' \in [Shards -> Seq(Key)]
  BY <1>1, <1>2, <1>3, <1>4, <1>5, ShardStep
<1>7. ScanInv'
  BY <1>1, <1>2, ScanQuiet
<1> QED
  BY <1>1, <1>2, <1>4, <1>6, <1>7 DEF IndInv, CacheType

\* put of an absent key, with room in the shard.
LEMMA PutNewInv ==
    ASSUME IndInv, NEW k \in Key, NEW v \in Value, NEW a \in Addr, PutNew(k, v, a)
    PROVE  IndInv'
<1> DEFINE s == ShardOf[k]
           q2 == PushFront(items_[s], [addr |-> a, key |-> k, value |-> v])
           ix2 == [index_[s] EXCEPT ![k] = a]
           r2 == Touch(recent[s], k)
           la2 == [latest EXCEPT ![k] = v]
<1>1. /\ CacheType /\ ShardsSound /\ ScanInv /\ s \in Shards
      /\ Sound(s, items_[s], index_[s], recent[s], latest)
      /\ latest \in [Key -> Value \cup {None}]
  BY AtShard
<1>2. /\ items_' = [items_ EXCEPT ![s] = q2] /\ recent' = [recent EXCEPT ![s] = r2]
      /\ index_' = [index_ EXCEPT ![s] = ix2] /\ latest' = la2
      /\ UNCHANGED <<hits_, misses_, scan, sweep, floor>> /\ index_[s][k] = None
      /\ a \notin Addrs(items_[s]) /\ ~ (Len(items_[s]) >= PerShard)
  BY DEF PutNew, Full, Free
<1>3. Len(items_[s]) < PerShard
  <2>1. Len(items_[s]) \in Nat
    BY <1>1, SoundFacts
  <2> QED
    BY <1>2, <2>1, SizeAssumption
<1>4. Sound(s, q2, ix2, r2, la2)
  BY <1>1, <1>2, <1>3, PushSound
<1>5. la2 \in [Key -> Value \cup {None}] /\ \A x \in Key : ShardOf[x] # s => la2[x] = latest[x]
  BY <1>1
<1> HIDE DEF s, q2, ix2, r2, la2
<1>6. /\ ShardsSound' /\ items_' \in [Shards -> Seq(Nodes)]
      /\ index_' \in [Shards -> [Key -> Addr \cup {None}]]
      /\ recent' \in [Shards -> Seq(Key)]
  BY <1>1, <1>2, <1>4, <1>5, ShardStep
<1>7. ScanInv'
  BY <1>1, <1>2, ScanQuiet
<1> QED
  BY <1>1, <1>2, <1>5, <1>6, <1>7 DEF IndInv, CacheType

\* put of an absent key into a full shard.
LEMMA PutEvictingInv ==
    ASSUME IndInv, NEW k \in Key, NEW v \in Value, NEW a \in Addr, PutEvicting(k, v, a)
    PROVE  IndInv'
<1> DEFINE s == ShardOf[k]
           q1 == PopBack(items_[s])
           ix1 == [index_[s] EXCEPT ![items_[s][Len(items_[s])].key] = None]
           q2 == PushFront(q1, [addr |-> a, key |-> k, value |-> v])
           ix2 == [ix1 EXCEPT ![k] = a]
           r2 == Touch(recent[s], k)
           la2 == [latest EXCEPT ![k] = v]
<1>1. /\ CacheType /\ ShardsSound /\ ScanInv /\ s \in Shards
      /\ Sound(s, items_[s], index_[s], recent[s], latest)
      /\ latest \in [Key -> Value \cup {None}]
  BY AtShard
<1>2. /\ items_' = [items_ EXCEPT ![s] = q2] /\ recent' = [recent EXCEPT ![s] = r2]
      /\ index_' = [index_ EXCEPT ![s] = ix2] /\ latest' = la2
      /\ UNCHANGED <<hits_, misses_, scan, sweep, floor>> /\ index_[s][k] = None
      /\ a \notin Addrs(q1) /\ Len(items_[s]) >= PerShard
  BY DEF PutEvicting, Full, Free, UnindexLast
<1>3. /\ Len(items_[s]) \in Nat /\ Len(items_[s]) <= PerShard /\ items_[s] \in Seq(Nodes)
      /\ index_[s] \in [Key -> Addr \cup {None}]
  BY <1>1, SoundFacts
<1>4. items_[s] # <<>> /\ Len(items_[s]) \in 1..Len(items_[s])
  BY <1>2, <1>3, SizeAssumption
<1>5. Len(q1) < PerShard
  <2>1. Len(q1) = Len(items_[s]) - 1
    BY <1>3, <1>4, EraseAtList DEF PopBack
  <2> QED
    BY <1>3, <2>1, SizeAssumption
<1>6. Sound(s, q1, ix1, recent[s], latest)
  BY <1>1, <1>4, PopSound
<1>7. ix1[k] = None
  BY <1>2, <1>3
<1> HIDE DEF q1, ix1
<1>8. Sound(s, q2, ix2, r2, la2)
  BY <1>1, <1>2, <1>5, <1>6, <1>7, PushSound
<1>9. la2 \in [Key -> Value \cup {None}] /\ \A x \in Key : ShardOf[x] # s => la2[x] = latest[x]
  BY <1>1
<1> HIDE DEF s, q2, ix2, r2, la2
<1>10. /\ ShardsSound' /\ items_' \in [Shards -> Seq(Nodes)]
       /\ index_' \in [Shards -> [Key -> Addr \cup {None}]]
       /\ recent' \in [Shards -> Seq(Key)]
  BY <1>1, <1>2, <1>8, <1>9, ShardStep
<1>11. ScanInv'
  BY <1>1, <1>2, ScanQuiet
<1> QED
  BY <1>1, <1>2, <1>9, <1>10, <1>11 DEF IndInv, CacheType

\* erase.
LEMMA EraseInv ==
    ASSUME IndInv, NEW k \in Key, Erase(k)
    PROVE  IndInv'
<1> DEFINE s == ShardOf[k]
           q2 == EraseAt(items_[s], PosOf(items_[s], index_[s][k]))
           ix2 == [index_[s] EXCEPT ![k] = None]
           r2 == EraseAt(recent[s], PlaceOf(recent[s], k))
           la2 == [latest EXCEPT ![k] = None]
<1>1. /\ CacheType /\ ShardsSound /\ ScanInv /\ s \in Shards
      /\ Sound(s, items_[s], index_[s], recent[s], latest)
      /\ latest \in [Key -> Value \cup {None}]
  BY AtShard
<1>2. /\ items_' = [items_ EXCEPT ![s] = q2] /\ recent' = [recent EXCEPT ![s] = r2]
      /\ index_' = [index_ EXCEPT ![s] = ix2] /\ latest' = la2
      /\ UNCHANGED <<hits_, misses_, scan, sweep, floor>> /\ index_[s][k] # None
  BY DEF Erase, PlaceOf
<1>3. Sound(s, q2, ix2, r2, la2)
  BY <1>1, <1>2, EraseSound
<1>4. la2 \in [Key -> Value \cup {None}] /\ \A x \in Key : ShardOf[x] # s => la2[x] = latest[x]
  BY <1>1
<1> HIDE DEF s, q2, ix2, r2, la2
<1>5. /\ ShardsSound' /\ items_' \in [Shards -> Seq(Nodes)]
      /\ index_' \in [Shards -> [Key -> Addr \cup {None}]]
      /\ recent' \in [Shards -> Seq(Key)]
  BY <1>1, <1>2, <1>3, <1>4, ShardStep
<1>6. ScanInv'
  BY <1>1, <1>2, ScanQuiet
<1> QED
  BY <1>1, <1>2, <1>4, <1>5, <1>6 DEF IndInv, CacheType

\* stats() begins, adds up a shard, returns; reset() begins.
LEMMA StatsInv ==
    ASSUME IndInv, StatsBegin \/ StatsShard \/ StatsReturn \/ ResetBegin
    PROVE  IndInv'
<1>1. CacheType /\ ShardsSound /\ ScanInv
  BY DEF IndInv
<1>2. /\ hits_ \in [Shards -> Nat] /\ misses_ \in [Shards -> Nat]
      /\ floor \in [Shards -> Nat] /\ sweep \in 0..NumShards /\ scan \in Scans
  BY <1>1 DEF CacheType
<1>3. UNCHANGED <<items_, index_, hits_, misses_, latest, recent>>
  BY DEF StatsBegin, StatsShard, StatsReturn, ResetBegin
<1>4. ShardsSound' /\ Lookups' = Lookups
  BY <1>1, <1>3 DEF ShardsSound, Lookups
<1>5. SUFFICES /\ floor' \in [Shards -> Nat] /\ sweep' \in 0..NumShards /\ scan' \in Scans
               /\ ScanInv'
  BY <1>1, <1>3, <1>4 DEF IndInv, CacheType
<1>6. Lookups \in [Shards -> Nat]
  BY <1>2 DEF Lookups
<1>7. NoScan \in Scans /\ NoScan.next = Idle
  BY SizeAssumption DEF NoScan, Scans, Idle
<1>8. CASE StatsBegin
  <2> DEFINE sc == [NoScan EXCEPT !.next = 0, !.clean = (sweep = NumShards)]
  <2>1. scan' = sc /\ floor' = Lookups /\ sweep' = sweep
    BY <1>8 DEF StatsBegin, Lookups
  <2>2. sc \in Scans
    <3> DEFINE b == (sweep = NumShards)
    <3>1. 0 \in 0..Idle /\ b \in BOOLEAN
      BY SizeAssumption DEF Idle
    <3> HIDE DEF b
    <3>2. [NoScan EXCEPT !.next = 0, !.clean = b] \in Scans
      BY <1>7, <3>1 DEF Scans
    <3> QED
      BY <3>2 DEF b
  <2>3. ScanSound(sc, sweep, Lookups, Lookups)
    BY <1>6, ScanBegins
  <2> HIDE DEF sc
  <2> QED
    BY <1>2, <1>4, <1>6, <2>1, <2>2, <2>3 DEF ScanInv
<1>9. CASE StatsShard
  <2> DEFINE n == scan.next
             sc2 == AddShard(n)
  <2>1. scan' = sc2 /\ floor' = floor /\ sweep' = sweep /\ n < NumShards
    BY <1>9 DEF StatsShard
  <2>2. n \in 0..(NumShards - 1) /\ n \in Shards
    BY <1>2, <2>1, SizeAssumption DEF Shards, Scans
  <2>3. /\ hits_[n] \in Nat /\ misses_[n] \in Nat /\ hits_[n] + misses_[n] = Lookups[n]
    BY <1>2, <2>2 DEF Lookups
  <2>4. Len(items_[n]) \in Nat /\ Len(items_[n]) <= PerShard
    BY <1>1, <2>2, SoundFacts DEF ShardsSound
  <2>5. /\ sc2.next = n + 1 /\ sc2.hits = scan.hits + hits_[n]
        /\ sc2.misses = scan.misses + misses_[n]
        /\ sc2.size = scan.size + Len(items_[n]) /\ sc2.clean = scan.clean
    BY <1>2 DEF AddShard, Scans
  <2>6. sc2 \in Scans
    <3>1. /\ n + 1 \in 0..Idle /\ scan.hits + hits_[n] \in Nat
          /\ scan.misses + misses_[n] \in Nat /\ scan.size + Len(items_[n]) \in Nat
      <4>1. scan.hits \in Nat /\ scan.misses \in Nat /\ scan.size \in Nat
        BY <1>2 DEF Scans
      <4>2. n + 1 \in 0..Idle
        BY <2>2, SizeAssumption DEF Idle
      <4> HIDE DEF n
      <4>3. scan.hits + hits_[n] \in Nat /\ scan.misses + misses_[n] \in Nat
        BY <2>3, <4>1
      <4>4. scan.size + Len(items_[n]) \in Nat
        BY <2>4, <4>1
      <4> QED
        BY <4>2, <4>3, <4>4
    <3>2. sc2 = [scan EXCEPT !.next = n + 1, !.hits = scan.hits + hits_[n],
                             !.misses = scan.misses + misses_[n],
                             !.size = scan.size + Len(items_[n])]
      BY <1>2 DEF AddShard, Scans
    <3> HIDE DEF sc2, n
    <3> QED
      BY <1>2, <3>1, <3>2 DEF Scans
  <2> HIDE DEF sc2
  <2>7. ScanSound(scan, sweep, floor, Lookups)
    BY <1>1 DEF ScanInv
  <2>8. ScanSound(sc2, sweep, floor, Lookups)
    BY <1>2, <1>6, <2>2, <2>3, <2>4, <2>5, <2>7, ScanAdds
  <2> QED
    BY <1>2, <1>4, <2>1, <2>6, <2>8 DEF ScanInv
<1>10. CASE StatsReturn
  <2>1. /\ scan' = NoScan /\ floor' \in [Shards -> Nat] /\ sweep' = sweep
    BY <1>10 DEF StatsReturn
  <2> QED
    BY <1>2, <1>7, <2>1 DEF ScanInv, ScanSound
<1>11. CASE ResetBegin
  <2> DEFINE sc2 == [scan EXCEPT !.clean = (scan = NoScan)]
  <2>1. scan' = sc2 /\ floor' = floor /\ sweep' = 0
    BY <1>11 DEF ResetBegin
  <2>2. sc2 \in Scans /\ sc2.next = scan.next /\ sc2.clean = (scan = NoScan)
    BY <1>2 DEF Scans
  <2> HIDE DEF sc2
  <2>3. ~ (sc2.next # Idle /\ sc2.clean)
    BY <1>7, <2>2
  <2>4. 0 \in 0..NumShards
    BY SizeAssumption
  <2> QED
    BY <1>2, <2>1, <2>2, <2>3, <2>4 DEF ScanInv, ScanSound
<1> QED
  BY <1>8, <1>9, <1>10, <1>11

\* reset() clears a shard: no stats() that counts as undisturbed is running.
LEMMA ResetShardInv ==
    ASSUME IndInv, ResetShard
    PROVE  IndInv'
<1> DEFINE la2 == [k \in Key |-> IF ShardOf[k] = sweep THEN None ELSE latest[k]]
<1>1. CacheType /\ ShardsSound /\ ScanInv
  BY DEF IndInv
<1>2. /\ hits_ \in [Shards -> Nat] /\ misses_ \in [Shards -> Nat]
      /\ floor \in [Shards -> Nat] /\ sweep \in 0..NumShards /\ scan \in Scans
      /\ latest \in [Key -> Value \cup {None}]
  BY <1>1 DEF CacheType
<1>3. /\ sweep < NumShards /\ sweep' = sweep + 1
      /\ items_' = [items_ EXCEPT ![sweep] = <<>>]
      /\ index_' = [index_ EXCEPT ![sweep] = [k \in Key |-> None]]
      /\ recent' = [recent EXCEPT ![sweep] = <<>>]
      /\ hits_' = [hits_ EXCEPT ![sweep] = 0] /\ misses_' = [misses_ EXCEPT ![sweep] = 0]
      /\ latest' = la2 /\ scan' = scan /\ floor' = floor
  BY DEF ResetShard
<1>4. sweep \in Shards /\ sweep' \in 0..NumShards /\ sweep # NumShards
  BY <1>2, <1>3, SizeAssumption DEF Shards
<1>5. /\ la2 \in [Key -> Value \cup {None}]
      /\ \A k \in Key : ShardOf[k] # sweep => la2[k] = latest[k]
  BY <1>2
<1> HIDE DEF la2
<1>6. Sound(sweep, <<>>, [k \in Key |-> None], <<>>, la2)
  BY EmptySound
<1>7. /\ ShardsSound' /\ items_' \in [Shards -> Seq(Nodes)]
      /\ index_' \in [Shards -> [Key -> Addr \cup {None}]]
      /\ recent' \in [Shards -> Seq(Key)]
  BY <1>1, <1>3, <1>4, <1>5, <1>6, ShardStep
<1>8. ~ (scan.next # Idle /\ scan.clean)
  BY <1>1, <1>4 DEF ScanInv, ScanSound
<1>9. ScanInv'
  BY <1>3, <1>8 DEF ScanInv, ScanSound
<1>10. hits_' \in [Shards -> Nat] /\ misses_' \in [Shards -> Nat]
  BY <1>2, <1>3
<1> QED
  BY <1>2, <1>3, <1>4, <1>5, <1>7, <1>9, <1>10 DEF IndInv, CacheType

LEMMA NextInv == IndInv /\ [Next]_vars => IndInv'
<1> SUFFICES ASSUME IndInv, [Next]_vars PROVE IndInv'
  OBVIOUS
<1>1. ASSUME NEW k \in Key, Get(k) \/ Erase(k) PROVE IndInv'
  BY <1>1, GetInv, EraseInv
<1>2. ASSUME NEW k \in Key, NEW v \in Value, PutPresent(k, v) PROVE IndInv'
  BY <1>2, PutPresentInv
<1>3. ASSUME NEW k \in Key, NEW v \in Value, NEW a \in Addr,
             PutEvicting(k, v, a) \/ PutNew(k, v, a)
      PROVE  IndInv'
  BY <1>3, PutEvictingInv, PutNewInv
<1>4. CASE StatsBegin \/ StatsShard \/ StatsReturn \/ ResetBegin
  BY <1>4, StatsInv
<1>5. CASE ResetShard
  BY <1>5, ResetShardInv
<1>6. CASE UNCHANGED vars
  BY <1>6 DEF vars, IndInv, CacheType, ShardsSound, ScanInv, Lookups
<1> QED
  BY <1>1, <1>2, <1>3, <1>4, <1>5, <1>6 DEF Next

------------------------------------------------------------------------------
(* Theorems.                                                               *)

\* Whatever the threads do, every shard is sound and stats() is on its way to a
\* bracketed answer.
THEOREM Invariance == Spec => []IndInv
  BY InitInv, NextInv, PTL DEF Spec

\* get, put and erase never leave a dangling iterator in the index, a node it
\* does not lead to, or two nodes for one key.
THEOREM ListAndIndexAgree == Spec => []IndexMatchesList
<1>1. IndInv => IndexMatchesList
  <2> SUFFICES ASSUME IndInv PROVE IndexMatchesList
    OBVIOUS
  <2> SUFFICES ASSUME NEW s \in Shards
               PROVE  /\ \A i \in 1..Len(items_[s]) :
                            index_[s][items_[s][i].key] = items_[s][i].addr
                      /\ \A k \in Key : index_[s][k] # None =>
                            \E i \in 1..Len(items_[s]) :
                                items_[s][i].key = k /\ items_[s][i].addr = index_[s][k]
                      /\ \A i, j \in 1..Len(items_[s]) :
                            items_[s][i].addr = items_[s][j].addr => i = j
    BY DEF IndexMatchesList
  <2>1. Sound(s, items_[s], index_[s], recent[s], latest)
    BY DEF IndInv, ShardsSound
  <2> QED
    BY <2>1 DEF Sound
<1> QED
  BY <1>1, Invariance, PTL

\* A hit returns the value put last: put overwrites the node it finds, and no key
\* is in two shards.
THEOREM HitIsLatest == Spec => []HoldsLatest
<1>1. IndInv => HoldsLatest
  <2> SUFFICES ASSUME IndInv, NEW s \in Shards, NEW i \in 1..Len(items_[s])
               PROVE  /\ items_[s][i].value = latest[items_[s][i].key]
                      /\ ShardOf[items_[s][i].key] = s
    BY DEF HoldsLatest
  <2>1. Sound(s, items_[s], index_[s], recent[s], latest)
    BY DEF IndInv, ShardsSound
  <2> QED
    BY <2>1 DEF Sound
<1> QED
  BY <1>1, Invariance, PTL

\* The node pop_back evicts is the shard's least recently used, for any capacity
\* and any sequence of gets, puts, erases and resets.
THEOREM EvictionIsLRU == Spec => []ExactLRU
<1>1. IndInv => ExactLRU
  <2> SUFFICES ASSUME IndInv, NEW s \in Shards
               PROVE  /\ Len(items_[s]) <= Len(recent[s])
                      /\ \A i \in 1..Len(items_[s]) : items_[s][i].key = recent[s][i]
    BY DEF ExactLRU
  <2>1. Sound(s, items_[s], index_[s], recent[s], latest)
    BY DEF IndInv, ShardsSound
  <2> QED
    BY <2>1 DEF Sound
<1> QED
  BY <1>1, Invariance, PTL

\* stats() locks one shard after the other while lookups go on, and what it
\* returns still lies between the lookups at its call and at its return, for any
\* number of shards.
THEOREM StatsAreBracketed == Spec => []StatsBracketed
<1>1. IndInv => StatsBracketed
  <2> SUFFICES ASSUME IndInv, scan.next = NumShards, scan.clean
               PROVE  /\ scan.hits + scan.misses <= SumOver(Lookups)
                      /\ scan.hits + scan.misses >= SumOver(floor)
                      /\ scan.size <= NumShards * PerShard
    BY DEF StatsBracketed
  <2>1. NumShards # Idle
    BY SizeAssumption DEF Idle
  <2>2. /\ Sums(floor)[NumShards] <= scan.hits + scan.misses
        /\ scan.hits + scan.misses <= Sums(Lookups)[NumShards]
        /\ scan.size <= NumShards * PerShard
    BY <2>1 DEF IndInv, ScanInv, ScanSound
  <2> QED
    BY <2>2 DEF SumOver
<1> QED
  BY <1>1, Invariance, PTL

------------------------------------------------------------------------------
(* Refinement.                                                             *)

\* What the store holds, said with the latest values.
View(ix, la) == [k \in Key |-> IF ix[ShardOf[k]][k] = None THEN None ELSE la[k]]

\* A shard has as many nodes as it has keys in its index.
LEMMA OneNodePerKey ==
    ASSUME NEW s, NEW q, NEW ix, NEW rc, NEW la, Sound(s, q, ix, rc, la)
    PROVE  Cardinality({k \in Key : ix[k] # None}) = Len(q)
<1> DEFINE K == {k \in Key : ix[k] # None}
           f == [i \in 1..Len(q) |-> q[i].key]
<1>1. \A m \in 1..Len(q) : q[m].key \in Key /\ ix[q[m].key] \in Addr
  BY SoundFacts
<1>2. \A m, n \in 1..Len(q) : q[m].key = q[n].key => m = n
  BY SoundFacts
<1>3. \A k \in Key : ix[k] # None => \E i \in 1..Len(q) : q[i].key = k
  BY SoundFacts
<1>4. Len(q) \in Nat
  BY SoundFacts
<1>5. f \in [1..Len(q) -> K]
  BY <1>1, NoneAssumption
<1>6. \A m, n \in 1..Len(q) : f[m] = f[n] => m = n
  BY <1>2
<1>7. \A k \in K : \E m \in 1..Len(q) : f[m] = k
  BY <1>3
<1> HIDE DEF f, K
<1>8. ExistsBijection(1..Len(q), K)
  <2>1. f \in Injection(1..Len(q), K) /\ f \in Surjection(1..Len(q), K)
    BY <1>5, <1>6, <1>7 DEF Injection, IsInjective, Surjection
  <2> QED
    BY <2>1 DEF Bijection, ExistsBijection
<1> QED
  BY <1>4, <1>8, FS_CountingElements DEF K

\* A get returns the latest value of a present key, and the keys of a shard that
\* have one are as many as its nodes.
LEMMA ViewFacts ==
    ASSUME NEW it, NEW ix, NEW rc, NEW la,
           \A s \in Shards : Sound(s, it[s], ix[s], rc[s], la)
    PROVE  /\ [k \in Key |-> IF ix[ShardOf[k]][k] = None THEN None
                             ELSE it[ShardOf[k]][PosOf(it[ShardOf[k]], ix[ShardOf[k]][k])].value]
              = View(ix, la)
           /\ View(ix, la) \in [Key -> Value \cup {None}]
           /\ \A k \in Key : View(ix, la)[k] # None <=> ix[ShardOf[k]][k] # None
           /\ \A k \in Key : Cardinality(Store!Beside(k, View(ix, la))) = Len(it[ShardOf[k]])
<1>1. ASSUME NEW k \in Key, ix[ShardOf[k]][k] # None
      PROVE  /\ it[ShardOf[k]][PosOf(it[ShardOf[k]], ix[ShardOf[k]][k])].value = la[k]
             /\ la[k] \in Value
  <2> DEFINE s == ShardOf[k]
             i == PosOf(it[s], ix[s][k])
  <2>1. Sound(s, it[s], ix[s], rc[s], la)
    BY HashAssumption
  <2>2. i \in 1..Len(it[s]) /\ it[s][i].key = k
    BY <1>1, <2>1, Found
  <2>3. it[s] \in Seq(Nodes) /\ it[s][i].value = la[k]
    BY <2>1, <2>2, SoundFacts
  <2>4. it[s][i] \in Nodes
    BY <2>2, <2>3
  <2>5. it[s][i].value \in Value
    BY <2>4 DEF Nodes
  <2> QED
    BY <2>3, <2>5
<1> DEFINE V == View(ix, la)
<1>2. \A k \in Key : V[k] = IF ix[ShardOf[k]][k] = None THEN None ELSE la[k]
  BY DEF View
<1>3. V \in [Key -> Value \cup {None}]
  BY <1>1 DEF View
<1>4. \A k \in Key : V[k] # None <=> ix[ShardOf[k]][k] # None
  BY <1>1, <1>2, NoneAssumption
<1>5. ASSUME NEW k \in Key
      PROVE  Cardinality(Store!Beside(k, V)) = Len(it[ShardOf[k]])
  <2> DEFINE s == ShardOf[k]
  <2>1. Sound(s, it[s], ix[s], rc[s], la)
    BY HashAssumption
  <2>2. Cardinality({j \in Key : ix[s][j] # None}) = Len(it[s])
    BY <2>1, OneNodePerKey
  <2>3. \A j \in Key : ix[s][j] # None => ShardOf[j] = s
    BY <2>1, Found
  <2> HIDE DEF V
  <2>4. Store!Beside(k, V) = {j \in Key : ix[s][j] # None}
    BY <1>4, <2>3 DEF Store!Beside, Store!Held
  <2> QED
    BY <2>2, <2>4
<1>6. [k \in Key |-> IF ix[ShardOf[k]][k] = None THEN None
                     ELSE it[ShardOf[k]][PosOf(it[ShardOf[k]], ix[ShardOf[k]][k])].value] = V
  BY <1>1 DEF View
<1> QED
  BY <1>3, <1>4, <1>5, <1>6

\* What a put of k with value v does to the contents: key x, if not None, is lost.
LEMMA PutRefines ==
    ASSUME NEW old \in [Key -> Value \cup {None}], NEW new \in [Key -> Value \cup {None}],
           NEW k \in Key, new[k] # None,
           NEW L \in SUBSET Store!Beside(k, old),
           k \notin L, \A x \in L : new[x] = None,
           \A y \in Key : y # k /\ y \notin L => new[y] = old[y],
           \/ L = {}
           \/ /\ old[k] = None /\ Cardinality(L) = 1
              /\ Cardinality(Store!Beside(k, old)) = PerShard,
           Cardinality(Store!Beside(k, new)) <= PerShard
    PROVE  Store!Put(k, old, new)
<1> DEFINE lost == Store!Changed(old, new) \ {k}
<1>1. \A x \in L : x \in Key /\ old[x] # None /\ new[x] = None /\ x # k
  BY DEF Store!Beside, Store!Held
<1>2. lost = L
  BY <1>1 DEF Store!Changed
<1>3. L \subseteq Store!Beside(k, old) \ Store!Held(new)
  BY <1>1 DEF Store!Held
<1> HIDE DEF lost
<1>4. lost \subseteq Store!Beside(k, old) \ Store!Held(new)
  BY <1>2, <1>3
<1>5. lost # {} => /\ old[k] = None
                   /\ Cardinality(lost) = 1
                   /\ Cardinality(Store!Beside(k, old)) = PerShard
  BY <1>2
<1>6. new[k] # None /\ Cardinality(Store!Beside(k, new)) <= PerShard
  OBVIOUS
<1>7. \A S : Store!Cardinality(S) = Cardinality(S)
  BY DEF Store!Cardinality, Cardinality
<1> QED
  BY ONLY <1>4, <1>5, <1>6, <1>7 DEF Store!Put, lost

\* Every step of the cache is a step of the store, or none of it.
LEMMA StepRefines ==
    ASSUME IndInv, IndInv', [Next]_vars
    PROVE  \/ View(index_', latest') = View(index_, latest)
           \/ Store!Step(View(index_, latest), View(index_', latest'))
<1> DEFINE old == View(index_, latest)
           new == View(index_', latest')
<1>1. /\ old \in [Key -> Value \cup {None}]
      /\ \A k \in Key : old[k] # None <=> index_[ShardOf[k]][k] # None
      /\ \A k \in Key : Cardinality(Store!Beside(k, old)) = Len(items_[ShardOf[k]])
  BY ViewFacts DEF IndInv, ShardsSound
<1>2. /\ new \in [Key -> Value \cup {None}]
      /\ \A k \in Key : new[k] # None <=> index_'[ShardOf[k]][k] # None
      /\ \A k \in Key : Cardinality(Store!Beside(k, new)) = Len(items_'[ShardOf[k]])
  BY ViewFacts DEF IndInv, ShardsSound
<1>3. \A k \in Key : old[k] = IF index_[ShardOf[k]][k] = None THEN None ELSE latest[k]
  BY DEF View
<1>4. \A k \in Key : new[k] = IF index_'[ShardOf[k]][k] = None THEN None ELSE latest'[k]
  BY DEF View
<1>5. \A k \in Key : ShardOf[k] \in Shards /\ Len(items_'[ShardOf[k]]) <= PerShard
  <2>1. \A s \in Shards : Sound(s, items_'[s], index_'[s], recent'[s], latest')
    BY DEF IndInv, ShardsSound
  <2> QED
    BY <2>1, HashAssumption, SoundFacts
<1>6. /\ index_ \in [Shards -> [Key -> Addr \cup {None}]]
      /\ latest \in [Key -> Value \cup {None}]
  BY DEF IndInv, CacheType
<1> HIDE DEF old, new
<1>7. CASE UNCHANGED <<index_, latest>>
  BY <1>7 DEF old, new
<1>8. ASSUME NEW k \in Key, Erase(k) PROVE Store!Step(old, new)
  <2>1. /\ index_' = [index_ EXCEPT ![ShardOf[k]][k] = None]
        /\ latest' = [latest EXCEPT ![k] = None]
    BY <1>8 DEF Erase
  <2>2. \A y \in Key : y # k => index_'[ShardOf[y]][y] = index_[ShardOf[y]][y]
                                /\ latest'[y] = latest[y]
    BY <1>5, <1>6, <2>1
  <2>3. index_'[ShardOf[k]][k] = None
    BY <1>5, <1>6, <2>1
  <2>4. Store!Drop(old, new)
    BY <1>3, <1>4, <2>2, <2>3 DEF Store!Drop, Store!Changed, Store!Held
  <2> QED
    BY <2>4 DEF Store!Step
<1>9. ASSUME ResetShard PROVE Store!Step(old, new)
  <2>1. /\ index_' = [index_ EXCEPT ![sweep] = [k \in Key |-> None]]
        /\ latest' = [k \in Key |-> IF ShardOf[k] = sweep THEN None ELSE latest[k]]
    BY <1>9 DEF ResetShard
  <2>2. \A y \in Key : ShardOf[y] # sweep => index_'[ShardOf[y]][y] = index_[ShardOf[y]][y]
                                             /\ latest'[y] = latest[y]
    BY <1>5, <1>6, <2>1
  <2>3. \A y \in Key : ShardOf[y] = sweep => index_'[ShardOf[y]][y] = None
    BY <1>5, <1>6, <2>1
  <2>4. Store!Drop(old, new)
    BY <1>3, <1>4, <2>2, <2>3 DEF Store!Drop, Store!Changed, Store!Held
  <2> QED
    BY <2>4 DEF Store!Step
<1>10. ASSUME NEW k \in Key, NEW v \in Value, PutPresent(k, v) PROVE Store!Step(old, new)
  <2>1. /\ index_' = index_ /\ latest' = [latest EXCEPT ![k] = v]
        /\ index_[ShardOf[k]][k] # None
    BY <1>10 DEF PutPresent
  <2>2. new[k] # None /\ \A y \in Key : y # k => new[y] = old[y]
    BY <1>2, <1>3, <1>4, <1>6, <2>1
  <2>3. Cardinality(Store!Beside(k, new)) <= PerShard
    BY <1>2, <1>5
  <2>4. Store!Put(k, old, new)
    <3>1. {} \in SUBSET Store!Beside(k, old)
      OBVIOUS
    <3> QED
      BY <1>1, <1>2, <2>2, <2>3, <3>1, PutRefines
  <2> QED
    BY <2>4 DEF Store!Step
<1>11. ASSUME NEW k \in Key, NEW v \in Value, NEW a \in Addr, PutNew(k, v, a)
       PROVE  Store!Step(old, new)
  <2>1. /\ index_' = [index_ EXCEPT ![ShardOf[k]][k] = a]
        /\ latest' = [latest EXCEPT ![k] = v]
    BY <1>11 DEF PutNew
  <2>2. /\ index_'[ShardOf[k]][k] = a
        /\ \A y \in Key : y # k => index_'[ShardOf[y]][y] = index_[ShardOf[y]][y]
                                   /\ latest'[y] = latest[y]
    BY <1>5, <1>6, <2>1
  <2>3. new[k] # None /\ \A y \in Key : y # k => new[y] = old[y]
    BY <1>2, <1>3, <1>4, <2>2, NoneAssumption
  <2>4. Cardinality(Store!Beside(k, new)) <= PerShard
    BY <1>2, <1>5
  <2>5. Store!Put(k, old, new)
    <3>1. {} \in SUBSET Store!Beside(k, old)
      OBVIOUS
    <3> QED
      BY <1>1, <1>2, <2>3, <2>4, <3>1, PutRefines
  <2> QED
    BY <2>5 DEF Store!Step
<1>12. ASSUME NEW k \in Key, NEW v \in Value, NEW a \in Addr, PutEvicting(k, v, a)
       PROVE  Store!Step(old, new)
  <2> DEFINE s == ShardOf[k]
             x == items_[s][Len(items_[s])].key
  <2>1. /\ index_' = [index_ EXCEPT ![s] = [[index_[s] EXCEPT ![x] = None] EXCEPT ![k] = a]]
        /\ latest' = [latest EXCEPT ![k] = v]
        /\ index_[s][k] = None /\ Len(items_[s]) >= PerShard
    BY <1>12 DEF PutEvicting, UnindexLast, Full
  <2>2. Sound(s, items_[s], index_[s], recent[s], latest) /\ s \in Shards
    BY <1>5 DEF IndInv, ShardsSound
  <2>3. Len(items_[s]) \in Nat /\ Len(items_[s]) <= PerShard
    BY <2>2, SoundFacts
  <2>4. Len(items_[s]) = PerShard /\ Len(items_[s]) \in 1..Len(items_[s])
    BY <2>1, <2>3, SizeAssumption
  <2>5. x \in Key /\ ShardOf[x] = s /\ index_[s][x] \in Addr
    BY <2>2, <2>4, SoundFacts
  <2> HIDE DEF x
  <2>6. x # k /\ index_[s][x] # None
    BY <2>1, <2>5, NoneAssumption
  <2>7. /\ index_'[s][k] = a /\ index_'[s][x] = None
        /\ \A y \in Key : y # k /\ y # x => index_'[ShardOf[y]][y] = index_[ShardOf[y]][y]
                                            /\ latest'[y] = latest[y]
    BY <1>5, <1>6, <2>1, <2>5, <2>6
  <2>8. /\ new[k] # None /\ new[x] = None /\ old[k] = None
        /\ \A y \in Key : y # k /\ y \notin {x} => new[y] = old[y]
    BY <1>1, <1>2, <1>3, <1>4, <2>1, <2>5, <2>7, NoneAssumption
  <2>9. Cardinality(Store!Beside(k, new)) <= PerShard
    BY <1>2, <1>5
  <2>10. Cardinality(Store!Beside(k, old)) = PerShard /\ Cardinality({x}) = 1
    BY <1>1, <2>4, FS_Singleton
  <2>11. {x} \in SUBSET Store!Beside(k, old)
    BY <1>1, <2>5, <2>6 DEF Store!Beside, Store!Held
  <2>12. Store!Put(k, old, new)
    BY <1>1, <1>2, <2>6, <2>8, <2>9, <2>10, <2>11, PutRefines
  <2> QED
    BY <2>12 DEF Store!Step
<1>13. ASSUME \/ StatsBegin \/ StatsShard \/ StatsReturn \/ ResetBegin \/ UNCHANGED vars
              \/ \E k \in Key : Get(k)
       PROVE  UNCHANGED <<index_, latest>>
  BY <1>13 DEF StatsBegin, StatsShard, StatsReturn, ResetBegin, vars, Get
<1> QED
  BY <1>7, <1>8, <1>9, <1>10, <1>11, <1>12, <1>13 DEF Next, old, new

\* The cache implements the bounded forgetful store, for any hash of keys to
\* shards: a put costs one other entry of its own shard, and only when the key is
\* new and the shard is full.
THEOREM RefinesStore == Spec => ImplementsStore
<1> DEFINE st == [k \in Key |-> Held(k)]
<1>1. IndInv => st = View(index_, latest) /\ st \in [Key -> Value \cup {None}]
  BY ViewFacts DEF IndInv, ShardsSound, Held
<1>2. IndInv' => st' = View(index_', latest') /\ st' \in [Key -> Value \cup {None}]
  BY ViewFacts DEF IndInv, ShardsSound, Held
<1>3. Init => Store!Init
  BY HashAssumption DEF Init, Store!Init, Held
<1>4. IndInv /\ IndInv' /\ [Next]_vars => [Store!Next]_st
  <2> SUFFICES ASSUME IndInv, IndInv', [Next]_vars PROVE [Store!Next]_st
    OBVIOUS
  <2>1. st' = st \/ Store!Step(st, st')
    BY <1>1, <1>2, StepRefines
  <2> QED
    BY <1>2, <2>1 DEF Store!Next
<1> QED
  BY <1>3, <1>4, Invariance, PTL DEF Spec, ImplementsStore, Store!Spec
==============================================================================
