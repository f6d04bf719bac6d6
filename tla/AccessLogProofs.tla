--------------------------- MODULE AccessLogProofs ---------------------------
(***************************************************************************)
(* Proofs about AccessLog, for any workers, number of lines, buffer size   *)
(* and clock: no line is lost or doubled while the process lives and the   *)
(* disk takes what is written, the file is complete after an orderly exit, *)
(* what a crash can cost is bounded, a line shows its own second, and the  *)
(* file has no hole.                                                       *)
(***************************************************************************)
EXTENDS AccessLog, FiniteSetTheorems, SequenceTheorems, TLAPS

------------------------------------------------------------------------------
(* The inductive invariant.                                                *)

Lines == [who : Workers, no : Nat, sec : Nat]

LogType ==
    /\ immediate_ \in BOOLEAN
    /\ clock \in Nat
    /\ cached_sec_ \in Nat
    /\ buf_ \in Seq(Lines)
    /\ file_ \in Seq(Lines)
    /\ bad_ \in BOOLEAN
    /\ lines_ \in Nat
    /\ pc \in [Workers -> {"idle", "stamp", "append"}]
    /\ now \in [Workers -> Nat]
    /\ ts \in [Workers -> Nat]
    /\ written \in [Workers -> Nat]
    /\ seen \in [Workers -> Seq(Nat)]
    /\ mainpc \in {"serving", "joining", "flush", "exited", "crashed"}

\* The lines of w among the first n of q.
Of(q, w, n) == {i \in 1..n : q[i].who = w}

\* Every line's number is its place among the lines of its writer.
Numbered(q) == \A j \in 1..Len(q) : q[j].no = Cardinality(Of(q, q[j].who, j))

\* q holds the first wr[w] lines of every worker w, one of every number.
Trail(q, wr) ==
    /\ Numbered(q)
    /\ \A w \in Workers : Cardinality(Of(q, w, Len(q))) = wr[w]
    /\ \A j \in 1..Len(q) : q[j].no \in 1..wr[q[j].who]
    /\ \A j, k \in 1..Len(q) : q[j].who = q[k].who /\ q[j].no = q[k].no => j = k
    /\ \A w \in Workers : \A n \in 1..wr[w] :
          \E j \in 1..Len(q) : q[j].who = w /\ q[j].no = n

\* The lines of q show the seconds sn that their writers read.
Stamped(q, sn) ==
    \A j \in 1..Len(q) : /\ q[j].no \in 1..Len(sn[q[j].who])
                         /\ q[j].sec = sn[q[j].who][q[j].no]

\* A worker inside write has read the clock for its next line and keeps what it
\* read; the cached prefix is that of the cached second.
Reading ==
    /\ cached_prefix_ = cached_sec_
    /\ \A w \in Workers :
        /\ Len(seen[w]) = written[w] + (IF pc[w] = "idle" THEN 0 ELSE 1)
        /\ pc[w] # "idle" => now[w] = seen[w][written[w] + 1]
        /\ pc[w] = "append" => ts[w] = now[w]

\* What the buffer may hold.
Buffer ==
    /\ Len(buf_) < FlushLines
    /\ immediate_ => buf_ = <<>>
    /\ mainpc \in {"exited", "crashed"} => buf_ = <<>>

\* The workers are joined before the last flush.
Joined == mainpc \in {"flush", "exited"} => \A w \in Workers : pc[w] = "idle"

\* All that was written is in the file or the buffer, unless the disk has failed
\* or a crash has taken the buffer.
Complete ==
    ~bad_ /\ (mainpc = "crashed" => immediate_) =>
        Trail(file_ \o buf_, written) /\ Len(file_ \o buf_) = lines_

IndInv ==
    /\ LogType /\ Reading /\ Buffer /\ Joined
    /\ Stamped(file_, seen) /\ Stamped(buf_, seen)
    /\ Numbered(file_)
    /\ Complete

------------------------------------------------------------------------------
(* Lemmas about sequences of lines.                                        *)

\* The lines of a worker can be counted.
LEMMA OfFinite ==
    ASSUME NEW q, NEW w, NEW n \in Nat
    PROVE  IsFiniteSet(Of(q, w, n)) /\ Cardinality(Of(q, w, n)) \in Nat
<1>1. IsFiniteSet(1..n)
  BY FS_Interval
<1>2. Of(q, w, n) \subseteq 1..n
  BY DEF Of
<1> QED
  BY <1>1, <1>2, FS_Subset, FS_CardinalityType

\* A line at the end counts for its writer only.
LEMMA OfAppend ==
    ASSUME NEW q \in Seq(Lines), NEW l \in Lines, NEW w
    PROVE  /\ \A n \in 0..Len(q) : Of(Append(q, l), w, n) = Of(q, w, n)
           /\ l.who # w => Of(Append(q, l), w, Len(q) + 1) = Of(q, w, Len(q))
           /\ l.who = w => Cardinality(Of(Append(q, l), w, Len(q) + 1))
                              = Cardinality(Of(q, w, Len(q))) + 1
<1> DEFINE r == Append(q, l)
<1>1. /\ Len(q) \in Nat /\ Len(r) = Len(q) + 1
      /\ \A i \in 1..Len(q) : r[i] = q[i]
      /\ r[Len(q) + 1] = l
  OBVIOUS
<1> HIDE DEF r
<1>2. \A n \in 0..Len(q) : Of(r, w, n) = Of(q, w, n)
  BY <1>1 DEF Of
<1>3. l.who # w => Of(r, w, Len(q) + 1) = Of(q, w, Len(q))
  BY <1>1 DEF Of
<1>4. ASSUME l.who = w
      PROVE  Cardinality(Of(r, w, Len(q) + 1)) = Cardinality(Of(q, w, Len(q))) + 1
  <2>1. Of(r, w, Len(q) + 1) = Of(q, w, Len(q)) \cup {Len(q) + 1}
    BY <1>1, <1>4 DEF Of
  <2>2. Len(q) + 1 \notin Of(q, w, Len(q))
    BY <1>1 DEF Of
  <2> QED
    BY <1>1, <2>1, <2>2, OfFinite, FS_AddElement
<1> QED
  BY <1>2, <1>3, <1>4 DEF r

\* The numbering of a log is that of every beginning of it.
LEMMA NumberedPrefix ==
    ASSUME NEW q \in Seq(Lines), NEW p \in Seq(Lines), Len(p) <= Len(q),
           \A i \in 1..Len(p) : p[i] = q[i], Numbered(q)
    PROVE  Numbered(p)
<1> SUFFICES ASSUME NEW j \in 1..Len(p)
             PROVE  p[j].no = Cardinality(Of(p, p[j].who, j))
  BY DEF Numbered
<1>1. j \in 1..Len(q) /\ p[j] = q[j]
  OBVIOUS
<1>2. Of(p, p[j].who, j) = Of(q, q[j].who, j)
  BY <1>1 DEF Of
<1> QED
  BY <1>1, <1>2 DEF Numbered

\* The trail with the next line of worker w is the trail of one more line.
LEMMA TrailAppend ==
    ASSUME NEW q \in Seq(Lines), NEW l \in Lines, NEW wr \in [Workers -> Nat],
           Trail(q, wr), l.no = wr[l.who] + 1
    PROVE  Trail(Append(q, l), [wr EXCEPT ![l.who] = @ + 1])
<1> DEFINE r == Append(q, l)
           x == l.who
           n == [wr EXCEPT ![x] = @ + 1]
<1>1. /\ Len(q) \in Nat /\ Len(r) = Len(q) + 1
      /\ \A i \in 1..Len(q) : r[i] = q[i]
      /\ r[Len(q) + 1] = l
      /\ \A i \in 1..Len(q) : q[i] \in Lines
  OBVIOUS
<1>2. /\ x \in Workers /\ n \in [Workers -> Nat] /\ n[x] = wr[x] + 1
      /\ \A w \in Workers : w # x => n[w] = wr[w]
  BY DEF Lines
<1>3. \A w : /\ \A m \in 0..Len(q) : Of(r, w, m) = Of(q, w, m)
             /\ x # w => Of(r, w, Len(q) + 1) = Of(q, w, Len(q))
             /\ x = w => Cardinality(Of(r, w, Len(q) + 1))
                             = Cardinality(Of(q, w, Len(q))) + 1
  BY OfAppend
<1> HIDE DEF r, n, x
<1>4. \A w \in Workers : Cardinality(Of(r, w, Len(r))) = n[w]
  <2>1. \A w \in Workers : Cardinality(Of(q, w, Len(q))) = wr[w]
    BY DEF Trail
  <2> SUFFICES ASSUME NEW w \in Workers PROVE Cardinality(Of(r, w, Len(q) + 1)) = n[w]
    BY <1>1
  <2>2. CASE w = x
    BY <1>2, <1>3, <2>1, <2>2
  <2>3. CASE w # x
    BY <1>2, <1>3, <2>1, <2>3
  <2> QED
    BY <2>2, <2>3
<1>5. Numbered(r)
  <2> SUFFICES ASSUME NEW j \in 1..Len(r)
               PROVE  r[j].no = Cardinality(Of(r, r[j].who, j))
    BY DEF Numbered
  <2>1. CASE j \in 1..Len(q)
    <3>1. r[j] = q[j] /\ j \in 0..Len(q)
      BY <1>1, <2>1
    <3>2. q[j].no = Cardinality(Of(q, q[j].who, j))
      BY <2>1 DEF Trail, Numbered
    <3>3. Of(r, q[j].who, j) = Of(q, q[j].who, j)
      BY <1>3, <3>1
    <3> QED
      BY <3>1, <3>2, <3>3
  <2>2. CASE j = Len(q) + 1
    BY <1>1, <1>2, <1>4, <2>2 DEF x
  <2> QED
    BY <1>1, <2>1, <2>2
<1>6. \A j \in 1..Len(q) : q[j].who \in Workers /\ q[j].no \in 1..wr[q[j].who]
  BY <1>1 DEF Trail, Lines
<1>7. ASSUME NEW j \in 1..Len(r) PROVE r[j].no \in 1..n[r[j].who]
  <2>1. CASE j \in 1..Len(q)
    <3>1. r[j] = q[j] /\ q[j].who \in Workers /\ q[j].no \in 1..wr[q[j].who]
      BY <1>1, <1>6, <2>1
    <3>2. \A w \in Workers : wr[w] \in Nat /\ n[w] \in {wr[w], wr[w] + 1}
      BY <1>2
    <3> QED
      BY <3>1, <3>2, SMTT(60)
  <2>2. CASE j = Len(q) + 1
    BY <1>1, <1>2, <2>2 DEF x
  <2> QED
    BY <1>1, <2>1, <2>2
<1>8. ASSUME NEW j \in 1..Len(r), NEW k \in 1..Len(r), r[j].who = r[k].who, r[j].no = r[k].no
      PROVE  j = k
  <2>1. CASE j \in 1..Len(q) /\ k \in 1..Len(q)
    BY <1>1, <1>8, <2>1 DEF Trail
  <2>2. \A i \in 1..Len(q) : ~(r[i].who = x /\ r[i].no = l.no)
    BY <1>1, <1>2, <1>6 DEF x
  <2> QED
    BY <1>1, <1>8, <2>1, <2>2 DEF x
<1>9. ASSUME NEW w \in Workers, NEW m \in 1..n[w]
      PROVE  \E j \in 1..Len(r) : r[j].who = w /\ r[j].no = m
  <2>1. CASE m \in 1..wr[w]
    BY <1>1, <2>1, SMTT(60) DEF Trail
  <2>2. CASE m \notin 1..wr[w]
    <3>1. w = x /\ m = wr[x] + 1
      BY <1>2, <2>2
    <3> QED
      BY <1>1, <3>1 DEF x
  <2> QED
    BY <2>1, <2>2
<1> QED
  BY <1>4, <1>5, <1>7, <1>8, <1>9 DEF Trail, r, n, x

\* A trail has the lines of every worker once each.
LEMMA TrailHasLines ==
    ASSUME NEW q \in Seq(Lines), NEW wr, Trail(q, wr), NEW w \in Workers
    PROVE  HasLines(q, w, wr[w])
<1> SUFFICES ASSUME NEW i \in 1..wr[w]
             PROVE  Cardinality({j \in 1..Len(q) : q[j].who = w /\ q[j].no = i}) = 1
  BY DEF HasLines
<1>1. PICK j \in 1..Len(q) : q[j].who = w /\ q[j].no = i
  BY DEF Trail
<1>2. {k \in 1..Len(q) : q[k].who = w /\ q[k].no = i} = {j}
  BY <1>1 DEF Trail
<1> QED
  BY <1>2, FS_Singleton

\* A flush, whatever the disk does: the buffer is empty afterwards, the file has
\* a beginning of what it had and was given, and all of it if nothing failed.
LEMMA FlushEffect ==
    ASSUME NEW b \in Seq(Lines), NEW sn, file_ \in Seq(Lines), bad_ \in BOOLEAN,
           FlushLocked(b), Stamped(file_, sn), Stamped(b, sn), Numbered(file_),
           ~bad_ => Numbered(file_ \o b)
    PROVE  /\ buf_' = <<>> /\ file_' \in Seq(Lines) /\ bad_' \in BOOLEAN
           /\ Stamped(file_', sn) /\ Numbered(file_')
           /\ ~bad_' => ~bad_ /\ file_' = file_ \o b
<1>1. CASE bad_ /\ UNCHANGED <<file_, bad_>>
  BY <1>1 DEF FlushLocked
<1>2. ASSUME NEW p \in Seq(Lines), ~bad_, file_' = file_ \o p, Len(p) <= Len(b),
             \A i \in 1..Len(p) : p[i] = b[i]
      PROVE  file_' \in Seq(Lines) /\ Stamped(file_', sn) /\ Numbered(file_')
  <2>1. /\ file_' \in Seq(Lines) /\ file_ \o b \in Seq(Lines)
        /\ Len(file_') = Len(file_) + Len(p) /\ Len(file_ \o b) = Len(file_) + Len(b)
        /\ \A i \in 1..Len(file_') :
             file_'[i] = IF i <= Len(file_) THEN file_[i] ELSE p[i - Len(file_)]
        /\ \A i \in 1..Len(file_ \o b) :
             (file_ \o b)[i] = IF i <= Len(file_) THEN file_[i] ELSE b[i - Len(file_)]
    BY <1>2, ConcatProperties
  <2>2. Len(file_) \in Nat /\ Len(p) \in Nat /\ Len(b) \in Nat
    OBVIOUS
  <2>3. \A i \in 1..Len(file_') : i > Len(file_) =>
            i - Len(file_) \in 1..Len(p) /\ i - Len(file_) \in 1..Len(b)
    BY <1>2, <2>1, <2>2
  <2>4. \A i \in 1..Len(file_') : i \in 1..Len(file_ \o b) /\ file_'[i] = (file_ \o b)[i]
    BY <1>2, <2>1, <2>2, <2>3
  <2>5. Numbered(file_')
    <3>1. Numbered(file_ \o b) /\ Len(file_') <= Len(file_ \o b)
      BY <1>2, <2>1, <2>2
    <3> QED
      BY <2>1, <2>4, <3>1, NumberedPrefix, Zenon
  <2>6. Stamped(file_', sn)
    <3> SUFFICES ASSUME NEW i \in 1..Len(file_')
                 PROVE  /\ file_'[i].no \in 1..Len(sn[file_'[i].who])
                        /\ file_'[i].sec = sn[file_'[i].who][file_'[i].no]
      BY DEF Stamped
    <3>1. CASE i <= Len(file_)
      BY <2>1, <2>2, <3>1, SMTT(60) DEF Stamped
    <3>2. CASE i > Len(file_)
      <4>1. i - Len(file_) \in 1..Len(b) /\ file_'[i] = b[i - Len(file_)]
        BY <1>2, <2>1, <2>2, <2>3, <3>2
      <4> QED
        BY <4>1 DEF Stamped
    <3> QED
      BY <2>2, <3>1, <3>2
  <2> QED
    BY <2>1, <2>5, <2>6
<1>3. CASE ~bad_ /\ file_' = file_ \o b /\ UNCHANGED bad_
  BY <1>2, <1>3 DEF FlushLocked
<1>4. ASSUME NEW n \in 0..(Len(b) - 1), ~bad_, file_' = file_ \o SubSeq(b, 1, n), bad_'
      PROVE  file_' \in Seq(Lines) /\ Stamped(file_', sn) /\ Numbered(file_')
  <2> DEFINE p == SubSeq(b, 1, n)
  <2>1. /\ p \in Seq(Lines) /\ Len(p) <= Len(b)
        /\ \A i \in 1..Len(p) : p[i] = b[i]
    BY <1>4
  <2> HIDE DEF p
  <2>2. file_' = file_ \o p
    BY <1>4 DEF p
  <2> QED
    BY <1>2, <1>4, <2>1, <2>2
<1> QED
  BY <1>1, <1>2, <1>3, <1>4 DEF FlushLocked, StreamWrite

------------------------------------------------------------------------------
(* Initial states and steps.                                               *)

\* The invariant holds before anything is written.
LEMMA InitInv == Init => IndInv
<1> SUFFICES ASSUME Init PROVE IndInv
  OBVIOUS
<1> USE DEF Init
<1>1. LogType
  <2>1. immediate_ \in BOOLEAN /\ bad_ \in BOOLEAN
    OBVIOUS
  <2>2. buf_ \in Seq(Lines) /\ file_ \in Seq(Lines) /\ seen \in [Workers -> Seq(Nat)]
    OBVIOUS
  <2> QED
    BY <2>1, <2>2 DEF LogType
<1>2. Reading /\ Buffer /\ Joined
  BY BoundAssumption DEF Reading, Buffer, Joined
<1>3. Stamped(file_, seen) /\ Stamped(buf_, seen) /\ Numbered(file_)
  BY DEF Stamped, Numbered
<1>4. file_ \o buf_ = <<>>
  OBVIOUS
<1>5. \A w \in Workers : Of(<<>>, w, 0) = {}
  BY DEF Of
<1>6. Trail(<<>>, written)
  <2>1. Len(<<>>) = 0 /\ 1..0 = {} /\ Cardinality({}) = 0
    BY FS_EmptySet
  <2> QED
    BY <1>5, <2>1 DEF Trail, Numbered
<1>7. Complete
  BY <1>4, <1>6 DEF Complete
<1> QED
  BY <1>1, <1>2, <1>3, <1>7 DEF IndInv

\* A step that writes nothing and only moves clocks, the flusher or main().
LEMMA QuietInv ==
    ASSUME IndInv,
           UNCHANGED <<immediate_, cached_sec_, cached_prefix_, buf_, file_, bad_, lines_,
                       pc, now, ts, written, seen>>,
           clock' \in Nat,
           mainpc' \in {"serving", "joining", "flush", "exited", "crashed"},
           mainpc' \in {"exited", "crashed"} <=> mainpc \in {"exited", "crashed"},
           mainpc' = "crashed" <=> mainpc = "crashed",
           mainpc' \in {"flush", "exited"} => \A w \in Workers : pc[w] = "idle"
    PROVE  IndInv'
<1> USE DEF IndInv
<1>1. LogType'
  BY DEF LogType
<1>2. Reading' /\ Buffer' /\ Joined'
  BY DEF Reading, Buffer, Joined
<1>3. Complete'
  BY DEF Complete
<1> QED
  BY <1>1, <1>2, <1>3

\* The clock is read before any lock: a history entry for the next line.
LEMMA ReadClockInv == ASSUME IndInv, NEW w \in Workers, ReadClock(w) PROVE IndInv'
<1> USE DEF IndInv
<1>0. /\ pc[w] = "idle" /\ mainpc \in {"serving", "joining"}
      /\ now' = [now EXCEPT ![w] = clock]
      /\ seen' = [seen EXCEPT ![w] = Append(seen[w], clock)]
      /\ pc' = [pc EXCEPT ![w] = "stamp"]
      /\ UNCHANGED <<immediate_, clock, cached_sec_, cached_prefix_, buf_, file_, bad_,
                     lines_, ts, written, mainpc>>
  BY DEF ReadClock
<1>1. /\ seen[w] \in Seq(Nat) /\ Len(seen[w]) \in Nat /\ clock \in Nat
      /\ seen' \in [Workers -> Seq(Nat)]
      /\ Len(seen'[w]) = Len(seen[w]) + 1
      /\ seen'[w][Len(seen[w]) + 1] = clock
      /\ \A i \in 1..Len(seen[w]) : seen'[w][i] = seen[w][i]
      /\ \A v \in Workers : v # w => seen'[v] = seen[v]
  BY <1>0 DEF LogType
<1>2. LogType'
  BY <1>0, <1>1 DEF LogType
<1>3. Reading'
  <2>1. cached_prefix_' = cached_sec_'
    BY <1>0 DEF Reading
  <2>2. ASSUME NEW v \in Workers
        PROVE  /\ Len(seen'[v]) = written'[v] + (IF pc'[v] = "idle" THEN 0 ELSE 1)
               /\ pc'[v] # "idle" => now'[v] = seen'[v][written'[v] + 1]
               /\ pc'[v] = "append" => ts'[v] = now'[v]
    <3>1. CASE v = w
      <4>1. Len(seen[w]) = written[w]
        BY <1>0 DEF Reading, LogType
      <4> QED
        BY <1>0, <1>1, <3>1, <4>1 DEF LogType
    <3>2. CASE v # w
      BY <1>0, <1>1, <3>2 DEF Reading, LogType
    <3> QED
      BY <3>1, <3>2
  <2> QED
    BY <2>1, <2>2 DEF Reading
<1>4. Buffer' /\ Joined'
  BY <1>0 DEF Buffer, Joined
<1>5. ASSUME NEW q \in Seq(Lines), Stamped(q, seen) PROVE Stamped(q, seen')
  <2> SUFFICES ASSUME NEW j \in 1..Len(q)
               PROVE  /\ q[j].no \in 1..Len(seen'[q[j].who])
                      /\ q[j].sec = seen'[q[j].who][q[j].no]
    BY DEF Stamped
  <2>1. /\ q[j].who \in Workers /\ q[j].no \in 1..Len(seen[q[j].who])
        /\ q[j].sec = seen[q[j].who][q[j].no]
    <3>1. q[j] \in Lines
      OBVIOUS
    <3>2. q[j].who \in Workers
      BY <3>1 DEF Lines
    <3> QED
      BY <1>5, <3>2 DEF Stamped
  <2>2. CASE q[j].who = w
    BY <1>1, <2>1, <2>2, SMTT(60)
  <2>3. CASE q[j].who # w
    BY <1>1, <2>1, <2>3
  <2> QED
    BY <2>2, <2>3
<1>6. Stamped(file_', seen') /\ Stamped(buf_', seen')
  BY <1>0, <1>5 DEF LogType
<1>7. Numbered(file_') /\ Complete'
  BY <1>0 DEF Complete
<1> QED
  BY <1>2, <1>3, <1>4, <1>6, <1>7

\* The shared prefix, renewed or not, is the one of the second this worker read.
LEMMA StampInv == ASSUME IndInv, NEW w \in Workers, Stamp(w) PROVE IndInv'
<1> USE DEF IndInv
<1>0. /\ pc[w] = "stamp"
      /\ cached_prefix_' = now[w] /\ cached_sec_' = now[w]
      /\ ts' = [ts EXCEPT ![w] = now[w]]
      /\ pc' = [pc EXCEPT ![w] = "append"]
      /\ UNCHANGED <<immediate_, clock, buf_, file_, bad_, lines_, now, written, seen, mainpc>>
  BY DEF Stamp, Stale, Reading
<1>1. LogType'
  BY <1>0 DEF LogType
<1>2. Reading'
  BY <1>0 DEF Reading, LogType
<1>3. Buffer' /\ Joined'
  BY <1>0 DEF Buffer, Joined, LogType
<1>4. Complete'
  BY <1>0 DEF Complete
<1> QED
  BY <1>0, <1>1, <1>2, <1>3, <1>4

\* A line is appended, and the buffer written out when that is due.
LEMMA AppendLineInv == ASSUME IndInv, NEW w \in Workers, AppendLine(w) PROVE IndInv'
<1> USE DEF IndInv
<1> DEFINE l == Line(w)
           b == Append(buf_, l)
<1>0. /\ pc[w] = "append" /\ mainpc \in {"serving", "joining"}
      /\ lines_' = lines_ + 1
      /\ written' = [written EXCEPT ![w] = written[w] + 1]
      /\ pc' = [pc EXCEPT ![w] = "idle"]
      /\ UNCHANGED <<immediate_, clock, cached_sec_, cached_prefix_, now, ts, seen, mainpc>>
      /\ IF FlushDue(b) THEN FlushLocked(b) ELSE buf_' = b /\ UNCHANGED <<file_, bad_>>
  BY DEF AppendLine, Joined, alive, LogType
<1>1. /\ l \in Lines /\ l.who = w /\ l.no = written[w] + 1
      /\ l.no \in 1..Len(seen[w]) /\ l.sec = seen[w][l.no]
  BY <1>0 DEF Line, Lines, LogType, Reading
<1> HIDE DEF l
<1>2. /\ b \in Seq(Lines) /\ Len(buf_) \in Nat /\ Len(b) = Len(buf_) + 1
      /\ \A i \in 1..Len(buf_) : b[i] = buf_[i]
      /\ b[Len(buf_) + 1] = l
  BY <1>1 DEF LogType
<1>3. Stamped(b, seen)
  BY <1>1, <1>2 DEF Stamped
<1>4. file_ \o b = Append(file_ \o buf_, l)
  BY <1>1, SMTT(60) DEF LogType
<1> HIDE DEF b
<1>5. ~bad_ => Trail(file_ \o b, written') /\ Len(file_ \o b) = lines_'
  <2> SUFFICES ASSUME ~bad_
               PROVE  Trail(file_ \o b, written') /\ Len(file_ \o b) = lines_'
    OBVIOUS
  <2> DEFINE q == file_ \o buf_
  <2>1. Trail(q, written) /\ Len(q) = lines_ /\ q \in Seq(Lines)
    BY <1>0 DEF Complete, LogType
  <2> HIDE DEF q
  <2>2. written \in [Workers -> Nat] /\ written' = [written EXCEPT ![l.who] = @ + 1]
    BY <1>0, <1>1 DEF LogType
  <2>3. Trail(Append(q, l), written')
    BY <1>1, <2>1, <2>2, TrailAppend
  <2>4. Len(Append(q, l)) = Len(q) + 1
    BY <1>1, <2>1
  <2> QED
    BY <1>0, <1>4, <2>1, <2>3, <2>4 DEF q
<1>6. /\ buf_' \in Seq(Lines) /\ file_' \in Seq(Lines) /\ bad_' \in BOOLEAN
      /\ Stamped(file_', seen) /\ Stamped(buf_', seen) /\ Numbered(file_')
      /\ ~bad_' => ~bad_ /\ file_' \o buf_' = file_ \o b
      /\ Len(buf_') < FlushLines
      /\ immediate_ => buf_' = <<>>
  <2>1. CASE FlushDue(b)
    <3>1. /\ buf_' = <<>> /\ file_' \in Seq(Lines) /\ bad_' \in BOOLEAN
          /\ Stamped(file_', seen) /\ Numbered(file_')
          /\ ~bad_' => ~bad_ /\ file_' = file_ \o b
      <4>1. ~bad_ => Numbered(file_ \o b)
        BY <1>5 DEF Trail
      <4>2. FlushLocked(b)
        BY <1>0, <2>1
      <4>3. file_ \in Seq(Lines) /\ bad_ \in BOOLEAN
        BY DEF LogType
      <4> QED
        BY <1>2, <1>3, <4>1, <4>2, <4>3, FlushEffect
    <3>2. file_ \o b \in Seq(Lines) /\ (file_ \o b) \o <<>> = file_ \o b
      BY <1>2 DEF LogType
    <3> QED
      BY <3>1, <3>2, BoundAssumption DEF Stamped
  <2>2. CASE ~FlushDue(b)
    BY <1>0, <1>2, <1>3, <2>2, BoundAssumption DEF FlushDue, LogType
  <2> QED
    BY <2>1, <2>2
<1>7. LogType'
  <2>1. lines_' \in Nat /\ written' \in [Workers -> Nat]
        /\ pc' \in [Workers -> {"idle", "stamp", "append"}]
    BY <1>0 DEF LogType
  <2> QED
    BY <1>0, <1>6, <2>1, SMTT(60) DEF LogType
<1>8. Reading'
  <2>1. pc \in [Workers -> {"idle", "stamp", "append"}] /\ written \in [Workers -> Nat]
    BY DEF LogType
  <2>2. ASSUME NEW v \in Workers
        PROVE  /\ Len(seen[v]) = written'[v] + (IF pc'[v] = "idle" THEN 0 ELSE 1)
               /\ pc'[v] # "idle" => now[v] = seen[v][written'[v] + 1]
               /\ pc'[v] = "append" => ts[v] = now[v]
    <3>1. /\ Len(seen[v]) = written[v] + (IF pc[v] = "idle" THEN 0 ELSE 1)
          /\ pc[v] # "idle" => now[v] = seen[v][written[v] + 1]
          /\ pc[v] = "append" => ts[v] = now[v]
      BY DEF Reading
    <3>2. CASE v = w
      <4>1. pc'[v] = "idle" /\ written'[v] = written[v] + 1 /\ pc[v] = "append"
            /\ written[v] \in Nat
        BY <1>0, <2>1, <3>2
      <4>2. Len(seen[v]) = written[v] + 1
        BY <3>1, <4>1
      <4> QED
        BY <4>1, <4>2
    <3>3. CASE v # w
      <4>1. pc'[v] = pc[v] /\ written'[v] = written[v]
        BY <1>0, <2>1, <3>3
      <4> QED
        BY <3>1, <4>1
    <3> QED
      BY <3>2, <3>3
  <2> QED
    BY <1>0, <2>2 DEF Reading
<1>9. Buffer' /\ Joined'
  BY <1>0, <1>6 DEF Buffer, Joined
<1>10. Complete'
  BY <1>5, <1>6 DEF Complete
<1> QED
  BY <1>0, <1>6, <1>7, <1>8, <1>9, <1>10

\* flush(), by the timer or by main() at the end.
LEMMA FlushInv ==
    ASSUME IndInv, FlusherTick \/ FinalFlush PROVE IndInv'
<1> USE DEF IndInv
<1>0. /\ FlushLocked(buf_)
      /\ mainpc \notin {"exited", "crashed"}
      /\ mainpc' = mainpc \/ (mainpc = "flush" /\ mainpc' = "exited")
      /\ UNCHANGED <<immediate_, clock, cached_sec_, cached_prefix_, lines_, pc, now, ts,
                     written, seen>>
  BY DEF FlusherTick, FinalFlush, Flush, alive, wvars
<1>1. ~bad_ => Trail(file_ \o buf_, written) /\ Len(file_ \o buf_) = lines_
  BY <1>0 DEF Complete
<1>2. /\ buf_' = <<>> /\ file_' \in Seq(Lines) /\ bad_' \in BOOLEAN
      /\ Stamped(file_', seen) /\ Numbered(file_')
      /\ ~bad_' => ~bad_ /\ file_' = file_ \o buf_
  <2>1. ~bad_ => Numbered(file_ \o buf_)
    BY <1>1 DEF Trail
  <2>2. file_ \in Seq(Lines) /\ bad_ \in BOOLEAN /\ buf_ \in Seq(Lines)
    BY DEF LogType
  <2> QED
    BY <1>0, <2>1, <2>2, FlushEffect
<1>3. LogType'
  BY <1>0, <1>2 DEF LogType
<1>4. Reading' /\ Buffer' /\ Joined'
  BY <1>0, <1>2, BoundAssumption DEF Reading, Buffer, Joined
<1>5. Stamped(file_', seen') /\ Stamped(buf_', seen')
  BY <1>0, <1>2 DEF Stamped
<1>6. Complete'
  <2>1. file_' \o buf_' = file_'
    BY <1>2
  <2> QED
    BY <1>0, <1>1, <1>2, <2>1 DEF Complete
<1> QED
  BY <1>2, <1>3, <1>4, <1>5, <1>6

\* A crash takes the buffer, which --log-immediate keeps empty.
LEMMA CrashInv == ASSUME IndInv, Crash PROVE IndInv'
<1> USE DEF IndInv
<1>0. /\ mainpc \notin {"exited", "crashed"} /\ mainpc' = "crashed" /\ buf_' = <<>>
      /\ UNCHANGED <<immediate_, clock, cached_sec_, cached_prefix_, file_, bad_, lines_,
                     pc, now, ts, written, seen>>
  BY DEF Crash, alive, wvars
<1>1. LogType'
  BY <1>0 DEF LogType
<1>2. Reading' /\ Buffer' /\ Joined'
  BY <1>0, BoundAssumption DEF Reading, Buffer, Joined
<1>3. Stamped(file_', seen') /\ Stamped(buf_', seen')
  BY <1>0 DEF Stamped
<1>4. Complete'
  BY <1>0 DEF Complete, Buffer
<1> QED
  BY <1>0, <1>1, <1>2, <1>3, <1>4

\* Every step of the specification keeps the invariant.
LEMMA NextInv == IndInv /\ [Next]_vars => IndInv'
<1> SUFFICES ASSUME IndInv, [Next]_vars PROVE IndInv'
  OBVIOUS
<1>1. CASE UNCHANGED vars
  BY <1>1, QuietInv DEF vars, IndInv, LogType, Joined
<1>2. CASE Tick \/ FlusherCheck \/ Shutdown \/ Join
  <2>1. clock' \in Nat
    BY <1>2, BoundAssumption DEF Tick, FlusherCheck, Shutdown, Join, IndInv, LogType
  <2>2. UNCHANGED <<immediate_, cached_sec_, cached_prefix_, buf_, file_, bad_, lines_,
                    pc, now, ts, written, seen>>
    BY <1>2 DEF Tick, FlusherCheck, Shutdown, Join, wvars
  <2>3. /\ mainpc' \in {"serving", "joining", "flush", "exited", "crashed"}
        /\ mainpc' \in {"exited", "crashed"} <=> mainpc \in {"exited", "crashed"}
        /\ mainpc' = "crashed" <=> mainpc = "crashed"
        /\ mainpc' \in {"flush", "exited"} => \A w \in Workers : pc[w] = "idle"
    BY <1>2 DEF Tick, FlusherCheck, Shutdown, Join, IndInv, LogType, Joined
  <2> QED
    BY <2>1, <2>2, <2>3, QuietInv
<1>3. CASE FlusherTick \/ FinalFlush
  BY <1>3, FlushInv
<1>4. CASE Crash
  BY <1>4, CrashInv
<1>5. CASE Done
  BY <1>1, <1>5 DEF Done
<1>6. ASSUME NEW w \in Workers, ReadClock(w) \/ Stamp(w) \/ AppendLine(w) PROVE IndInv'
  BY <1>6, ReadClockInv, StampInv, AppendLineInv
<1> QED
  BY <1>1, <1>2, <1>3, <1>4, <1>5, <1>6 DEF Next

------------------------------------------------------------------------------
(* The theorems.                                                           *)

\* The invariant the properties of the log follow from.
THEOREM Invariance == Spec => []IndInv
  BY InitInv, NextInv, PTL DEF Spec

\* While the process lives and the disk takes what is written, every line is in
\* the file or the buffer, once, however writers and flushes interleave.
THEOREM NothingLost == Spec => []NoLineLost
<1>1. IndInv => NoLineLost
  <2> SUFFICES ASSUME IndInv, alive, ~bad_
               PROVE  /\ \A w \in Workers : HasLines(file_ \o buf_, w, written[w])
                      /\ Len(file_ \o buf_) = lines_
    BY DEF NoLineLost
  <2>1. Trail(file_ \o buf_, written) /\ Len(file_ \o buf_) = lines_
    BY DEF IndInv, Complete, alive
  <2>2. file_ \o buf_ \in Seq(Lines)
    BY DEF IndInv, LogType
  <2> QED
    BY <2>1, <2>2, TrailHasLines
<1> QED
  BY <1>1, Invariance, PTL

\* An orderly exit leaves the whole audit trail in the file.
THEOREM ExitIsComplete == Spec => []CompleteAtExit
<1>1. IndInv => CompleteAtExit
  <2> SUFFICES ASSUME IndInv, mainpc = "exited"
               PROVE  /\ \A w \in Workers : pc[w] = "idle"
                      /\ bad_ \/ \A w \in Workers : HasLines(file_, w, written[w])
    BY DEF CompleteAtExit
  <2>1. file_ \in Seq(Lines) /\ file_ \o buf_ = file_
    BY DEF IndInv, LogType, Buffer
  <2>2. ~bad_ => Trail(file_, written)
    BY <2>1 DEF IndInv, Complete
  <2>3. \A w \in Workers : pc[w] = "idle"
    BY DEF IndInv, Joined
  <2> QED
    BY <2>1, <2>2, <2>3, TrailHasLines
<1> QED
  BY <1>1, Invariance, PTL

\* What a crash can cost: with --log-immediate nothing that write() returned
\* from, otherwise less than a full buffer.
THEOREM CrashLossBounded == Spec => []CrashLoss
<1>1. IndInv => CrashLoss
  <2> SUFFICES ASSUME IndInv
               PROVE  /\ immediate_ /\ ~bad_ =>
                            \A w \in Workers : HasLines(file_, w, written[w])
                      /\ Len(buf_) < FlushLines
    BY DEF CrashLoss
  <2>1. immediate_ => file_ \in Seq(Lines) /\ file_ \o buf_ = file_
    BY DEF IndInv, LogType, Buffer
  <2>2. immediate_ /\ ~bad_ => Trail(file_, written)
    BY <2>1 DEF IndInv, Complete
  <2>3. Len(buf_) < FlushLines
    BY DEF IndInv, Buffer
  <2> QED
    BY <2>1, <2>2, <2>3, TrailHasLines
<1> QED
  BY <1>1, Invariance, PTL

\* A line shows the second its writer read, whoever renewed the shared prefix.
THEOREM TimestampIsOwn == Spec => []OwnTimestamp
<1>1. IndInv => OwnTimestamp
  BY DEF IndInv, Stamped, OwnTimestamp
<1> QED
  BY <1>1, Invariance, PTL

\* Crashes and failed writes cut the trail short but leave no hole in it.
THEOREM TrailHasNoHole == Spec => []NoHole
<1>1. IndInv => NoHole
  BY DEF IndInv, Numbered, Of, NoHole
<1> QED
  BY <1>1, Invariance, PTL
==============================================================================
