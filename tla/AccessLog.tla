------------------------------ MODULE AccessLog ------------------------------
(***************************************************************************)
(* AccessLog of http.hpp: write() by the workers, the periodic flush() of  *)
(* report_stats, the last flush() of main() after the threads are joined,  *)
(* and a crash of the process at any point.                                *)
(*                                                                         *)
(* write() reads the clock, then locks mtx_ to format the timestamp with   *)
(* the cached prefix of its second, unlocks, composes the line, and locks  *)
(* mtx_ again to append it: three steps.  A line is the worker, its number *)
(* and the second its timestamp shows.  The file has what was written and  *)
(* flushed to it; buf_ is lost in a crash.  A write of the file may fail   *)
(* (a full disk) and take any part of the buffer before that: nobody looks *)
(* at the outcome, and the stream takes nothing more from then on.  A log  *)
(* file is open (with stdout alone nothing is buffered here).              *)
(***************************************************************************)
EXTENDS Integers, Sequences, FiniteSets

CONSTANTS
    Workers,
    MaxWrites,   \* bound: lines each worker writes
    FlushLines,  \* flush_bytes_, in lines
    MaxSec       \* bound: seconds that pass

ASSUME BoundAssumption ==
    MaxWrites \in Nat /\ FlushLines \in Nat \ {0} /\ MaxSec \in Nat

VARIABLES
    immediate_,      \* --log-immediate
    clock,           \* the second CLOCK_REALTIME shows
    cached_sec_, cached_prefix_,
    buf_, file_,     \* lines in memory, lines in the file
    bad_,            \* file_'s badbit: a write has failed
    lines_,
    pc, now, ts,     \* per worker: where in write, tv_sec, formatted second
    written,         \* per worker: calls of write that have returned
    seen,            \* history, per worker: the second of each line's clock read
    running,         \* g_running, for the flusher
    flusher,         \* report_stats: "check", "sleep" or "joined"
    mainpc           \* "serving", "joining", "flush", "exited", "crashed"

vars == <<immediate_, clock, cached_sec_, cached_prefix_, buf_, file_, bad_, lines_,
          pc, now, ts, written, seen, running, flusher, mainpc>>

wvars == <<pc, now, ts, written, seen>>
alive == mainpc \notin {"exited", "crashed"}

Init ==
    /\ immediate_ \in BOOLEAN
    /\ clock = 1
    /\ cached_sec_ = 0
    /\ cached_prefix_ = 0
    /\ buf_ = <<>>
    /\ file_ = <<>>
    /\ bad_ = FALSE
    /\ lines_ = 0
    /\ pc = [w \in Workers |-> "idle"]
    /\ now = [w \in Workers |-> 0]
    /\ ts = [w \in Workers |-> 0]
    /\ written = [w \in Workers |-> 0]
    /\ seen = [w \in Workers |-> <<>>]
    /\ running = TRUE
    /\ flusher = "check"
    /\ mainpc = "serving"

------------------------------------------------------------------------------

\* Time passes; CLOCK_REALTIME may also be set back.
Tick ==
    /\ alive
    /\ \E t \in 1..MaxSec : t # clock /\ clock' = t
    /\ UNCHANGED <<immediate_, cached_sec_, cached_prefix_, buf_, file_, bad_, lines_,
                   wvars, running, flusher, mainpc>>

\* write: clock_gettime, before any lock.
ReadClock(w) ==
    /\ alive
    /\ pc[w] = "idle"
    /\ written[w] < MaxWrites
    /\ mainpc \in {"serving", "joining"}
    /\ now' = [now EXCEPT ![w] = clock]
    /\ seen' = [seen EXCEPT ![w] = Append(@, clock)]
    /\ pc' = [pc EXCEPT ![w] = "stamp"]
    /\ UNCHANGED <<immediate_, clock, cached_sec_, cached_prefix_, buf_, file_, bad_,
                   lines_, ts, written, running, flusher, mainpc>>

\* Mutant: the prefix is only renewed for a later second.
StaleBackwards(w) == now[w] > cached_sec_

\* now.tv_sec != cached_sec_
Stale(w) == now[w] # cached_sec_

\* write, first locked section: the prefix of this second, cached.
Stamp(w) ==
    /\ alive
    /\ pc[w] = "stamp"
    /\ IF Stale(w)
       THEN cached_prefix_' = now[w] /\ cached_sec_' = now[w]
       ELSE UNCHANGED <<cached_prefix_, cached_sec_>>
    /\ ts' = [ts EXCEPT ![w] = cached_prefix_']
    /\ pc' = [pc EXCEPT ![w] = "append"]
    /\ UNCHANGED <<immediate_, clock, buf_, file_, bad_, lines_, now, written,
                   seen, running, flusher, mainpc>>

Line(w) == [who |-> w, no |-> written[w] + 1, sec |-> ts[w]]

\* Mutant: flush_bytes_ is compared before the line is added.
FlushDueEarly(b) == immediate_ \/ Len(b) > FlushLines

\* Whether write flushes once the buffer is b.
FlushDue(b) == immediate_ \/ Len(b) >= FlushLines

\* Mutant: the stream is usable again after a failure.
StreamWriteClears(b) ==
    /\ \/ file_' = file_ \o b
       \/ \E n \in 0..(Len(b) - 1) : file_' = file_ \o SubSeq(b, 1, n)
    /\ UNCHANGED bad_

\* file_.write and file_.flush: all of b, or a failure after some of it; nothing
\* once one has failed.
StreamWrite(b) ==
    \/ bad_ /\ UNCHANGED <<file_, bad_>>
    \/ ~bad_ /\ file_' = file_ \o b /\ UNCHANGED bad_
    \/ /\ ~bad_
       /\ \E n \in 0..(Len(b) - 1) : file_' = file_ \o SubSeq(b, 1, n)
       /\ bad_' = TRUE

\* Mutant: what is flushed stays in the buffer.
FlushKeepsBuffer(b) == StreamWrite(b) /\ buf_' = b

\* flush_locked, when the buffer is b: whatever became of it, it is cleared.
FlushLocked(b) == StreamWrite(b) /\ buf_' = <<>>

\* write, second locked section: the line, and a flush when one is due.
AppendLine(w) ==
    LET b == Append(buf_, Line(w)) IN
    /\ alive
    /\ pc[w] = "append"
    /\ lines_' = lines_ + 1
    /\ IF FlushDue(b)
       THEN FlushLocked(b)
       ELSE buf_' = b /\ UNCHANGED <<file_, bad_>>
    /\ written' = [written EXCEPT ![w] = @ + 1]
    /\ pc' = [pc EXCEPT ![w] = "idle"]
    /\ UNCHANGED <<immediate_, clock, cached_sec_, cached_prefix_, now, ts, seen,
                   running, flusher, mainpc>>

\* flush(), under the lock.
Flush == FlushLocked(buf_)

\* report_stats looks at g_running: it goes to sleep, or ends.
FlusherCheck ==
    /\ alive
    /\ flusher = "check"
    /\ flusher' = IF running THEN "sleep" ELSE "joined"
    /\ UNCHANGED <<immediate_, clock, cached_sec_, cached_prefix_, buf_, file_, bad_,
                   lines_, wvars, running, mainpc>>

\* It wakes after 100 ms and flushes.
FlusherTick ==
    /\ alive
    /\ flusher = "sleep"
    /\ Flush
    /\ flusher' = "check"
    /\ UNCHANGED <<immediate_, clock, cached_sec_, cached_prefix_, lines_, wvars,
                   running, mainpc>>

\* main() leaves its loop: g_running = false, and the pool is drained.
Shutdown ==
    /\ mainpc = "serving"
    /\ running' = FALSE
    /\ mainpc' = "joining"
    /\ UNCHANGED <<immediate_, clock, cached_sec_, cached_prefix_, buf_, file_, bad_,
                   lines_, wvars, flusher>>

\* Mutant: the log is flushed before the workers are joined.
JoinFlusherOnly ==
    /\ mainpc = "joining"
    /\ flusher = "joined"
    /\ mainpc' = "flush"
    /\ UNCHANGED <<immediate_, clock, cached_sec_, cached_prefix_, buf_, file_, bad_,
                   lines_, wvars, running, flusher>>

\* pool.join() and stats_thread.join().
Join ==
    /\ mainpc = "joining"
    /\ \A w \in Workers : pc[w] = "idle"
    /\ flusher = "joined"
    /\ mainpc' = "flush"
    /\ UNCHANGED <<immediate_, clock, cached_sec_, cached_prefix_, buf_, file_, bad_,
                   lines_, wvars, running, flusher>>

\* g_log.flush(), and main() returns.
FinalFlush ==
    /\ mainpc = "flush"
    /\ Flush
    /\ mainpc' = "exited"
    /\ UNCHANGED <<immediate_, clock, cached_sec_, cached_prefix_, lines_, wvars,
                   running, flusher>>

\* The process dies: what is in memory is gone.
Crash ==
    /\ alive
    /\ mainpc' = "crashed"
    /\ buf_' = <<>>
    /\ UNCHANGED <<immediate_, clock, cached_sec_, cached_prefix_, file_, bad_, lines_,
                   wvars, running, flusher>>

Done == ~alive /\ UNCHANGED vars

Next ==
    \/ Tick \/ FlusherCheck \/ FlusherTick \/ Shutdown \/ Join \/ FinalFlush \/ Crash \/ Done
    \/ \E w \in Workers : ReadClock(w) \/ Stamp(w) \/ AppendLine(w)

Spec == Init /\ [][Next]_vars

------------------------------------------------------------------------------
(* Properties.                                                             *)

\* Lines of worker w with number at most n, each exactly once, in q.
HasLines(q, w, n) ==
    \A i \in 1..n : Cardinality({j \in 1..Len(q) : q[j].who = w /\ q[j].no = i}) = 1

\* As long as the process lives and the disk takes what is written, every line
\* written is in the file or in the buffer, once, and lines() counts them.
NoLineLost ==
    alive /\ ~bad_ => /\ \A w \in Workers : HasLines(file_ \o buf_, w, written[w])
                      /\ Len(file_ \o buf_) = lines_

\* After an orderly shutdown the whole audit trail is in the file.
CompleteAtExit ==
    mainpc = "exited" => /\ \A w \in Workers : pc[w] = "idle"
                         /\ bad_ \/ \A w \in Workers : HasLines(file_, w, written[w])

\* With --log-immediate a line survives a crash once write() has returned;
\* without it less than a full buffer is ever at stake.
CrashLoss ==
    /\ immediate_ /\ ~bad_ => \A w \in Workers : HasLines(file_, w, written[w])
    /\ Len(buf_) < FlushLines

\* A line shows the second its own writer read, although the formatted prefix
\* is shared and another worker may have replaced it in between.
OwnTimestamp ==
    \A j \in 1..Len(file_) : file_[j].sec = seen[file_[j].who][file_[j].no]

\* The audit trail has no hole: a line in the file that is its writer's n-th has
\* n - 1 lines of that writer before it, so the lines of a writer are its first
\* ones, in order.  After a crash or a failed write the trail ends, but what comes
\* later never follows what was lost.
NoHole ==
    \A j \in 1..Len(file_) :
        file_[j].no = Cardinality({i \in 1..j : file_[i].who = file_[j].who})
==============================================================================
