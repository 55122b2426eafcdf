------------------------------ MODULE TraceWriter ------------------------------
(***************************************************************************)
(* The trace writer of the SIL: callbacks on several executor threads stamp  *)
(* and append records to a bounded buffer, a flush takes the buffer to       *)
(* trace_current.jsonl and rotates the file when it is large, a lifecycle    *)
(* status that enters ACTIVE truncates it.                                   *)
(*                                                                          *)
(* A record is the run whose clock stamped it; the payload a callback copies *)
(* from its message plays no part.  Every body under the writer's lock is    *)
(* one step, what a callback does between two of them is another.            *)
(***************************************************************************)
EXTENDS Naturals, Sequences, SequencesExt

CONSTANTS Threads,      \* callbacks that run at once
          InlineEvery,  \* INLINE_FLUSH_EVERY
          MaxBuf,       \* MAX_BUF
          RotateSize,   \* _rotate_size_bytes, in records
          MaxRecords,   \* bound on the records of one file
          MaxRuns, MaxFaults

Active == 3
Inactive == 2

VARIABLES sim,       \* what the lifecycle manager publishes: state and run
          anchor,    \* sim_base_t: the run the clock is anchored to
          prev,      \* prev_lc
          thr,       \* thr[t]: step, the status it handles, the stamp it took
          buf, file, open, archive, timer,
          appended,  \* history: every record since the file was truncated
          lost,      \* history: a write failed, reset() could not open the file, the buffer ran
                     \* over, or a rotation that failed left its records in both files
          faults

vars == <<sim, anchor, prev, thr, buf, file, open, archive, timer, appended, lost, faults>>

Idle == [pc |-> "idle", state |-> 0, run |-> 0, stamp |-> 0]

Init ==
    /\ sim = [state |-> Inactive, run |-> 0] /\ anchor = 0 /\ prev = 0
    /\ thr = [t \in Threads |-> Idle]
    /\ buf = <<>> /\ file = <<>> /\ open = TRUE /\ archive = <<>> /\ timer = "armed"
    /\ appended = <<>> /\ lost = FALSE /\ faults = 0

Go(t, pc) == thr' = [thr EXCEPT ![t].pc = pc]

\* The simulator starts and stops runs.
RunStarts ==
    /\ sim.state = Inactive /\ sim.run < MaxRuns
    /\ sim' = [state |-> Active, run |-> sim.run + 1]
    /\ UNCHANGED <<anchor, prev, thr, buf, file, open, archive, timer, appended, lost, faults>>

RunStops ==
    /\ sim.state = Active /\ sim' = [sim EXCEPT !.state = Inactive]
    /\ UNCHANGED <<anchor, prev, thr, buf, file, open, archive, timer, appended, lost, faults>>
-----------------------------------------------------------------------------
(* record()                                                                 *)

\* A callback reads the clock (t_now) ...
OnMessage(t) ==
    /\ thr[t].pc = "idle" /\ Len(appended) < MaxRecords
    /\ thr' = [thr EXCEPT ![t].pc = "append", ![t].stamp = anchor]
    /\ UNCHANGED <<sim, anchor, prev, buf, file, open, archive, timer, appended, lost, faults>>

Due(b) == Len(b) >= InlineEvery

\* ... and appends under the lock; a full deque drops its oldest record.
Append1(t) ==
    LET b == Append(buf, thr[t].stamp) IN
    /\ thr[t].pc = "append"
    /\ appended' = Append(appended, thr[t].stamp)
    /\ buf' = IF Len(b) > MaxBuf THEN Tail(b) ELSE b
    /\ lost' = (lost \/ Len(b) > MaxBuf)
    /\ Go(t, IF Due(buf') THEN "flush" ELSE "idle")
    /\ UNCHANGED <<sim, anchor, prev, file, open, archive, timer, faults>>
-----------------------------------------------------------------------------
(* flush()                                                                  *)

\* A failed write has emptied the buffer already.
Written(ok) == IF open /\ ok THEN file \o buf ELSE file

\* Mutant: a rotation that failed reopens the file for writing, not for appending.
RotateFailedTruncates(f, copied, reopens) ==
    file' = <<>> /\ open' = reopens /\ archive' = IF copied THEN archive \o f ELSE archive

\* The file is reopened for appending, if it can be.  What was copied already stays in the
\* archive as well.
RotateFailed(f, copied, reopens) ==
    file' = f /\ open' = reopens /\ archive' = IF copied THEN archive \o f ELSE archive

Rotated(f) == archive' = archive \o f /\ file' = <<>> /\ UNCHANGED open

Flush(ok, rotates) ==
    LET f      == Written(ok)
        failed == lost \/ (open /\ ~ok /\ buf # <<>>)
    IN
    /\ buf' = IF open THEN <<>> ELSE buf
    /\ IF open /\ Len(f) > RotateSize /\ ~rotates
       THEN \E copied, reopens \in BOOLEAN : RotateFailed(f, copied, reopens) /\ lost' = (failed \/ copied)
       ELSE /\ lost' = failed
            /\ IF open /\ Len(f) > RotateSize THEN Rotated(f) ELSE file' = f /\ UNCHANGED <<archive, open>>
    /\ faults' = faults + (IF ok THEN 0 ELSE 1) + (IF rotates THEN 0 ELSE 1)
    /\ faults' <= MaxFaults
    /\ UNCHANGED <<sim, anchor, prev, appended>>

InlineFlush(t) ==
    /\ thr[t].pc = "flush" /\ Go(t, "idle") /\ UNCHANGED timer
    /\ \E ok, rotates \in BOOLEAN : Flush(ok, rotates)

\* threading.Timer runs flush once; nothing arms it again but a reset.
TimerFlush ==
    /\ timer = "armed" /\ timer' = "none" /\ UNCHANGED thr
    /\ \E ok, rotates \in BOOLEAN : Flush(ok, rotates)
-----------------------------------------------------------------------------
(* on_lifecycle                                                             *)

OnLifecycle(t) ==
    /\ thr[t].pc = "idle" /\ Len(appended) < MaxRecords
    /\ thr' = [thr EXCEPT ![t] = [pc |-> "anchor", state |-> sim.state, run |-> sim.run, stamp |-> 0]]
    /\ UNCHANGED <<sim, anchor, prev, buf, file, open, archive, timer, appended, lost, faults>>

\* The message may be an old one by now.
Anchor(t) ==
    /\ thr[t].pc = "anchor" /\ anchor' = thr[t].run
    /\ Go(t, IF thr[t].state = Active /\ prev # Active THEN "reset" ELSE "entered")
    /\ UNCHANGED <<sim, prev, buf, file, open, archive, timer, appended, lost, faults>>

\* reset(); the file may not open, and then nothing is written until the next one.
Reset(t) ==
    /\ thr[t].pc = "reset" /\ Go(t, "entered")
    /\ anchor' = thr[t].run
    /\ buf' = <<>> /\ appended' = <<>> /\ archive' = <<>> /\ timer' = "armed"
    /\ \/ file' = <<>> /\ open' = TRUE /\ lost' = FALSE /\ UNCHANGED faults
       \/ open' = FALSE /\ lost' = TRUE /\ faults < MaxFaults /\ faults' = faults + 1 /\ UNCHANGED file
    /\ UNCHANGED <<sim, prev>>

Entered(t) ==
    /\ thr[t].pc = "entered" /\ prev' = thr[t].state
    /\ thr' = [thr EXCEPT ![t].pc = "append", ![t].stamp = anchor]
    /\ UNCHANGED <<sim, anchor, buf, file, open, archive, timer, appended, lost, faults>>

Next ==
    \/ RunStarts \/ RunStops \/ TimerFlush
    \/ \E t \in Threads : OnMessage(t) \/ Append1(t) \/ InlineFlush(t)
                          \/ OnLifecycle(t) \/ Anchor(t) \/ Reset(t) \/ Entered(t)

Spec == Init /\ [][Next]_vars
-----------------------------------------------------------------------------

\* What is on disk lags by less than the inline flush's worth of records: when no
\* callback is under way the buffer of an open file is short, whatever burst came.
TailIsShort ==
    open /\ (\A t \in Threads : thr[t].pc # "flush") => Len(buf) < InlineEvery

\* No record of a run is lost, doubled or put out of order by flushes of several
\* threads, by the timer or by a rotation, one that fails included: archive, file and
\* buffer together are what was appended, until a write fails, reset() cannot open the
\* file, or a rotation fails after it copied.  A file that cannot be reopened after a
\* rotation loses nothing until the buffer runs over.
NothingLost == ~lost => archive \o file \o buf = appended
=============================================================================
