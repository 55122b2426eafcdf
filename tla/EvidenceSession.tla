---------------------------- MODULE EvidenceSession ----------------------------
(***************************************************************************)
(* Evidence sessions: the command-line runner and the front end's routes     *)
(* start a session in a directory of its own, archive the current trace for  *)
(* a scenario, and finalize, which keeps the session only when some scenario *)
(* in it is valid.  The trace file is one for everybody.                     *)
(*                                                                          *)
(* A trace is "none", "short" (too few own-ship samples or too brief) or     *)
(* "long".  A name is the second it is made in; the suffix that makes it     *)
(* unique is part of the directory.                                         *)
(***************************************************************************)
EXTENDS Naturals, Sequences, FiniteSets, SequencesExt

CONSTANTS Owners,     \* runners and front ends, each with one session
          Scenarios,
          SuffixSet,   \* 0..n, the names tried for one second
          MaxArchives \* bound on the archivings

VARIABLES dirs,      \* dirs[d]: "free", "pending", "kept" or "discarded"
          entries,   \* entries[d][sc]: "absent", "valid" or "invalid"
          picked,    \* picked[o]: directory chosen and not yet made, or none
          session,   \* session[o]: directory of o's session, or none
          everValid, \* everValid[d]: a scenario in d was valid once (history)
          trace, archives

vars == <<dirs, entries, picked, session, everValid, trace, archives>>

None == Cardinality(SuffixSet) + 1

Init ==
    /\ dirs = [d \in SuffixSet |-> "free"]
    /\ entries = [d \in SuffixSet |-> [sc \in Scenarios |-> "absent"]]
    /\ picked = [o \in Owners |-> None] /\ session = [o \in Owners |-> None]
    /\ everValid = [d \in SuffixSet |-> FALSE]
    /\ trace = "none" /\ archives = 0

Exists(d) == dirs[d] \in {"pending", "kept"}

\* _unique_dir: the first name that is not there.
UniqueDir(o) ==
    /\ picked[o] = None /\ session[o] = None
    /\ \E d \in SuffixSet : /\ ~Exists(d) /\ \A c \in SuffixSet : c < d => Exists(c)
                           /\ picked' = [picked EXCEPT ![o] = d]
    /\ UNCHANGED <<dirs, entries, session, everValid, trace, archives>>

Made(o, d) ==
    /\ dirs' = [dirs EXCEPT ![d] = "pending"]
    /\ entries' = [entries EXCEPT ![d] = [sc \in Scenarios |-> "absent"]]
    /\ everValid' = [everValid EXCEPT ![d] = FALSE]
    /\ session' = [session EXCEPT ![o] = d] /\ picked' = [picked EXCEPT ![o] = None]
    /\ UNCHANGED <<trace, archives>>

\* Mutant: a directory somebody made meanwhile is taken over.
StartTakesOver(o) == picked[o] # None /\ Made(o, picked[o])

\* start: the directory must not exist, or the call raises.
Start(o) ==
    LET d == picked[o] IN
    /\ d # None
    /\ \/ ~Exists(d) /\ Made(o, d)
       \/ Exists(d) /\ picked' = [picked EXCEPT ![o] = None]
                    /\ UNCHANGED <<dirs, entries, session, everValid, trace, archives>>

\* validate_trace_jsonl
ValidTrace(t) == t = "long"

\* archive_scenario: the trace is copied over what the scenario had before.
ArchiveScenario(o, sc) ==
    LET d == session[o] IN
    /\ d # None /\ archives < MaxArchives /\ archives' = archives + 1
    /\ entries' = [entries EXCEPT ![d][sc] = IF ValidTrace(trace) THEN "valid" ELSE "invalid"]
    /\ everValid' = [everValid EXCEPT ![d] = @ \/ ValidTrace(trace)]
    /\ UNCHANGED <<dirs, picked, session, trace>>

\* finalize: without a valid scenario the directory is removed.
Finalize(o) ==
    LET d == session[o] IN
    /\ d # None
    /\ IF \E sc \in Scenarios : entries[d][sc] = "valid"
       THEN dirs' = [dirs EXCEPT ![d] = "kept"] /\ UNCHANGED session
       ELSE dirs' = [dirs EXCEPT ![d] = "discarded"] /\ session' = [session EXCEPT ![o] = None]
    /\ UNCHANGED <<entries, picked, everValid, trace, archives>>

\* The writer starts the file anew with every run.
TraceChanges(t) == trace' = t /\ UNCHANGED <<dirs, entries, picked, session, everValid, archives>>

Next ==
    \/ \E o \in Owners : UniqueDir(o) \/ Start(o) \/ Finalize(o) \/ \E sc \in Scenarios : ArchiveScenario(o, sc)
    \/ \E t \in {"short", "long"} : TraceChanges(t)

Spec == Init /\ [][Next]_vars
-----------------------------------------------------------------------------

\* No two sessions under way share a directory, though both were named in one second.
OwnDirectory ==
    \A o, p \in Owners : o # p /\ session[o] # None => session[o] # session[p]

\* What is kept held valid data at some time: nothing is kept for its name only.
KeptWasValid == \A d \in SuffixSet : dirs[d] = "kept" => everValid[d]
-----------------------------------------------------------------------------
(* What the evidence library keeps of a session: the verdict of a scenario,  *)
(* the rows of its gates and their conflicts, the state segments cut from a  *)
(* trace, and the two questions asked of them: the decision frame at a time, *)
(* and the session list.                                                    *)
(*                                                                          *)
(* A JSON value is "true", "false", "none" (null or a missing key) or        *)
(* "other".  Trajectories, events and artifacts follow the trace row by row  *)
(* and are left out.                                                        *)

BoolStatus(v) == CASE v = "true" -> "PASS" [] v = "false" -> "FAIL" [] OTHER -> "UNKNOWN"

\* A layer says passed, or overall_pass when it has no passed; "absent" is no key.
SourceStatus(layer) ==
    CASE layer.passed # "absent"       -> BoolStatus(layer.passed)
      [] layer.overall_pass # "absent" -> BoolStatus(layer.overall_pass)
      [] OTHER                         -> "UNKNOWN"
-----------------------------------------------------------------------------
(* Gates.                                                                   *)

LayerGate == [L1 |-> "G-SCN", L2 |-> "G-SEP", L3 |-> "G-SEP", L4 |-> "G-SEM",
              L5 |-> "G-REL", L6 |-> "G-REL", L7 |-> "G-ACT"]

BatchGate == [cpa_ok |-> "G-SEP", risk_gate_ok |-> "G-SEP", phase_semantics_ok |-> "G-SEM",
              compliance_verdict |-> "G-SEM", stability_pass |-> "G-ACT",
              returned_to_route |-> "G-REL", route_corridor_ok |-> "G-REL",
              seamanship_gate_ok |-> "G-REL"]

\* One row per layer of the report, per field of the batch summary, and G-ART.
\* A compliance verdict is the word PASS or FAIL, written here as "true" and "false".
GateRows(layers, batch, art) ==
    {[gate |-> LayerGate[l], source |-> l, status |-> SourceStatus(layers[l])] : l \in DOMAIN LayerGate}
    \cup {[gate |-> BatchGate[f], source |-> f, status |-> BoolStatus(batch[f])] : f \in DOMAIN BatchGate}
    \cup {[gate |-> "G-ART", source |-> "artifact_consistency", status |-> BoolStatus(art)]}

\* The gates whose known statuses disagree; their rows share a conflict group.
GateConflicts(rows) ==
    {g \in {r.gate : r \in rows} :
        Cardinality({r.status : r \in {q \in rows : q.gate = g}} \ {"UNKNOWN"}) > 1}
-----------------------------------------------------------------------------
(* The scenario verdict and the session's outcome.                          *)

\* The batch summary, else the report, else the word in run_meta.json.
OverallPass(batch, report, word) ==
    CASE batch # "none"  -> batch
      [] report # "none" -> report
      [] word = "pass"   -> "true"
      [] word = "fail"   -> "false"
      [] OTHER           -> "none"

\* verdicts: sequence of the overall_pass values of a session's scenarios.
SessionOutcome(verdicts) ==
    CASE \E i \in DOMAIN verdicts : verdicts[i] = "false" -> "failed"
      [] verdicts # <<>> /\ \A i \in DOMAIN verdicts : verdicts[i] = "true" -> "passed"
      [] OTHER -> "unknown"

-----------------------------------------------------------------------------
(* State segments of one field, and the frame at a time.                    *)

NoState == [value |-> "unset", since |-> 0]

Segment(s, t) == [value |-> s.value, start |-> s.since, end |-> t]

\* Mutant: a repeated value starts its segment anew.
SetStateLate(acc, row) ==
    IF acc.last.value = row.value THEN [acc EXCEPT !.last.since = row.t]
    ELSE [segments |-> IF acc.last = NoState THEN acc.segments
                       ELSE Append(acc.segments, Segment(acc.last, acc.final)),
          last |-> [value |-> row.value, since |-> row.t],
          final |-> acc.final]

\* set_state: a repeated value extends the segment, a new one closes it.
SetState(acc, row) ==
    IF acc.last.value = row.value THEN acc
    ELSE [segments |-> IF acc.last = NoState THEN acc.segments
                       ELSE Append(acc.segments, Segment(acc.last, row.t)),
          last |-> [value |-> row.value, since |-> row.t],
          final |-> acc.final]

\* One trace row; the time the trace ends is kept first.
TraceRow(acc, row) == SetState([acc EXCEPT !.final = IF row.t > @ THEN row.t ELSE @], row)

StateSegments(records) ==
    LET acc == FoldLeft(TraceRow, [segments |-> <<>>, last |-> NoState, final |-> 0], records) IN
    IF acc.last = NoState THEN <<>> ELSE Append(acc.segments, Segment(acc.last, acc.final))

\* query_decision_frame: the segments that hold t, the last end included; of several
\* the one that starts last is what the frame shows, and the later one of equals.
DecisionFrame(segments, t) ==
    LET last == {i \in DOMAIN segments : \A j \in DOMAIN segments : segments[j].end <= segments[i].end}
        hit  == {i \in DOMAIN segments :
                    /\ segments[i].start <= t
                    /\ t < segments[i].end \/ (t = segments[i].end /\ i \in last)} IN
    IF hit = {} THEN "UNKNOWN"
    ELSE segments[CHOOSE i \in hit : \A j \in hit :
            segments[j].start < segments[i].start \/ (segments[j].start = segments[i].start /\ j <= i)].value
-----------------------------------------------------------------------------
(* The session list: filtered, sorted, cut into pages.                      *)

\* Sorted by evidence id, then stably by the key in the direction asked for.
SortedSessions(sessions, desc) ==
    SetToSortSeq(sessions, LAMBDA a, b :
        \/ IF desc THEN a.key > b.key ELSE a.key < b.key
        \/ a.key = b.key /\ a.id < b.id)

TotalPages(n, size) == IF n = 0 THEN 1 ELSE (n + size - 1) \div size

\* The page asked for, moved into the range there is.
SessionPage(sorted, page, size) ==
    LET last == TotalPages(Len(sorted), size)
        p    == IF page > last THEN last ELSE page
    IN SubSeq(sorted, (p - 1) * size + 1, IF p * size > Len(sorted) THEN Len(sorted) ELSE p * size)
=============================================================================
