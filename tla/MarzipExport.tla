----------------------------- MODULE MarzipExport -----------------------------
(***************************************************************************)
(* The export of a run as a Marzip evidence pack: the request, the           *)
(* background task that assembles the pieces and the verdict, the status.    *)
(* Two tasks for one run may overlap: they write the same scoring.arrow and  *)
(* the same archive.                                                        *)
(*                                                                          *)
(* Scores are per cent.  A bag is a sequence of rows [total, safety]; one    *)
(* that is missing or cannot be read gives no rows, as an empty one does.    *)
(***************************************************************************)
EXTENDS Naturals, Sequences, FiniteSets, SequencesExt

CONSTANTS Rows,        \* scoring rows a bag may hold
          MaxRows,     \* bound on the rows of a bag
          Tasks        \* exports requested

THRESHOLD_PASS == 70
THRESHOLD_RISK == 50
THRESHOLD_SAFETY_MIN == 80

VARIABLES bag,      \* the recording of the run
          present,  \* the run directory exists
          status,   \* _export_status of the run
          task,     \* task[t]: "none", "queued", "scored", "done", "failed"
          scored,   \* scored[t]: the rows task t made its verdict from
          archive   \* the verdict in the archive, or "none"

vars == <<bag, present, status, task, scored, archive>>

Init ==
    /\ bag \in UNION {[1..n -> Rows] : n \in 0..MaxRows}
    /\ present \in BOOLEAN /\ status = "none"
    /\ task = [t \in Tasks |-> "none"] /\ scored = [t \in Tasks |-> <<>>] /\ archive = "none"

Total(rows) == FoldLeft(LAMBDA acc, r : acc + r.total, 0, rows)

\* The least safety is below the limit when that of some row is.
SafetyMinBelow(rows, limit) == \E i \in DOMAIN rows : rows[i].safety < limit

\* The mean total and the least safety; the caller passes no fault flags.
BuildVerdict(rows) ==
    IF rows = <<>> THEN "INCONCLUSIVE"
    ELSE IF Total(rows) < THRESHOLD_RISK * Len(rows) THEN "FAIL"
    ELSE IF SafetyMinBelow(rows, THRESHOLD_SAFETY_MIN) THEN "RISK"
    ELSE IF Total(rows) >= THRESHOLD_PASS * Len(rows) THEN "PASS"
    ELSE "RISK"

ExportMarzip(t) ==
    /\ task[t] = "none" /\ present
    /\ status' = "processing" /\ task' = [task EXCEPT ![t] = "queued"]
    /\ UNCHANGED <<bag, present, scored, archive>>

\* mcap_to_polars: the rows there are, or none when the bag cannot be read.
McapToPolars == {bag, <<>>}

\* assemble_marzip up to the verdict.
Assemble(t) ==
    /\ task[t] = "queued" /\ present
    /\ task' = [task EXCEPT ![t] = "scored"]
    /\ \E rows \in McapToPolars : scored' = [scored EXCEPT ![t] = rows]
    /\ UNCHANGED <<bag, present, status, archive>>

MakeArchive(t) ==
    /\ task[t] = "scored"
    /\ archive' = BuildVerdict(scored[t])
    /\ status' = "complete" /\ task' = [task EXCEPT ![t] = "done"]
    /\ UNCHANGED <<bag, present, scored>>

\* The directory is gone, or a piece cannot be read: nothing updates the status.
AssembleFails(t) ==
    /\ task[t] \in {"queued", "scored"}
    /\ task' = [task EXCEPT ![t] = "failed"]
    /\ UNCHANGED <<bag, present, status, scored, archive>>

\* The recorder is still writing: the bag grows.
Recorded ==
    /\ Len(bag) < MaxRows
    /\ \E r \in Rows : bag' = Append(bag, r)
    /\ UNCHANGED <<present, status, task, scored, archive>>

Next ==
    \/ Recorded
    \/ \E t \in Tasks : ExportMarzip(t) \/ Assemble(t) \/ MakeArchive(t) \/ AssembleFails(t)

Spec == Init /\ [][Next]_vars
-----------------------------------------------------------------------------

\* A pack that says PASS was made from at least one row, none of them below the least
\* acceptable safety: a run that was unsafe for a moment is never passed by its mean,
\* nor one that was not recorded.
PassMeansSafe ==
    archive = "PASS" => \E t \in Tasks :
        /\ task[t] = "done" /\ scored[t] # <<>>
        /\ \A i \in DOMAIN scored[t] : scored[t][i].safety >= THRESHOLD_SAFETY_MIN
=============================================================================
