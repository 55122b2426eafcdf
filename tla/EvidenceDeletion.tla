--------------------------- MODULE EvidenceDeletion ---------------------------
(***************************************************************************)
(* Deleting an evidence session, and what a rescan does with a deletion that *)
(* was cut short.  A deletion moves the session's directory to a staging     *)
(* place, having first written where it came from twice (beside the staged   *)
(* directory, and centrally), then commits the removal of the index rows,    *)
(* then removes the staged directory and the two notes.  A crash or an I/O   *)
(* error may come between any two of these file operations.                  *)
(*                                                                          *)
(* A session's data is a version number: 0 is no directory, a session that   *)
(* is recorded again at the same path is the next version.  The index row    *)
(* holds the version it was made from, 0 for none.  A note is "none", "torn" *)
(* (its temporary file half written), "tmp" (complete, not yet renamed) or   *)
(* "final".  Which paths may be deleted at all (roots, symbolic links, the   *)
(* layout of unified runs) is one answer, allowed or refused.                *)
(***************************************************************************)
EXTENDS Naturals, FiniteSets

CONSTANTS Evidence,    \* evidence ids
          Workers,     \* processes and threads that delete or rescan
          MaxVersion,  \* bound on the recordings of a session
          MaxFaults    \* bound on the crashes and I/O errors

ASSUME EvidenceAssumption == MaxVersion \in Nat \ {0} /\ MaxFaults \in Nat

VARIABLES
    row,      \* row[e]: version the index rows were made from
    target,   \* target[e]: version at the session's own path
    staged,   \* staged[e]: version in the staging place
    whole,    \* whole[e]: the staged directory has all its files
    meta,     \* meta[e]: the note beside the staged directory
    rec,      \* rec[e]: the central recovery record
    pc,       \* pc[w]: what worker w does next
    job,      \* job[w]: "delete" or "scan", its last call
    ev,       \* ev[w]: the session it is at
    scan,     \* of the rescan: discovered, still to recover, protected, reported
    deleted,  \* deleted[e]: versions whose deletion committed (history)
    faults

files == <<target, staged, whole, meta, rec>>
vars  == <<row, target, staged, whole, meta, rec, pc, job, ev, scan, deleted, faults>>

NoScan == [found |-> {}, todo |-> {}, protected |-> {}, reported |-> {}]

\* Workers inside a rescan hold the coordination lock exclusively, the others shared.
Scanning(w) == pc[w] # "idle" /\ job[w] = "scan"
Deleting(w) == pc[w] # "idle" /\ job[w] = "delete"

Init ==
    /\ target = [e \in Evidence |-> 1] /\ row \in [Evidence -> {0, 1}]
    /\ staged = [e \in Evidence |-> 0] /\ whole = [e \in Evidence |-> FALSE]
    /\ meta = [e \in Evidence |-> "none"] /\ rec = [e \in Evidence |-> "none"]
    /\ pc = [w \in Workers |-> "idle"] /\ job = [w \in Workers |-> "delete"]
    /\ ev \in [Workers -> Evidence]
    /\ scan = NoScan /\ deleted = [e \in Evidence |-> {}] /\ faults = 0

\* Worker w goes to step `to` and nothing else of the workers changes.
Goto(w, to) == pc' = [pc EXCEPT ![w] = to] /\ UNCHANGED <<job, ev, faults>>

Valid(note) == note \in {"tmp", "final"}

\* _write_stage_metadata, one file operation of it: create, fill, rename.
Written(note) == CASE note = "none" -> "torn" [] note = "torn" -> "tmp" [] OTHER -> "final"
-----------------------------------------------------------------------------
(* The locks: both are tried without waiting, and a conflict ends the call.  *)

DeletionFileLock(w, e) ==
    /\ ~\E v \in Workers : Scanning(v)
    /\ ~\E v \in Workers : Deleting(v) /\ ev[v] = e

DeleteEvidenceSession(w, e) ==
    /\ pc[w] = "idle"
    /\ DeletionFileLock(w, e)
    /\ pc' = [pc EXCEPT ![w] = "resolve"] /\ job' = [job EXCEPT ![w] = "delete"]
    /\ ev' = [ev EXCEPT ![w] = e]
    /\ UNCHANGED <<row, files, scan, deleted, faults>>

RescanAll(w) ==
    /\ pc[w] = "idle"
    /\ \A v \in Workers : pc[v] = "idle"
    /\ pc' = [pc EXCEPT ![w] = "discover"] /\ job' = [job EXCEPT ![w] = "scan"]
    /\ scan' = NoScan
    /\ UNCHANGED <<row, files, ev, deleted, faults>>

\* No row, or a path that may not be deleted: the call raises.
ResolveDeletionTarget(w) ==
    /\ pc[w] = "resolve"
    /\ \/ row[ev[w]] # 0 /\ Goto(w, "recover")
       \/ Goto(w, "idle")
    /\ UNCHANGED <<row, files, scan, deleted>>
-----------------------------------------------------------------------------
(* Recovery of an interrupted deletion whose row is still there.            *)

\* Where recovery continues: the rescan with its next row, a deletion with its target.
Recovered(w) == Goto(w, IF Scanning(w) THEN "next" ELSE "exists")

\* Recovery raises: a rescan protects the row and goes on, a deletion is refused.
RecoveryFails(w) ==
    /\ Goto(w, IF Scanning(w) THEN "next" ELSE "idle")
    /\ scan' = IF Scanning(w) THEN [scan EXCEPT !.protected = @ \cup {ev[w]},
                                                !.reported = @ \cup {ev[w]}]
               ELSE scan

\* The note beside a staged directory is made again from a valid one when it is not
\* there; staging writes it before the directory moves, so it always is, and making
\* it again is part of this step.
RecoverIndexedDeletion(w) ==
    LET e == ev[w]
        leftovers == staged[e] # 0 \/ meta[e] # "none" \/ rec[e] # "none"
        moved == leftovers /\ target[e] = 0 /\ staged[e] # 0
        readable == Valid(meta[e]) \/ Valid(rec[e]) IN
    /\ pc[w] = "recover"
    /\ \/ ~leftovers /\ Recovered(w) /\ UNCHANGED scan
       \/ leftovers /\ target[e] # 0 /\ staged[e] = 0 /\ Goto(w, "clear") /\ UNCHANGED scan
       \/ leftovers /\ (target[e] # 0 <=> staged[e] # 0) /\ RecoveryFails(w)
       \/ /\ moved
          /\ IF readable THEN Goto(w, "restore") /\ UNCHANGED scan ELSE RecoveryFails(w)
    /\ meta' = IF moved /\ readable THEN [meta EXCEPT ![e] = "final"] ELSE meta
    /\ UNCHANGED <<row, target, staged, whole, rec, deleted>>

\* _clear_stage_metadata_sources: the directory never moved, the notes are stale.
ClearStageMetadataSources(w) ==
    \/ /\ pc[w] = "clear"
       /\ meta' = [meta EXCEPT ![ev[w]] = "none"]
       /\ Goto(w, "clear2")
       /\ UNCHANGED <<row, target, staged, whole, rec, scan, deleted>>
    \/ /\ pc[w] = "clear2"
       /\ rec' = [rec EXCEPT ![ev[w]] = "none"]
       /\ Recovered(w)
       /\ UNCHANGED <<row, target, staged, whole, meta, scan, deleted>>

MoveBack(w) ==
    /\ target[ev[w]] = 0
    /\ target' = [target EXCEPT ![ev[w]] = staged[ev[w]]]
    /\ staged' = [staged EXCEPT ![ev[w]] = 0] /\ whole' = [whole EXCEPT ![ev[w]] = FALSE]
    /\ UNCHANGED <<row, meta, rec, scan, deleted>>

\* _restore_staged_target, and the target that was recreated in the meantime.
RestoreStagedTarget(w) ==
    \/ pc[w] = "restore" /\ MoveBack(w) /\ Goto(w, "unnote")
    \/ pc[w] = "restore" /\ target[ev[w]] # 0 /\ RecoveryFails(w) /\ UNCHANGED <<row, files, deleted>>
    \/ /\ pc[w] = "unnote"
       /\ meta' = [meta EXCEPT ![ev[w]] = "none"] /\ Goto(w, "unnote2")
       /\ UNCHANGED <<row, target, staged, whole, rec, scan, deleted>>
    \/ /\ pc[w] = "unnote2"
       /\ rec' = [rec EXCEPT ![ev[w]] = "none"] /\ Recovered(w)
       /\ UNCHANGED <<row, target, staged, whole, meta, scan, deleted>>
-----------------------------------------------------------------------------
(* The deletion.                                                            *)

DeleteRows(e) ==
    /\ row' = [row EXCEPT ![e] = 0]
    /\ deleted' = [deleted EXCEPT ![e] = @ \cup ({staged[e]} \ {0})]

\* A session whose files are gone already loses only its rows.
DeleteMissing(w) ==
    /\ pc[w] = "exists"
    /\ \/ target[ev[w]] = 0 /\ DeleteRows(ev[w]) /\ Goto(w, "idle")
       \/ target[ev[w]] # 0 /\ Goto(w, "note") /\ UNCHANGED <<row, deleted>>
    /\ UNCHANGED <<files, scan>>

\* _stage_deletion_target: both notes, then the move.
StageDeletionTarget(w) ==
    LET e == ev[w] IN
    \/ /\ pc[w] = "note"
       /\ meta' = [meta EXCEPT ![e] = Written(meta[e])]
       /\ Goto(w, IF meta'[e] = "final" THEN "record" ELSE "note")
       /\ UNCHANGED <<row, target, staged, whole, rec, scan, deleted>>
    \/ /\ pc[w] = "record"
       /\ rec' = [rec EXCEPT ![e] = Written(rec[e])]
       /\ Goto(w, IF rec'[e] = "final" THEN "rename" ELSE "record")
       /\ UNCHANGED <<row, target, staged, whole, meta, scan, deleted>>
    \/ /\ pc[w] = "rename"
       /\ staged' = [staged EXCEPT ![e] = target[e]] /\ whole' = [whole EXCEPT ![e] = TRUE]
       /\ target' = [target EXCEPT ![e] = 0]
       /\ Goto(w, "commit")
       /\ UNCHANGED <<row, meta, rec, scan, deleted>>

\* Mutant: the staged files go before the rows do.
CommitDeletionLate(w) ==
    /\ pc[w] = "commit"
    /\ whole' = [whole EXCEPT ![ev[w]] = FALSE] /\ Goto(w, "rmtree")
    /\ UNCHANGED <<row, target, staged, meta, rec, scan, deleted>>

CommitDeletion(w) ==
    /\ pc[w] = "commit"
    /\ DeleteRows(ev[w]) /\ Goto(w, "rmtree")
    /\ UNCHANGED <<files, scan>>

\* Mutant: the central record is removed before the staged directory.
RemoveRecordFirst(w) ==
    LET e == ev[w] IN
    \/ /\ pc[w] = "rmtree"
       /\ rec' = [rec EXCEPT ![e] = "none"] /\ Goto(w, "unmeta")
       /\ UNCHANGED <<row, target, staged, whole, meta, scan, deleted>>
    \/ /\ pc[w] = "unmeta"
       /\ meta' = [meta EXCEPT ![e] = "none"] /\ Goto(w, "unrec")
       /\ UNCHANGED <<row, target, staged, whole, rec, scan, deleted>>
    \/ /\ pc[w] = "unrec"
       /\ staged' = [staged EXCEPT ![e] = 0] /\ whole' = [whole EXCEPT ![e] = FALSE]
       /\ Goto(w, "idle")
       /\ UNCHANGED <<row, target, meta, rec, scan, deleted>>

\* What is left is removed in this order, the central record last.
RemoveStaged(w) ==
    LET e == ev[w] IN
    \/ /\ pc[w] = "rmtree" /\ whole[e]
       /\ whole' = [whole EXCEPT ![e] = FALSE] /\ Goto(w, "rmtree")
       /\ UNCHANGED <<row, target, staged, meta, rec, scan, deleted>>
    \/ /\ pc[w] = "rmtree" /\ ~whole[e]
       /\ staged' = [staged EXCEPT ![e] = 0] /\ Goto(w, "unmeta")
       /\ UNCHANGED <<row, target, whole, meta, rec, scan, deleted>>
    \/ /\ pc[w] = "unmeta"
       /\ meta' = [meta EXCEPT ![e] = "none"] /\ Goto(w, "unrec")
       /\ UNCHANGED <<row, target, staged, whole, rec, scan, deleted>>
    \/ /\ pc[w] = "unrec"
       /\ rec' = [rec EXCEPT ![e] = "none"] /\ Goto(w, "idle")
       /\ UNCHANGED <<row, target, staged, whole, meta, scan, deleted>>

\* The rows could not be removed: the transaction is rolled back and the directory
\* moved back, unless the path is taken again.
RestoreAfterRollback(w) ==
    \/ pc[w] = "back" /\ MoveBack(w) /\ Goto(w, "unback")
    \/ pc[w] = "back" /\ target[ev[w]] # 0 /\ Goto(w, "idle") /\ UNCHANGED <<row, files, scan, deleted>>
    \/ /\ pc[w] = "unback"
       /\ meta' = [meta EXCEPT ![ev[w]] = "none"] /\ Goto(w, "unback2")
       /\ UNCHANGED <<row, target, staged, whole, rec, scan, deleted>>
    \/ /\ pc[w] = "unback2"
       /\ rec' = [rec EXCEPT ![ev[w]] = "none"] /\ Goto(w, "idle")
       /\ UNCHANGED <<row, target, staged, whole, meta, scan, deleted>>
-----------------------------------------------------------------------------
(* The rescan.                                                              *)

\* The sessions on disk are listed before anything is recovered.
DiscoverSessions(w) ==
    /\ pc[w] = "discover"
    /\ scan' = [scan EXCEPT !.found = {e \in Evidence : target[e] # 0},
                            !.todo = {e \in Evidence : row[e] # 0}]
    /\ Goto(w, "next")
    /\ UNCHANGED <<row, files, deleted>>

RecoverInterruptedDeletions(w) ==
    /\ pc[w] = "next"
    /\ \/ \E e \in scan.todo :
            /\ scan' = [scan EXCEPT !.todo = @ \ {e}]
            /\ pc' = [pc EXCEPT ![w] = "recover"] /\ ev' = [ev EXCEPT ![w] = e]
            /\ UNCHANGED <<job, faults>>
       \/ scan.todo = {} /\ Goto(w, "cleanup") /\ UNCHANGED scan
    /\ UNCHANGED <<row, files, deleted>>

\* Mutant: a staged directory without a row is put back like one with a row.
PutBackOrphans(w) ==
    LET orphan == {e \in Evidence : rec[e] = "final" /\ row[e] = 0 /\ target[e] = 0} IN
    /\ pc[w] = "cleanup"
    /\ target' = [e \in Evidence |-> IF e \in orphan THEN staged[e] ELSE target[e]]
    /\ staged' = [e \in Evidence |-> IF e \in orphan THEN 0 ELSE staged[e]]
    /\ scan' = [scan EXCEPT !.reported = Evidence]
    /\ Goto(w, "ingest")
    /\ UNCHANGED <<row, whole, meta, rec, deleted>>

\* Records without a row: leftovers of a committed deletion are reported and left to
\* the operator, a record with nothing left is retired.
DiscoverPostcommitCleanup(w) ==
    LET orphan == {e \in Evidence : rec[e] = "final" /\ row[e] = 0}
        pending == {e \in orphan : target[e] = 0 /\ (staged[e] # 0 \/ meta[e] = "final")}
        retired == {e \in orphan \ pending : staged[e] = 0} IN
    /\ pc[w] = "cleanup"
    /\ rec' = [e \in Evidence |-> IF e \in retired THEN "none" ELSE rec[e]]
    /\ scan' = [scan EXCEPT !.reported =
                    @ \cup (orphan \ retired) \cup {e \in Evidence : rec[e] \in {"torn", "tmp"}}]
    /\ Goto(w, "ingest")
    /\ UNCHANGED <<row, target, staged, whole, meta, deleted>>

IngestDiscovered(w) ==
    /\ pc[w] = "ingest"
    /\ row' = [e \in Evidence |-> IF e \in scan.found /\ target[e] # 0 THEN target[e] ELSE row[e]]
    /\ Goto(w, "prune")
    /\ UNCHANGED <<files, scan, deleted>>

PruneMissingSessions(w) ==
    LET stale == {e \in Evidence \ scan.protected : row[e] # 0 /\ target[e] = 0} IN
    /\ pc[w] = "prune"
    /\ row' = [e \in Evidence |-> IF e \in stale THEN 0 ELSE row[e]]
    /\ Goto(w, "idle")
    /\ UNCHANGED <<files, scan, deleted>>
-----------------------------------------------------------------------------
(* Faults and the recorder.                                                 *)

Fault == faults < MaxFaults /\ faults' = faults + 1

\* The process dies: its locks are released, its files stay as they are.
Crash(w) ==
    /\ pc[w] # "idle" /\ Fault
    /\ pc' = [pc EXCEPT ![w] = "idle"]
    /\ UNCHANGED <<row, files, job, ev, scan, deleted>>

\* A file operation of a deletion fails: what its handler undoes.
StagingFails(w) ==
    LET e == ev[w] IN
    /\ pc[w] \in {"note", "record", "rename"} /\ Fault
    /\ meta' = [meta EXCEPT ![e] = "none"]
    /\ rec' = IF pc[w] = "note" THEN rec ELSE [rec EXCEPT ![e] = "none"]
    /\ pc' = [pc EXCEPT ![w] = "idle"]
    /\ UNCHANGED <<row, target, staged, whole, job, ev, scan, deleted>>

CommitFails(w) ==
    /\ pc[w] = "commit" /\ Fault
    /\ pc' = [pc EXCEPT ![w] = "back"]
    /\ UNCHANGED <<row, files, job, ev, scan, deleted>>

\* Answered as deleted, with the clean-up pending.
CleanupFails(w) ==
    /\ pc[w] \in {"rmtree", "unmeta", "unrec"} /\ Fault
    /\ pc' = [pc EXCEPT ![w] = "idle"]
    /\ UNCHANGED <<row, files, job, ev, scan, deleted>>

\* A file operation of a recovery fails.
RecoveryIoFails(w) ==
    /\ pc[w] \in {"clear", "clear2", "restore", "unnote", "unnote2"}
    /\ Fault
    /\ pc' = [pc EXCEPT ![w] = IF Scanning(w) THEN "next" ELSE "idle"]
    /\ scan' = IF Scanning(w) THEN [scan EXCEPT !.protected = @ \cup {ev[w]},
                                                !.reported = @ \cup {ev[w]}]
               ELSE scan
    /\ UNCHANGED <<row, files, job, ev, deleted>>

\* A session is recorded at this path again.
Record(e) ==
    /\ target[e] = 0
    /\ \E v \in 2..MaxVersion :
        /\ v > row[e] /\ v > staged[e] /\ \A d \in deleted[e] : v > d
        /\ target' = [target EXCEPT ![e] = v]
    /\ UNCHANGED <<row, staged, whole, meta, rec, pc, job, ev, scan, deleted, faults>>

\* ingest_frontend_session, at the end of a run: takes none of the locks.
IngestFrontendSession(e) ==
    /\ target[e] # 0 /\ row[e] # target[e]
    /\ row' = [row EXCEPT ![e] = target[e]]
    /\ UNCHANGED <<files, pc, job, ev, scan, deleted, faults>>

Next ==
    \/ \E w \in Workers, e \in Evidence : DeleteEvidenceSession(w, e)
    \/ \E w \in Workers :
        \/ RescanAll(w) \/ ResolveDeletionTarget(w) \/ RecoverIndexedDeletion(w)
        \/ ClearStageMetadataSources(w) \/ RestoreStagedTarget(w)
        \/ DeleteMissing(w) \/ StageDeletionTarget(w) \/ CommitDeletion(w) \/ RemoveStaged(w)
        \/ RestoreAfterRollback(w) \/ DiscoverSessions(w) \/ RecoverInterruptedDeletions(w)
        \/ DiscoverPostcommitCleanup(w) \/ IngestDiscovered(w) \/ PruneMissingSessions(w)
        \/ Crash(w) \/ StagingFails(w) \/ CommitFails(w) \/ CleanupFails(w) \/ RecoveryIoFails(w)
    \/ \E e \in Evidence : Record(e) \/ IngestFrontendSession(e)

Spec == Init /\ [][Next]_vars
-----------------------------------------------------------------------------

\* An indexed session is on disk, all of it: at its own path, or staged with a note
\* that says where it belongs.  Whatever step of a deletion, recovery or rescan is cut
\* short, no row points at data that cannot be had back.
NothingLost ==
    \A e \in Evidence : row[e] # 0 =>
        \/ target[e] # 0
        \/ staged[e] # 0 /\ whole[e] /\ (Valid(meta[e]) \/ Valid(rec[e]))

\* Once a deletion committed, no rescan, retry or restore indexes what it deleted.
NotResurrected == \A e \in Evidence : row[e] \notin deleted[e]

\* A deletion is all or nothing: whatever step of it, of a recovery or of a rescan is cut
\* short, an indexed session can be had back, and a deleted one does not come back.
DeletedOrKept == NothingLost /\ NotResurrected

\* A rescan forgets nothing a deletion left behind: at its end every staged directory
\* has been put back, or is reported as pending or as an error, unless the path has
\* been recorded at again meanwhile (then the next rescan reports it).
LeftoversReported ==
    [][\A w \in Workers : PruneMissingSessions(w) =>
          \A e \in Evidence : staged[e] # 0 /\ target[e] = 0 => e \in scan.reported]_vars
=============================================================================
