------------------------ MODULE EvidenceDeletionProofs ------------------------
(***************************************************************************)
(* Proofs about EvidenceDeletion: for any number of sessions, workers,       *)
(* versions and faults a deletion is all or nothing, and a rescan reports    *)
(* what deletions left behind.                                               *)
(*                                                                          *)
(* DeletedOrKept is not inductive: that the staged directory of an indexed   *)
(* session is whole and has its note rests on where each worker is, and that *)
(* only one worker is at a session on the two locks.  IInv says so.          *)
(***************************************************************************)
EXTENDS EvidenceDeletion, TLAPS

Notes     == {"none", "torn", "tmp", "final"}
ScanOnly  == {"discover", "next", "cleanup", "ingest", "prune"}
Restoring == {"clear", "clear2", "restore", "unnote", "unnote2"}
Staging   == {"note", "record", "rename"}
Undoing   == {"back", "unback", "unback2"}
Removing  == {"rmtree", "unmeta", "unrec"}
Steps     == {"idle", "resolve", "recover", "exists", "commit"}
                 \cup ScanOnly \cup Restoring \cup Staging \cup Undoing \cup Removing

\* Steps a deletion alone takes, and steps with the session's row still there.
DeleteOnly == {"resolve", "exists", "commit"} \cup Staging \cup Undoing \cup Removing
WithRow    == {"recover", "exists", "commit"} \cup Restoring \cup Staging \cup Undoing

\* Steps at which the session is at its own path, and at which nothing of it is staged.
AtItsPath == {"clear", "clear2", "unnote", "unnote2", "unback", "unback2"} \cup Staging
Unstaged  == AtItsPath \cup {"exists", "unmeta", "unrec"}

Scans == [found: SUBSET Evidence, todo: SUBSET Evidence,
          protected: SUBSET Evidence, reported: SUBSET Evidence]

TypeOK ==
    /\ row \in [Evidence -> Nat] /\ target \in [Evidence -> Nat] /\ staged \in [Evidence -> Nat]
    /\ whole \in [Evidence -> BOOLEAN]
    /\ meta \in [Evidence -> Notes] /\ rec \in [Evidence -> Notes]
    /\ pc \in [Workers -> Steps] /\ job \in [Workers -> {"delete", "scan"}]
    /\ ev \in [Workers -> Evidence]
    /\ scan \in Scans
    /\ deleted \in [Evidence -> SUBSET (Nat \ {0})]
    /\ faults \in Nat

\* The locks: beside a busy worker there are only deletions of other sessions.
Locked ==
    \A w, v \in Workers : w # v /\ pc[w] # "idle" /\ pc[v] # "idle" =>
        job[w] = "delete" /\ job[v] = "delete" /\ ev[w] # ev[v]

\* What a busy worker can rely on at each step.
AtStep ==
    \A w \in Workers :
        /\ pc[w] \in ScanOnly => job[w] = "scan"
        /\ pc[w] \in DeleteOnly => job[w] = "delete"
        /\ pc[w] \in WithRow => row[ev[w]] # 0
        /\ pc[w] \in AtItsPath => target[ev[w]] # 0
        /\ pc[w] \in Unstaged => staged[ev[w]] = 0
        /\ pc[w] \in {"record", "rename"} => meta[ev[w]] = "final"
        /\ pc[w] = "rename" => rec[ev[w]] = "final"
        /\ pc[w] \in Removing => (row[ev[w]] # 0 => target[ev[w]] # 0)

\* A row without its directory is that of a staged session, whole, with a valid note
\* and not deleted.
RowBacked ==
    \A e \in Evidence : row[e] # 0 /\ target[e] = 0 =>
        /\ staged[e] # 0 /\ whole[e] /\ (Valid(meta[e]) \/ Valid(rec[e]))
        /\ staged[e] \notin deleted[e]

\* What is at a session's path is neither deleted nor the staged version.
PathIsNew ==
    \A e \in Evidence : target[e] # 0 => target[e] \notin deleted[e] /\ target[e] # staged[e]

\* A staged directory has its central record.
StagedRecorded == \A e \in Evidence : staged[e] # 0 => rec[e] = "final"

\* A rescan has rows to recover only, and where it has got to with a session that is
\* staged and not at its path.
Left(e) == staged[e] # 0 /\ target[e] = 0

ScanKnows ==
    \A w \in Workers : pc[w] # "idle" /\ job[w] = "scan" /\ pc[w] # "discover" =>
      /\ \A e \in scan.todo : row[e] # 0
      /\ \A e \in Evidence : Left(e) =>
            \/ e \in scan.reported
            \/ pc[w] \notin {"ingest", "prune"} /\ row[e] = 0
            \/ e \in scan.todo /\ pc[w] \notin {"cleanup", "ingest", "prune"}
            \/ e = ev[w] /\ pc[w] \in {"recover", "restore"}

IInv == /\ TypeOK /\ Locked /\ AtStep /\ RowBacked /\ PathIsNew /\ NotResurrected
        /\ StagedRecorded /\ ScanKnows
-----------------------------------------------------------------------------
USE DEF Notes, ScanOnly, Restoring, Staging, Undoing, Removing, Steps, DeleteOnly, WithRow,
        AtItsPath, Unstaged

(* The initial states: nothing staged, nobody at work.                       *)
LEMMA InitInv == Init => IInv
BY EvidenceAssumption
DEF Init, IInv, TypeOK, Locked, AtStep, RowBacked, PathIsNew, NotResurrected, StagedRecorded,
    ScanKnows, Left, NoScan, Scans

(* A row that is protected and reported leaves the rescan's state well-formed. *)
LEMMA ProtectedType ==
    ASSUME NEW s \in Scans, NEW e \in Evidence
    PROVE  [s EXCEPT !.protected = @ \cup {e}, !.reported = @ \cup {e}] \in Scans
BY DEF Scans

(* A deletion starts on a session nobody is at. *)
LEMMA DeleteEvidenceSessionInv ==
    ASSUME IInv, NEW w \in Workers, NEW e \in Evidence, DeleteEvidenceSession(w, e) PROVE IInv'
<1> USE DEF IInv, DeleteEvidenceSession, DeletionFileLock, Deleting, Scanning, files
<1>1. TypeOK'  BY DEF TypeOK, Scans
<1>2. Locked' /\ AtStep'  BY DEF TypeOK, Locked, AtStep, ScanKnows
<1>3. RowBacked' /\ StagedRecorded'  BY DEF TypeOK, AtStep, RowBacked, StagedRecorded, Valid
<1>4. PathIsNew' /\ NotResurrected'  BY DEF TypeOK, AtStep, RowBacked, PathIsNew, NotResurrected
<1>5. ScanKnows'  BY DEF TypeOK, Locked, AtStep, StagedRecorded, ScanKnows, Left
<1> QED  BY <1>1, <1>2, <1>3, <1>4, <1>5

(* A rescan starts when nobody is at work. *)
LEMMA RescanAllInv ==
    ASSUME IInv, NEW w \in Workers, RescanAll(w) PROVE IInv'
<1> USE DEF IInv, RescanAll, NoScan, Scanning, files
<1>1. TypeOK'  BY DEF TypeOK, Scans
<1>2. Locked' /\ AtStep'  BY DEF TypeOK, Locked, AtStep, ScanKnows
<1>3. RowBacked' /\ StagedRecorded'  BY DEF TypeOK, AtStep, RowBacked, StagedRecorded, Valid
<1>4. PathIsNew' /\ NotResurrected'  BY DEF TypeOK, AtStep, RowBacked, PathIsNew, NotResurrected
<1>5. ScanKnows'  BY DEF TypeOK, Locked, AtStep, StagedRecorded, ScanKnows, Left
<1> QED  BY <1>1, <1>2, <1>3, <1>4, <1>5

(* A deletion goes on with the session's row there. *)
LEMMA ResolveDeletionTargetInv ==
    ASSUME IInv, NEW w \in Workers, ResolveDeletionTarget(w) PROVE IInv'
<1> USE DEF IInv, ResolveDeletionTarget, Goto, Scanning, files
<1>1. TypeOK'  BY DEF TypeOK, Scans
<1>2. Locked' /\ AtStep'  BY DEF TypeOK, Locked, AtStep, ScanKnows
<1>3. RowBacked' /\ StagedRecorded'  BY DEF TypeOK, AtStep, RowBacked, StagedRecorded, Valid
<1>4. PathIsNew' /\ NotResurrected'  BY DEF TypeOK, AtStep, RowBacked, PathIsNew, NotResurrected
<1>5. ScanKnows'  BY DEF TypeOK, Locked, AtStep, StagedRecorded, ScanKnows, Left
<1> QED  BY <1>1, <1>2, <1>3, <1>4, <1>5

(* Recovery finds a moved directory with its note: the rescan restores or reports it. *)
LEMMA RecoverIndexedDeletionInv ==
    ASSUME IInv, NEW w \in Workers, RecoverIndexedDeletion(w) PROVE IInv'
<1> USE DEF IInv, RecoverIndexedDeletion, Goto, Recovered, RecoveryFails, Valid, Scanning, files
<1>1. TypeOK'
  <2>1. scan' \in Scans
    <3>1. CASE UNCHANGED scan  BY <3>1 DEF TypeOK
    <3>2. CASE RecoveryFails(w)  BY <3>2, ProtectedType DEF TypeOK
    <3> QED  BY <3>1, <3>2
  <2>2. pc' \in [Workers -> Steps] /\ UNCHANGED <<job, ev, faults>>  BY DEF TypeOK
  <2>3. meta' \in [Evidence -> Notes]  BY DEF TypeOK
  <2> QED  BY <2>1, <2>2, <2>3 DEF TypeOK
<1>2. Locked' /\ AtStep'  BY SMTT(30) DEF TypeOK, Locked, AtStep, ScanKnows
<1>3. RowBacked' /\ StagedRecorded'  BY DEF TypeOK, AtStep, RowBacked, StagedRecorded, Valid
<1>4. PathIsNew' /\ NotResurrected'  BY DEF TypeOK, AtStep, RowBacked, PathIsNew, NotResurrected
<1>5. ScanKnows'
  <2>1. CASE UNCHANGED scan /\ (Left(ev[w]) => pc'[w] = "restore")
    BY <2>1 DEF TypeOK, Locked, AtStep, ScanKnows, Left
  <2>2. CASE RecoveryFails(w)
    <3>1. Scanning(w) => ev[w] \in scan'.reported /\ scan'.todo = scan.todo
                           /\ scan.reported \subseteq scan'.reported
      BY <2>2 DEF TypeOK, Scans
    <3> QED  BY <2>2, <3>1 DEF TypeOK, Locked, AtStep, ScanKnows, Left
  <2> QED  BY <2>1, <2>2 DEF TypeOK, Left
<1> QED  BY <1>1, <1>2, <1>3, <1>4, <1>5

(* Notes are cleared only while the session is at its own path. *)
LEMMA ClearStageMetadataSourcesInv ==
    ASSUME IInv, NEW w \in Workers, ClearStageMetadataSources(w) PROVE IInv'
<1> USE DEF IInv, ClearStageMetadataSources, Goto, Recovered, Scanning, files
<1>1. TypeOK'  BY DEF TypeOK, Scans
<1>2. Locked' /\ AtStep'  BY SMTT(30) DEF TypeOK, Locked, AtStep, ScanKnows
<1>3. RowBacked' /\ StagedRecorded'  BY DEF TypeOK, AtStep, RowBacked, StagedRecorded, Valid
<1>4. PathIsNew' /\ NotResurrected'  BY DEF TypeOK, AtStep, RowBacked, PathIsNew, NotResurrected
<1>5. ScanKnows'  BY DEF TypeOK, Locked, AtStep, StagedRecorded, ScanKnows, Left
<1> QED  BY <1>1, <1>2, <1>3, <1>4, <1>5

(* Moving a staged directory back gives a row its undeleted directory. *)
LEMMA RestoreStagedTargetInv ==
    ASSUME IInv, NEW w \in Workers, RestoreStagedTarget(w) PROVE IInv'
<1> USE DEF IInv, RestoreStagedTarget, Goto, Recovered, RecoveryFails, MoveBack, Valid, Scanning, files
<1>1. TypeOK'
  <2>1. CASE pc[w] = "restore" /\ MoveBack(w) /\ Goto(w, "unnote")
    BY <2>1, ProtectedType DEF TypeOK
  <2>2. CASE pc[w] = "restore" /\ target[ev[w]] # 0 /\ RecoveryFails(w) /\ UNCHANGED <<row, files, deleted>>
    BY <2>2, ProtectedType DEF TypeOK
  <2>3. CASE pc[w] = "unnote"
    BY <2>3, ProtectedType DEF TypeOK
  <2>4. CASE pc[w] = "unnote2"
    BY <2>4, ProtectedType DEF TypeOK
  <2> QED  BY <2>1, <2>2, <2>3, <2>4
<1>2. Locked' /\ AtStep'
  <2>1. CASE pc[w] = "restore" /\ MoveBack(w) /\ Goto(w, "unnote")
    BY <2>1 DEF TypeOK, Locked, AtStep, RowBacked
  <2>2. CASE pc[w] = "restore" /\ target[ev[w]] # 0 /\ RecoveryFails(w) /\ UNCHANGED <<row, files, deleted>>
    BY <2>2 DEF TypeOK, Locked, AtStep, RowBacked
  <2>3. CASE pc[w] = "unnote"
    BY <2>3 DEF TypeOK, Locked, AtStep, RowBacked
  <2>4. CASE pc[w] = "unnote2"
    BY SMTT(60), <2>4 DEF TypeOK, Locked, AtStep, RowBacked
  <2> QED  BY <2>1, <2>2, <2>3, <2>4
<1>3. RowBacked' /\ StagedRecorded'  BY DEF TypeOK, AtStep, RowBacked, StagedRecorded, Valid
<1>4. PathIsNew' /\ NotResurrected'  BY DEF TypeOK, AtStep, RowBacked, PathIsNew, NotResurrected
<1>5. ScanKnows'
  <2>1. CASE pc[w] = "restore" /\ MoveBack(w) /\ Goto(w, "unnote")
    BY <2>1 DEF TypeOK, Locked, AtStep, ScanKnows, Left, Scans
  <2>2. CASE pc[w] = "restore" /\ target[ev[w]] # 0 /\ RecoveryFails(w) /\ UNCHANGED <<row, files, deleted>>
    BY <2>2 DEF TypeOK, Locked, AtStep, ScanKnows, Left, Scans
  <2>3. CASE pc[w] = "unnote"
    BY <2>3 DEF TypeOK, Locked, AtStep, ScanKnows, Left, Scans
  <2>4. CASE pc[w] = "unnote2"
    BY <2>4 DEF TypeOK, Locked, AtStep, ScanKnows, Left, Scans
  <2> QED  BY <2>1, <2>2, <2>3, <2>4
<1> QED  BY <1>1, <1>2, <1>3, <1>4, <1>5

(* Rows without files are removed, and nothing staged is touched. *)
LEMMA DeleteMissingInv ==
    ASSUME IInv, NEW w \in Workers, DeleteMissing(w) PROVE IInv'
<1> USE DEF IInv, DeleteMissing, Goto, DeleteRows, Scanning, files
<1>1. TypeOK'  BY SMTT(30) DEF TypeOK, Scans
<1>2. Locked' /\ AtStep'  BY DEF TypeOK, Locked, AtStep, ScanKnows
<1>3. RowBacked' /\ StagedRecorded'  BY DEF TypeOK, AtStep, RowBacked, StagedRecorded, Valid
<1>4. PathIsNew' /\ NotResurrected'  BY DEF TypeOK, AtStep, RowBacked, PathIsNew, NotResurrected
<1>5. ScanKnows'  BY DEF TypeOK, Locked, AtStep, StagedRecorded, ScanKnows, Left
<1> QED  BY <1>1, <1>2, <1>3, <1>4, <1>5

(* The directory moves with both notes written, whole. *)
LEMMA StageDeletionTargetInv ==
    ASSUME IInv, NEW w \in Workers, StageDeletionTarget(w) PROVE IInv'
<1>1. CASE pc[w] \in {"note", "record"}
  <2> USE <1>1 DEF IInv, StageDeletionTarget, Goto, Written
  <2>1. TypeOK'  BY DEF TypeOK
  <2>2. Locked' /\ AtStep'  BY SMTT(30) DEF TypeOK, Locked, AtStep
  <2>3. RowBacked' /\ StagedRecorded'  BY DEF TypeOK, AtStep, RowBacked, StagedRecorded
  <2>4. PathIsNew' /\ NotResurrected'  BY DEF PathIsNew, NotResurrected
  <2>5. ScanKnows'  BY DEF TypeOK, Locked, AtStep, ScanKnows, Left
  <2> QED  BY <2>1, <2>2, <2>3, <2>4, <2>5
<1>2. CASE pc[w] = "rename"
  <2>1. /\ staged' = [staged EXCEPT ![ev[w]] = target[ev[w]]]
        /\ whole' = [whole EXCEPT ![ev[w]] = TRUE] /\ target' = [target EXCEPT ![ev[w]] = 0]
        /\ pc' = [pc EXCEPT ![w] = "commit"]
        /\ UNCHANGED <<row, meta, rec, job, ev, scan, deleted, faults>>
    BY <1>2 DEF StageDeletionTarget, Goto
  <2> USE <1>2, <2>1 DEF IInv
  <2>2. TypeOK'  BY DEF TypeOK
  <2>3. Locked' /\ AtStep'  BY DEF TypeOK, Locked, AtStep
  <2>4. RowBacked' /\ StagedRecorded'
    BY DEF TypeOK, AtStep, RowBacked, PathIsNew, StagedRecorded, Valid
  <2>5. PathIsNew' /\ NotResurrected'  BY DEF TypeOK, PathIsNew, NotResurrected
  <2>6. ScanKnows'  BY DEF TypeOK, Locked, AtStep, ScanKnows, Left
  <2> QED  BY <2>2, <2>3, <2>4, <2>5, <2>6
<1> QED  BY <1>1, <1>2 DEF StageDeletionTarget

(* The commit deletes the staged version, never the one at the path. *)
LEMMA CommitDeletionInv ==
    ASSUME IInv, NEW w \in Workers, CommitDeletion(w) PROVE IInv'
<1> USE DEF IInv, CommitDeletion, Goto, DeleteRows, Scanning, files
<1>1. TypeOK'  BY DEF TypeOK, Scans
<1>2. Locked' /\ AtStep'  BY DEF TypeOK, Locked, AtStep, ScanKnows
<1>3. RowBacked' /\ StagedRecorded'  BY DEF TypeOK, AtStep, RowBacked, StagedRecorded, Valid
<1>4. PathIsNew' /\ NotResurrected'  BY DEF TypeOK, AtStep, RowBacked, PathIsNew, NotResurrected
<1>5. ScanKnows'  BY DEF TypeOK, Locked, AtStep, StagedRecorded, ScanKnows, Left
<1> QED  BY <1>1, <1>2, <1>3, <1>4, <1>5

(* What is removed after the commit backs no row. *)
LEMMA RemoveStagedInv ==
    ASSUME IInv, NEW w \in Workers, RemoveStaged(w) PROVE IInv'
<1> USE DEF IInv, RemoveStaged, Goto, Scanning, files
<1>1. TypeOK'
  <2>1. CASE pc[w] = "rmtree" /\ whole[ev[w]]
    BY ZenonT(60), <2>1 DEF TypeOK
  <2>2. CASE pc[w] = "rmtree" /\ ~whole[ev[w]]
    BY SMTT(30), <2>2 DEF TypeOK
  <2>3. CASE pc[w] = "unmeta"
    BY <2>3 DEF TypeOK
  <2>4. CASE pc[w] = "unrec"
    BY <2>4 DEF TypeOK
  <2> QED  BY <2>1, <2>2, <2>3, <2>4
<1>2. Locked' /\ AtStep'  BY DEF TypeOK, Locked, AtStep, ScanKnows
<1>3. RowBacked' /\ StagedRecorded'  BY DEF TypeOK, AtStep, RowBacked, StagedRecorded, Valid
<1>4. PathIsNew' /\ NotResurrected'  BY DEF TypeOK, AtStep, RowBacked, PathIsNew, NotResurrected
<1>5. ScanKnows'  BY DEF TypeOK, Locked, AtStep, StagedRecorded, ScanKnows, Left
<1> QED  BY <1>1, <1>2, <1>3, <1>4, <1>5

(* A rolled back deletion moves back what it staged. *)
LEMMA RestoreAfterRollbackInv ==
    ASSUME IInv, NEW w \in Workers, RestoreAfterRollback(w) PROVE IInv'
<1> USE DEF IInv, RestoreAfterRollback, Goto, MoveBack, Scanning, files
<1>1. TypeOK'
  <2>1. CASE pc[w] = "back" /\ MoveBack(w) /\ Goto(w, "unback")
    BY <2>1 DEF TypeOK
  <2>2. CASE pc[w] = "back" /\ target[ev[w]] # 0
    BY <2>2 DEF TypeOK
  <2>3. CASE pc[w] = "unback"
    BY <2>3 DEF TypeOK
  <2>4. CASE pc[w] = "unback2"
    BY <2>4 DEF TypeOK
  <2> QED  BY <2>1, <2>2, <2>3, <2>4
<1>2. Locked' /\ AtStep'
  <2>1. CASE pc[w] = "back" /\ MoveBack(w) /\ Goto(w, "unback")
    BY <2>1 DEF TypeOK, Locked, AtStep, RowBacked
  <2>2. CASE pc[w] = "back" /\ target[ev[w]] # 0
    BY <2>2 DEF TypeOK, Locked, AtStep, RowBacked
  <2>3. CASE pc[w] = "unback"
    BY SMTT(60), <2>3 DEF TypeOK, Locked, AtStep, RowBacked
  <2>4. CASE pc[w] = "unback2"
    BY <2>4 DEF TypeOK, Locked, AtStep, RowBacked
  <2> QED  BY <2>1, <2>2, <2>3, <2>4
<1>3. RowBacked' /\ StagedRecorded'  BY DEF TypeOK, AtStep, RowBacked, StagedRecorded, Valid
<1>4. PathIsNew' /\ NotResurrected'  BY DEF TypeOK, AtStep, RowBacked, PathIsNew, NotResurrected
<1>5. ScanKnows'  BY DEF TypeOK, Locked, AtStep, StagedRecorded, ScanKnows, Left
<1> QED  BY <1>1, <1>2, <1>3, <1>4, <1>5

(* The rescan lists every row before it recovers one. *)
LEMMA DiscoverSessionsInv ==
    ASSUME IInv, NEW w \in Workers, DiscoverSessions(w) PROVE IInv'
<1> USE DEF IInv, DiscoverSessions, Goto, Scanning, files
<1>1. TypeOK'  BY DEF TypeOK, Scans
<1>2. Locked' /\ AtStep'  BY DEF TypeOK, Locked, AtStep, ScanKnows
<1>3. RowBacked' /\ StagedRecorded'  BY DEF TypeOK, AtStep, RowBacked, StagedRecorded, Valid
<1>4. PathIsNew' /\ NotResurrected'  BY DEF TypeOK, AtStep, RowBacked, PathIsNew, NotResurrected
<1>5. ScanKnows'  BY DEF TypeOK, Locked, AtStep, StagedRecorded, ScanKnows, Left
<1> QED  BY <1>1, <1>2, <1>3, <1>4, <1>5

(* A row leaves the rescan's list when its recovery starts. *)
LEMMA RecoverInterruptedDeletionsInv ==
    ASSUME IInv, NEW w \in Workers, RecoverInterruptedDeletions(w) PROVE IInv'
<1> USE DEF IInv, RecoverInterruptedDeletions, Goto, Scanning, files
<1>1. TypeOK'  BY DEF TypeOK, Scans
<1>2. Locked' /\ AtStep'
  <2>1. job[w] = "scan" /\ \A e \in scan.todo : row[e] # 0
    BY DEF TypeOK, AtStep, ScanKnows
  <2>2. \A v \in Workers \ {w} : pc[v] = "idle"  BY <2>1 DEF TypeOK, Locked
  <2>3. \A v \in Workers \ {w} : pc'[v] = "idle"  BY <2>2 DEF TypeOK
  <2>4. CASE scan.todo = {} /\ Goto(w, "cleanup") /\ UNCHANGED scan
    BY <2>1, <2>3, <2>4 DEF TypeOK, Locked, AtStep
  <2>5. ASSUME NEW e \in scan.todo, pc' = [pc EXCEPT ![w] = "recover"],
               ev' = [ev EXCEPT ![w] = e], UNCHANGED job
        PROVE  Locked' /\ AtStep'
    BY <2>1, <2>3, <2>5 DEF TypeOK, Locked, AtStep
  <2> QED  BY <2>4, <2>5
<1>3. RowBacked' /\ StagedRecorded'  BY DEF TypeOK, AtStep, RowBacked, StagedRecorded, Valid
<1>4. PathIsNew' /\ NotResurrected'  BY DEF TypeOK, AtStep, RowBacked, PathIsNew, NotResurrected
<1>5. ScanKnows'
  <2>1. job[w] = "scan"  BY DEF TypeOK, AtStep
  <2>2. \A v \in Workers \ {w} : pc'[v] = "idle"  BY <2>1 DEF TypeOK, Locked
  <2>3. CASE scan.todo = {} /\ Goto(w, "cleanup") /\ UNCHANGED scan
    BY <2>1, <2>2, <2>3 DEF TypeOK, ScanKnows, Left
  <2>4. ASSUME NEW e \in scan.todo, scan' = [scan EXCEPT !.todo = @ \ {e}],
               pc' = [pc EXCEPT ![w] = "recover"], ev' = [ev EXCEPT ![w] = e]
        PROVE  ScanKnows'
    <3>1. scan'.todo = scan.todo \ {e} /\ scan'.reported = scan.reported
      BY <2>4 DEF TypeOK, Scans
    <3> QED  BY <2>1, <2>2, <2>4, <3>1 DEF TypeOK, ScanKnows, Left
  <2> QED  BY <2>3, <2>4
<1> QED  BY <1>1, <1>2, <1>3, <1>4, <1>5

(* A staged directory without a row has its record, and is reported by it. *)
LEMMA DiscoverPostcommitCleanupInv ==
    ASSUME IInv, NEW w \in Workers, DiscoverPostcommitCleanup(w) PROVE IInv'
<1> USE DEF IInv, DiscoverPostcommitCleanup, Goto, Scanning, files
<1>1. TypeOK'  BY DEF TypeOK, Scans
<1>2. Locked' /\ AtStep'  BY DEF TypeOK, Locked, AtStep, ScanKnows
<1>3. RowBacked' /\ StagedRecorded'  BY DEF TypeOK, AtStep, RowBacked, StagedRecorded, Valid
<1>4. PathIsNew' /\ NotResurrected'  BY DEF TypeOK, AtStep, RowBacked, PathIsNew, NotResurrected
<1>5. ScanKnows'  BY DEF TypeOK, Locked, AtStep, StagedRecorded, ScanKnows, Left
<1> QED  BY <1>1, <1>2, <1>3, <1>4, <1>5

(* The rescan makes rows of what is at its path, which is not deleted. *)
LEMMA IngestDiscoveredInv ==
    ASSUME IInv, NEW w \in Workers, IngestDiscovered(w) PROVE IInv'
<1> USE DEF IInv, IngestDiscovered, Goto, Scanning, files
<1>1. TypeOK'  BY DEF TypeOK, Scans
<1>2. Locked' /\ AtStep'  BY DEF TypeOK, Locked, AtStep, ScanKnows
<1>3. RowBacked' /\ StagedRecorded'  BY DEF TypeOK, AtStep, RowBacked, StagedRecorded, Valid
<1>4. PathIsNew' /\ NotResurrected'  BY DEF TypeOK, AtStep, RowBacked, PathIsNew, NotResurrected
<1>5. ScanKnows'
  <2>1. \A e \in Evidence : (row[e] # 0 => row'[e] # 0) /\ (target[e] = 0 => row'[e] = row[e])
    BY DEF TypeOK
  <2>2. \A v \in Workers \ {w} : pc'[v] = "idle"  BY DEF TypeOK, Locked, AtStep
  <2> QED  BY <2>1, <2>2 DEF TypeOK, AtStep, ScanKnows, Left, Scans
<1> QED  BY <1>1, <1>2, <1>3, <1>4, <1>5

(* Rows without a directory may go; nothing else changes. *)
LEMMA PruneMissingSessionsInv ==
    ASSUME IInv, NEW w \in Workers, PruneMissingSessions(w) PROVE IInv'
<1> USE DEF IInv, PruneMissingSessions, Goto, Scanning, files
<1>1. TypeOK'  BY DEF TypeOK, Scans
<1>2. Locked' /\ AtStep'  BY DEF TypeOK, Locked, AtStep, ScanKnows
<1>3. RowBacked' /\ StagedRecorded'  BY DEF TypeOK, AtStep, RowBacked, StagedRecorded, Valid
<1>4. PathIsNew' /\ NotResurrected'  BY DEF TypeOK, AtStep, RowBacked, PathIsNew, NotResurrected
<1>5. ScanKnows'  BY DEF TypeOK, Locked, AtStep, StagedRecorded, ScanKnows, Left
<1> QED  BY <1>1, <1>2, <1>3, <1>4, <1>5

(* A crash frees the session and leaves its files. *)
LEMMA CrashInv ==
    ASSUME IInv, NEW w \in Workers, Crash(w) PROVE IInv'
<1> USE DEF IInv, Crash, Fault, Scanning, files
<1>1. TypeOK'  BY DEF TypeOK, Scans
<1>2. Locked' /\ AtStep'  BY DEF TypeOK, Locked, AtStep, ScanKnows
<1>3. RowBacked' /\ StagedRecorded'  BY DEF TypeOK, AtStep, RowBacked, StagedRecorded, Valid
<1>4. PathIsNew' /\ NotResurrected'  BY DEF TypeOK, AtStep, RowBacked, PathIsNew, NotResurrected
<1>5. ScanKnows'  BY DEF TypeOK, Locked, AtStep, StagedRecorded, ScanKnows, Left
<1> QED  BY <1>1, <1>2, <1>3, <1>4, <1>5

(* A staging that fails leaves the session at its path. *)
LEMMA StagingFailsInv ==
    ASSUME IInv, NEW w \in Workers, StagingFails(w) PROVE IInv'
<1> USE DEF IInv, StagingFails, Fault, Scanning, files
<1>1. TypeOK'  BY DEF TypeOK, Scans
<1>2. Locked' /\ AtStep'  BY DEF TypeOK, Locked, AtStep, ScanKnows
<1>3. RowBacked' /\ StagedRecorded'  BY DEF TypeOK, AtStep, RowBacked, StagedRecorded, Valid
<1>4. PathIsNew' /\ NotResurrected'  BY DEF TypeOK, AtStep, RowBacked, PathIsNew, NotResurrected
<1>5. ScanKnows'  BY DEF TypeOK, Locked, AtStep, StagedRecorded, ScanKnows, Left
<1> QED  BY <1>1, <1>2, <1>3, <1>4, <1>5

(* A commit that fails keeps the row, and the staged directory backs it. *)
LEMMA CommitFailsInv ==
    ASSUME IInv, NEW w \in Workers, CommitFails(w) PROVE IInv'
<1> USE DEF IInv, CommitFails, Fault, Scanning, files
<1>1. TypeOK'  BY DEF TypeOK, Scans
<1>2. Locked' /\ AtStep'  BY DEF TypeOK, Locked, AtStep, ScanKnows
<1>3. RowBacked' /\ StagedRecorded'  BY DEF TypeOK, AtStep, RowBacked, StagedRecorded, Valid
<1>4. PathIsNew' /\ NotResurrected'  BY DEF TypeOK, AtStep, RowBacked, PathIsNew, NotResurrected
<1>5. ScanKnows'  BY DEF TypeOK, Locked, AtStep, StagedRecorded, ScanKnows, Left
<1> QED  BY <1>1, <1>2, <1>3, <1>4, <1>5

(* A clean-up that fails leaves what the next rescan reports. *)
LEMMA CleanupFailsInv ==
    ASSUME IInv, NEW w \in Workers, CleanupFails(w) PROVE IInv'
<1> USE DEF IInv, CleanupFails, Fault, Scanning, files
<1>1. TypeOK'  BY DEF TypeOK, Scans
<1>2. Locked' /\ AtStep'  BY DEF TypeOK, Locked, AtStep, ScanKnows
<1>3. RowBacked' /\ StagedRecorded'  BY DEF TypeOK, AtStep, RowBacked, StagedRecorded, Valid
<1>4. PathIsNew' /\ NotResurrected'  BY DEF TypeOK, AtStep, RowBacked, PathIsNew, NotResurrected
<1>5. ScanKnows'  BY DEF TypeOK, Locked, AtStep, StagedRecorded, ScanKnows, Left
<1> QED  BY <1>1, <1>2, <1>3, <1>4, <1>5

(* A recovery that fails under a rescan is reported. *)
LEMMA RecoveryIoFailsInv ==
    ASSUME IInv, NEW w \in Workers, RecoveryIoFails(w) PROVE IInv'
<1> USE DEF IInv, RecoveryIoFails, Fault, Scanning, files
<1>1. TypeOK'
  <2>1. scan' \in Scans  BY ProtectedType DEF TypeOK
  <2> QED  BY <2>1 DEF TypeOK
<1>2. Locked' /\ AtStep'  BY DEF TypeOK, Locked, AtStep, ScanKnows
<1>3. RowBacked' /\ StagedRecorded'  BY DEF TypeOK, AtStep, RowBacked, StagedRecorded, Valid
<1>4. PathIsNew' /\ NotResurrected'  BY DEF TypeOK, AtStep, RowBacked, PathIsNew, NotResurrected
<1>5. ScanKnows'  BY DEF TypeOK, Locked, AtStep, StagedRecorded, ScanKnows, Left
<1> QED  BY <1>1, <1>2, <1>3, <1>4, <1>5

(* A new recording has a version of its own. *)
LEMMA RecordInv ==
    ASSUME IInv, NEW e \in Evidence, Record(e) PROVE IInv'
<1> USE DEF IInv, Record, files
<1>1. TypeOK'  BY EvidenceAssumption DEF TypeOK
<1>2. Locked' /\ AtStep'  BY EvidenceAssumption DEF TypeOK, Locked, AtStep
<1>3. RowBacked' /\ StagedRecorded'  BY EvidenceAssumption DEF TypeOK, RowBacked, StagedRecorded
<1>4. PathIsNew' /\ NotResurrected'  BY EvidenceAssumption DEF TypeOK, PathIsNew, NotResurrected
<1>5. ScanKnows'  BY EvidenceAssumption DEF TypeOK, ScanKnows, Left
<1> QED  BY <1>1, <1>2, <1>3, <1>4, <1>5

(* A row made without the locks is of what is at the path. *)
LEMMA IngestFrontendSessionInv ==
    ASSUME IInv, NEW e \in Evidence, IngestFrontendSession(e) PROVE IInv'
<1> USE DEF IInv, IngestFrontendSession, files
<1>1. TypeOK'  BY EvidenceAssumption DEF TypeOK
<1>2. Locked' /\ AtStep'  BY EvidenceAssumption DEF TypeOK, Locked, AtStep
<1>3. RowBacked' /\ StagedRecorded'  BY EvidenceAssumption DEF TypeOK, RowBacked, StagedRecorded
<1>4. PathIsNew' /\ NotResurrected'  BY EvidenceAssumption DEF TypeOK, PathIsNew, NotResurrected
<1>5. ScanKnows'  BY EvidenceAssumption DEF TypeOK, ScanKnows, Left
<1> QED  BY <1>1, <1>2, <1>3, <1>4, <1>5

(* The staged sessions a rescan ends with are reported.                      *)
LEMMA PruneReports ==
    ASSUME IInv, NEW w \in Workers, PruneMissingSessions(w),
           NEW e \in Evidence, staged[e] # 0, target[e] = 0
    PROVE  e \in scan.reported
BY DEF IInv, PruneMissingSessions, TypeOK, AtStep, ScanKnows, Left

(* Every step of the recorder, the workers and the faults keeps IInv.        *)
LEMMA NextInv == IInv /\ [Next]_vars => IInv'
<1> SUFFICES ASSUME IInv, [Next]_vars PROVE IInv'
  OBVIOUS
<1>1. CASE \E w \in Workers, e \in Evidence : DeleteEvidenceSession(w, e)
  BY <1>1, DeleteEvidenceSessionInv
<1>2. ASSUME NEW w \in Workers,
             \/ RescanAll(w) \/ ResolveDeletionTarget(w) \/ RecoverIndexedDeletion(w)
             \/ ClearStageMetadataSources(w) \/ RestoreStagedTarget(w) \/ DeleteMissing(w)
             \/ StageDeletionTarget(w) \/ CommitDeletion(w) \/ RemoveStaged(w)
             \/ RestoreAfterRollback(w)
      PROVE  IInv'
  BY <1>2, RescanAllInv, ResolveDeletionTargetInv, RecoverIndexedDeletionInv,
     ClearStageMetadataSourcesInv, RestoreStagedTargetInv, DeleteMissingInv,
     StageDeletionTargetInv, CommitDeletionInv, RemoveStagedInv, RestoreAfterRollbackInv
<1>3. ASSUME NEW w \in Workers,
             \/ DiscoverSessions(w) \/ RecoverInterruptedDeletions(w)
             \/ DiscoverPostcommitCleanup(w) \/ IngestDiscovered(w) \/ PruneMissingSessions(w)
             \/ Crash(w) \/ StagingFails(w) \/ CommitFails(w) \/ CleanupFails(w)
             \/ RecoveryIoFails(w)
      PROVE  IInv'
  BY <1>3, DiscoverSessionsInv, RecoverInterruptedDeletionsInv, DiscoverPostcommitCleanupInv,
     IngestDiscoveredInv, PruneMissingSessionsInv, CrashInv, StagingFailsInv, CommitFailsInv,
     CleanupFailsInv, RecoveryIoFailsInv
<1>4. CASE \E e \in Evidence : Record(e) \/ IngestFrontendSession(e)
  BY <1>4, RecordInv, IngestFrontendSessionInv
<1>5. CASE UNCHANGED vars
  BY <1>5 DEF vars, IInv, TypeOK, Locked, AtStep, RowBacked, PathIsNew, NotResurrected,
              StagedRecorded, ScanKnows, Left
<1> QED  BY <1>1, <1>2, <1>3, <1>4, <1>5 DEF Next
-----------------------------------------------------------------------------
(* Deleting is all or nothing (service.py, delete_evidence_session and        *)
(* rescan_all): whatever is cut short, an indexed session can be had back     *)
(* and a deleted one does not come back, for any number of sessions, workers, *)
(* recordings, crashes and I/O errors.                                        *)
THEOREM DeletionSafe == Spec => []DeletedOrKept
<1>1. IInv => DeletedOrKept
  BY DEF IInv, TypeOK, RowBacked, DeletedOrKept, NothingLost
<1> QED  BY InitInv, NextInv, <1>1, PTL DEF Spec

(* A rescan ends with every staged directory put back or reported             *)
(* (_recover_interrupted_deletions, _discover_postcommit_cleanup).            *)
THEOREM LeftoversSafe == Spec => LeftoversReported
<1>1. IInv /\ [Next]_vars =>
        [\A w \in Workers : PruneMissingSessions(w) =>
            \A e \in Evidence : staged[e] # 0 /\ target[e] = 0 => e \in scan.reported]_vars
  BY PruneReports
<1> QED  BY InitInv, NextInv, <1>1, PTL DEF Spec, LeftoversReported
=============================================================================
