----------------------------- MODULE ScenarioStore -----------------------------
(***************************************************************************)
(* The file-backed scenario store and its routes.  A file is its directory   *)
(* (a sequence of folder names below the scenario directory), the scenario   *)
(* id it is named for, and its content.  Baseline folders are read-only to   *)
(* the routes.  Parsing and schema validation of a text are one answer.      *)
(***************************************************************************)
EXTENDS Naturals, Sequences, FiniteSets

CONSTANTS Ids,        \* scenario ids
          Contents,   \* texts
          Baseline,   \* BASELINE_FOLDERS
          InitFiles,  \* what the checkout ships
          MaxWrites   \* bound on the accepted requests

VARIABLES files, writes, answer

vars == <<files, writes, answer>>

File(dir, id, text) == [dir |-> dir, id |-> id, text |-> text]

Init == files = InitFiles /\ writes = 0 /\ answer = "none"

\* The flat file first, else one found below.
PathFor(fs, id) ==
    LET named == {f \in fs : f.id = id}
        flat  == {f \in named : f.dir = <<>>} IN
    IF flat # {} THEN flat
    ELSE IF named # {} THEN {CHOOSE f \in named : TRUE} ELSE {}

\* The first folder of the path, "root" for a flat file.
FolderFor(f) == IF f.dir = <<>> THEN "root" ELSE f.dir[1]

\* Mutant: the folder that holds the file decides, as get() and list() have it.
IsBaselineByParent(fs, id) ==
    \E f \in PathFor(fs, id) : f.dir # <<>> /\ f.dir[Len(f.dir)] \in Baseline

IsBaseline(fs, id) == \E f \in PathFor(fs, id) : FolderFor(f) \in Baseline

Write == writes < MaxWrites /\ writes' = writes + 1

\* A new id of its own, always flat.
CreateScenario(text) ==
    /\ Write
    /\ \E id \in Ids : /\ \A f \in files : f.id # id
                       /\ files' = files \cup {File(<<>>, id, text)}
    /\ answer' = "created"

UpdateScenario(id, text) ==
    LET found == PathFor(files, id) IN
    \/ IsBaseline(files, id) /\ answer' = "read_only" /\ UNCHANGED <<files, writes>>
    \/ ~IsBaseline(files, id) /\ found = {} /\ answer' = "not_found" /\ UNCHANGED <<files, writes>>
    \/ /\ ~IsBaseline(files, id) /\ found # {} /\ Write
       /\ files' = (files \ found) \cup {[f EXCEPT !.text = text] : f \in found}
       /\ answer' = "updated"

DeleteScenario(id) ==
    LET found == PathFor(files, id) IN
    \/ IsBaseline(files, id) /\ answer' = "read_only" /\ UNCHANGED <<files, writes>>
    \/ ~IsBaseline(files, id) /\ found = {} /\ answer' = "not_found" /\ UNCHANGED <<files, writes>>
    \/ ~IsBaseline(files, id) /\ found # {} /\ Write /\ files' = files \ found /\ answer' = "deleted"

Next ==
    \/ \E text \in Contents : CreateScenario(text) \/ \E id \in Ids : UpdateScenario(id, text)
    \/ \E id \in Ids : DeleteScenario(id)

Spec == Init /\ [][Next]_vars
-----------------------------------------------------------------------------

\* No sequence of requests changes or removes a file below a baseline folder, at any
\* depth, nor hides one behind a file of the same name: what was shipped is still found.
BaselinesUntouched ==
    \A f \in InitFiles : FolderFor(f) \in Baseline => f \in files /\ f \in PathFor(files, f.id)
=============================================================================
