---------------------------- MODULE CoverageRunner ----------------------------
(***************************************************************************)
(* The coverage runner (d3_6_runner.py): six commands that share a directory *)
(* of evidence, each called alone or in the order of run-all.  Four write a  *)
(* file of results and judge it by a gate; gif animates the failures that an *)
(* earlier report listed; report lists the failures of the results it finds  *)
(* and restates the gates.  Every command signs the file it wrote with a     *)
(* manifest: a digest and what it counted.                                  *)
(*                                                                          *)
(* The process may die after a command has written its file and before its  *)
(* manifest; a command may raise before it writes.  A digest is the content  *)
(* it is of.  What a simulation returns is an input: how close the ships     *)
(* came, or that it raised.                                                 *)
(***************************************************************************)
EXTENDS Integers, Sequences, FiniteSets, FiniteSetsExt, TLC

CONSTANTS CubeOutcomes,   \* functions from cells to "far", "near", "raises" or "na"
          TriggerFiles,   \* sets of triggers [id, cat, close]
          IvOutcomes,     \* functions from scenarios to "far" or "near"
          SampleSets,     \* sets of Monte Carlo samples [id, range (NM), sog (kn)]
          MaxCommands

VARIABLES plan,       \* the stages the command line still has to run
          results,    \* by stage whose file exists its rows
          sens,       \* mc_sensitivity.json: the lower bound in per cent, if there is one
          failures,   \* report.failures.csv: <<its rows>>, or <<>>
          gifs,       \* the scenarios that have an animation
          manifest,   \* by stage whose manifest exists [digest, told]
          returned,   \* by stage what its last call that measured returned, if it did
          report,     \* <<the last report, with the results it was made from>>, or <<>>
          commands

vars == <<plan, results, sens, failures, gifs, manifest, returned, report, commands>>

Measured == {"cube", "sotif", "iv", "mc"}
RunAll == <<"cube", "sotif", "iv", "mc", "gif", "report">>
Stages == {RunAll[i] : i \in DOMAIN RunAll}
-----------------------------------------------------------------------------
(* Rows and gates.                                                          *)

\* _run_cell_worker
CellVerdict(outcome) ==
    CASE outcome = "na"     -> "SKIP"
      [] outcome = "raises" -> "ERROR"
      [] outcome = "far"    -> "PASS"
      [] OTHER              -> "FAIL"

CubeRows(outcome) == 
    {[id |-> <<"cube", c>>, na |-> outcome[c] = "na", verdict |-> CellVerdict(outcome[c])] : c \in DOMAIN outcome}

\* The verdict on a trigger comes from its category; every seed has the same.
SotifVerdict(t) ==
    CASE t.cat = "A" -> "PASS"
      [] t.cat = "B" -> "SOFT_PASS"
      [] OTHER       -> IF t.close THEN "FAIL" ELSE "SOFT_PASS"

SotifRows(triggers, seeds) ==
    {[id |-> <<"sotif", t.id, s>>, na |-> FALSE, trigger |-> t.id, verdict |-> SotifVerdict(t)] : t \in triggers, s \in seeds}

IvRows(outcome) ==
    {[id |-> <<"iv", v>>, na |-> FALSE, verdict |-> IF outcome[v] = "far" THEN "PASS" ELSE "FAIL"] : v \in DOMAIN outcome}

\* _analytical_cpa: own ship's speed does not enter and the target heads for own ship, so
\* the two meet at the time range / sog (soon: within 30 minutes, late: not within 5); a
\* target at rest keeps its range for ever.
AnalyticalCpa(sample) ==
    IF sample.sog = 0 THEN [dcpa |-> 100 * sample.range, soon |-> FALSE, late |-> TRUE]
    ELSE [dcpa |-> 0, soon |-> 60 * sample.range <= 30 * sample.sog, late |-> 60 * sample.range >= 5 * sample.sog]

\* DCPA in hundredths of a mile.
McVerdict(sample) ==
    LET c == AnalyticalCpa(sample) IN
    IF ~(c.dcpa <= 200 /\ c.soon) THEN "SKIP"
    ELSE IF c.dcpa >= 27 \/ (c.dcpa >= 10 /\ c.late) THEN "PASS" ELSE "FAIL"

McRows(samples) == {[id |-> <<"mc", s.id>>, na |-> FALSE, verdict |-> McVerdict(s)] : s \in samples}

With(rows, verdicts) == {r \in rows : r.verdict \in verdicts}

Triggers(rows) == {r.trigger : r \in rows}

\* What a stage counts: <<hits, of>>.
Counted(st, rows) ==
    CASE st = "cube"  -> LET valid == {r \in rows : ~r.na /\ r.verdict # "SKIP"}
                         IN <<Cardinality(With(valid, {"PASS"})), Cardinality(valid)>>
      [] st = "sotif" -> <<Cardinality(Triggers(With(rows, {"PASS", "SOFT_PASS"}))), Cardinality(Triggers(rows))>>
      [] st = "iv"    -> <<Cardinality(With(rows, {"PASS"})), Cardinality(rows)>>
      [] OTHER        -> <<Cardinality(With(rows, {"PASS"})), Cardinality(With(rows, {"PASS", "FAIL"}))>>

Least == [cube |-> 80, sotif |-> 80, iv |-> 85, mc |-> 90]

Reaches(counted, percent) == counted[2] > 0 /\ 100 * counted[1] >= percent * counted[2]

\* The bootstrap's lower bound; the samples it draws from never mix verdicts, as their
\* DCPA is 0.
LowerBound(rows) == IF With(rows, {"FAIL"}) = {} THEN 100 ELSE 0

GateOk(st, rows) == IF st = "mc" THEN LowerBound(rows) >= Least.mc ELSE Reaches(Counted(st, rows), Least[st])
-----------------------------------------------------------------------------
(* The commands.                                                            *)

Init ==
    /\ plan = <<>> /\ commands = 0
    /\ results = <<>> /\ manifest = <<>> /\ returned = <<>>
    /\ sens = {} /\ gifs = {}
    /\ failures = <<>> /\ report = <<>>

\* main: one stage, or run-all.
Call ==
    /\ plan = <<>> /\ commands < MaxCommands
    /\ commands' = commands + 1
    /\ plan' \in {RunAll} \cup {<<st>> : st \in Stages}
    /\ UNCHANGED <<results, sens, failures, gifs, manifest, returned, report>>

RowsOf(st) == IF st \in DOMAIN results THEN results[st] ELSE {}

At(st) == plan # <<>> /\ Head(plan) = st /\ UNCHANGED commands

\* run-all goes on whether the gate held or not; what is raised ends it.
Goes == plan' = Tail(plan)
Dies == plan' = <<>>

\* Missing inputs: nothing is written.
Raise(st) ==
    /\ At(st) /\ Dies
    /\ UNCHANGED <<results, sens, failures, gifs, manifest, returned, report>>

\* Without its libraries mc or gif answers 1 at once, and run-all goes on.
Unavailable(st) ==
    /\ At(st) /\ Goes
    /\ UNCHANGED <<results, sens, failures, gifs, manifest, returned, report>>

\* _write_manifest, after the file was written.
Signed(st, rows) == [digest |-> rows, told |-> Counted(st, rows)]

\* The process is killed between the file and its manifest, or mc raises there because
\* there is no sample to draw from.
CutShort(st) ==
    /\ Dies
    /\ returned' = [s \in DOMAIN returned \ {st} |-> returned[s]]
    /\ UNCHANGED <<sens, manifest>>

Finished(st, rows) ==
    /\ Goes
    /\ returned' = (st :> IF GateOk(st, rows) THEN 0 ELSE 1) @@ returned
    /\ manifest' = (st :> Signed(st, rows)) @@ manifest
    /\ sens' = IF st = "mc" THEN {LowerBound(rows)} ELSE sens

Measure(st, rows) ==
    /\ At(st)
    /\ results' = (st :> rows) @@ results
    /\ \/ CutShort(st)
       \/ (st = "mc" => Counted(st, rows)[2] > 0) /\ Finished(st, rows)
    /\ UNCHANGED <<failures, gifs, report>>

Cube == \E o \in CubeOutcomes : Measure("cube", CubeRows(o))
Sotif == \E file \in TriggerFiles : Measure("sotif", SotifRows(file, 1..2))
Iv == \E o \in IvOutcomes : Measure("iv", IvRows(o))
Mc == \E samples \in SampleSets : Measure("mc", McRows(samples))

\* cmd_gif: a scenario that has an animation keeps it; a rendering may fail.
Gif ==
    /\ At("gif") /\ UNCHANGED <<results, sens, returned, report>>
    /\ \/ /\ failures = <<>>
          /\ manifest' = ("gif" :> [digest |-> <<>>, told |-> 0]) @@ manifest
          /\ Goes
          /\ UNCHANGED <<failures, gifs>>
       \/ /\ failures # <<>>
          /\ \E new \in SUBSET ({r.id : r \in failures[1]} \ gifs) : gifs' = gifs \cup new
          /\ failures' = <<{[r EXCEPT !.gif = r.id \in gifs'] : r \in failures[1]}>>
          /\ \/ /\ Goes
                /\ manifest' = ("gif" :> [digest |-> failures', told |-> Cardinality(failures[1])]) @@ manifest
             \/ Dies /\ UNCHANGED manifest

\* _infer_root_cause, by the scores that the stages give a failing row; the rows carry no
\* trigger_type, so that none is SOTIF_B.
InferRootCause(st) ==
    CASE st \in {"cube", "iv"} -> "M6_COLREGS"
      [] st = "mc"             -> "M5_MPC"
      [] OTHER                 -> "GEOMETRIC"

FailuresOf(st) ==
    {[id |-> r.id, stage |-> st, cause |-> InferRootCause(st), gif |-> FALSE] : r \in With(RowsOf(st), {"FAIL"})}

\* Mutant: the results of one stage are forgotten.
BuildFailuresForgetful == UNION {FailuresOf(st) : st \in {"cube", "sotif", "mc"}}

\* _build_failures_csv
BuildFailures == UNION {FailuresOf(st) : st \in Measured}

\* _render_report_html counts again from the files; cells are left out by na_cell alone.
ReportCounted(st) ==
    IF st # "cube" THEN Counted(st, RowsOf(st))
    ELSE LET valid == {r \in RowsOf(st) : ~r.na} IN <<Cardinality(With(valid, {"PASS"})), Cardinality(valid)>>

ReportGates ==
    [st \in Measured |-> IF st = "mc" THEN \E lower \in sens : lower >= Least.mc
                         ELSE Reaches(ReportCounted(st), Least[st])]

\* cmd_report: the failures are written before the page that lists them.
Report ==
    /\ At("report") /\ UNCHANGED <<results, sens, gifs, returned>>
    /\ failures' = <<BuildFailures>>
    /\ \/ /\ Goes
          /\ report' = <<[gates |-> ReportGates, of |-> results, listed |-> BuildFailures]>>
          /\ manifest' = ("report" :> [digest |-> failures', told |-> Cardinality(BuildFailures)]) @@ manifest
       \/ Dies /\ UNCHANGED <<report, manifest>>

Next ==
    \/ Call
    \/ \E st \in Stages : Raise(st)
    \/ \E st \in {"mc", "gif"} : Unavailable(st)
    \/ Cube \/ Sotif \/ Iv \/ Mc \/ Gif \/ Report

Spec == Init /\ [][Next]_vars
-----------------------------------------------------------------------------

\* _write_manifest: a command that returned has signed what its file holds, and a reader
\* who finds that the digest of a manifest is that of the file may believe its counts,
\* whatever was killed or called again in between.
ManifestVouches ==
    /\ \A st \in DOMAIN returned : st \in DOMAIN manifest /\ manifest[st].digest = RowsOf(st)
    /\ \A st \in DOMAIN manifest :
        IF st \in Measured
        THEN manifest[st].digest = RowsOf(st) => manifest[st].told = Counted(st, RowsOf(st))
        ELSE failures # <<>> /\ manifest[st].digest = failures => manifest[st].told = Cardinality(failures[1])

\* cmd_* and _render_report_html count apart from each other: as long as no result has
\* changed since, the report shows every stage the gate that the stage itself returned.
ReportRestates ==
    report # <<>> /\ report[1].of = results =>
        \A st \in DOMAIN returned : report[1].gates[st] = (returned[st] = 0)

\* A gate the report shows red has a reason a reader can find: a listed failure of that
\* stage, a cell whose simulation raised, or that there was nothing to judge.
RedIsExplained ==
    report # <<>> =>
        \A st \in DOMAIN report[1].of \ {"mc"} :
            \/ report[1].gates[st]
            \/ \E f \in report[1].listed : f.stage = st
            \/ With(report[1].of[st], {"ERROR"}) # {}
            \/ Counted(st, report[1].of[st])[2] = 0
=============================================================================
