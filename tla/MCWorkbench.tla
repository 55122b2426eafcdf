------------------------------ MODULE MCWorkbench ------------------------------
(***************************************************************************)
(* The parts of the workbench that promise safety only, checked in one run:  *)
(* the machines of MCMachines, the coverage campaign, and the pure            *)
(* evaluators, each over all inputs of a small alphabet.  A behaviour is one  *)
(* of a single part.                                                        *)
(*                                                                          *)
(* The input of an evaluator grows row by row from what Init gives, up to a   *)
(* bound, and the properties look at every input on the way; given is what   *)
(* goes with the rows and does not grow.                                    *)
(***************************************************************************)
EXTENDS MCMachines, Sequences, SequencesExt

VARIABLES input, given

vars == <<part, input, given, slots>>

Verdict   == INSTANCE RunVerdict
Fast      == INSTANCE FastEvaluator
Oracle    == INSTANCE ModuleOracles
Auditor   == INSTANCE ScenarioAudit

\* Of the tracks only the geometry is looked at here; MCRuntime runs the nodes.
Ships == INSTANCE TrackChain WITH
    Targets <- {}, MaxAge <- 0, AisPeriod <- 0, MaxRuns <- 0,
    node <- s1, stage <- s2, run <- s3, live <- s4, sensed <- s5, wire <- s6, held <- s7, out <- s8

Runner == INSTANCE CoverageRunner WITH
    CubeOutcomes <- {[c \in 1..6 |-> IF c = 6 THEN "na" ELSE IF c \in DOMAIN bad THEN bad[c] ELSE "far"] :
                        bad \in {<<"raises">>, <<"near", "near">>, <<"raises", "raises">>}},
    TriggerFiles <- {{[id |-> 1, cat |-> "A", close |-> FALSE], [id |-> 2, cat |-> "C", close |-> c]} : c \in BOOLEAN},
    IvOutcomes <- {[v \in 1..7 |-> IF v <= n THEN "near" ELSE "far"] : n \in 1..2},
    SampleSets <- {{[id |-> 1, range |-> 3, sog |-> 0], [id |-> 2, range |-> r, sog |-> 10]} : r \in {3, 6}},
    MaxCommands <- 2,
    plan <- s1, results <- s2, sens <- s3, failures <- s4, gifs <- s5, manifest <- s6, returned <- s7, report <- s8,
    commands <- s9
-----------------------------------------------------------------------------
(* The inputs of the evaluators.                                            *)

None == [none |-> TRUE]

\* The time of the next row: dt after the last one.
Now(dt) == IF input = <<>> THEN 0 ELSE Last(input).t + dt

At(dt, row) == [t |-> Now(dt)] @@ row

Every5(rows) == {At(5, r) : r \in rows}

M4(beh)         == [topic |-> "m4", beh |-> beh]
M6(active)      == [topic |-> "m6", active |-> active, dir |-> "NONE", demand |-> 0]
Demand(dir, n)  == [topic |-> "m6", active |-> TRUE, dir |-> dir, demand |-> n]
Own(hdg)        == [topic |-> "own", hdg |-> hdg]
M5(plan)        == [topic |-> "m5", plan |-> plan, valid |-> TRUE]
Exec(plan)      == [topic |-> "exec", plan |-> plan, accepted |-> TRUE]
ActiveRoute(p)  == [topic |-> "route", plan |-> p, points |-> 2]
Scoring(cpa)    == [topic |-> "scoring", cpa |-> cpa]
Command(id, g)  == [topic |-> "cmd", id |-> id, gen |-> g, type |-> 1, mrm |-> 1, validity |-> 30,
                    feasible |-> TRUE]
Ack(id, g)      == [topic |-> "status", id |-> id, gen |-> g, state |-> "ACCEPTED"]
-----------------------------------------------------------------------------
(* Alphabets.                                                               *)

\* Samples of a stand-on run: beh and dev vary, or beh and risk.
Sample(beh, dev, risk) ==
    [beh |-> beh, dev |-> dev, risk |-> risk, range |-> 900, brg |-> 120, tcpa |-> -10, along |-> -1,
     xte |-> 0, conflict |-> FALSE, closing |-> 999]

\* Three targets; which of them scores best, by little or by much, or is in danger.
Risks(best, score, phase) ==
    {[id |-> i, phase |-> IF i = best THEN phase ELSE 2, score |-> IF i = best THEN score ELSE 500,
      tie |-> i] : i \in 1..3}

Record(avoiding, conflict, role) ==
    [avoiding |-> avoiding, valid |-> FALSE, conflict |-> conflict, role |-> role, action |-> FALSE,
     rot |-> 0, dev |-> 10]

\* Rows of the module oracles.
Constraint(conflict, rule, past) ==
    [topic |-> "m6", conflict |-> conflict, rule |-> rule, role |-> "GIVE_WAY", dir |-> "STARBOARD_TURN",
     ruleRole |-> "GIVE_WAY", ruleDir |-> "STARBOARD_TURN", past |-> past, release |-> past, target |-> 1,
     extremis |-> FALSE]

World(cpa, tcpa) ==
    [topic |-> "m2", brg |-> 0, cpa |-> cpa, tcpa |-> tcpa, target |-> 1, pos |-> 0,
     sensed |-> [cpa |-> cpa, tcpa |-> tcpa]]

Behaviour(beh, closing) == [topic |-> "m4", beh |-> beh, closing |-> closing]
Plan(plan, status)      == [topic |-> "m5", branch |-> 1, status |-> status, ok |-> TRUE, plan |-> plan]
Guidance(avoids)        == [topic |-> "gnc", avoids |-> avoids, accepted |-> TRUE]
Heading(hdg)            == [topic |-> "own", hdg |-> hdg, pos |-> 0]

HeadOn == Oracle!Compiled(14, "own", FALSE)
Truth  == [brg |-> 0, cpa |-> 100, tcpa |-> 300]

\* Rows of the strict gate carry their clocks; the rows' times are those of sim_t.
Strict(dt, row) ==
    [clocks |-> [s \in {"sim_t"} |-> Now(dt)], gen |-> 1, domain |-> "sim", id |-> Len(input) + 1]
        @@ At(dt, row)

Identity  == [scale |-> 1, offset |-> 0, residual |-> 0, count |-> 0, domain |-> "sim", gen |-> 1, valid |-> TRUE]

Alignment == [gen |-> 1, anchors |-> <<>>, transforms |-> [s \in {"sim_t"} |-> Identity],
              uncertain |-> 1, priority |-> <<"sim_t", "wall_t">>]

Rows ==
    CASE part = "frames"    -> {At(dt, [value |-> v]) : dt \in 0..1, v \in {"a", "b", "c"}}
      [] part = "pages"     -> {[key |-> k, id |-> Len(input) + 1] : k \in 1..3}
      [] part = "outcome"   -> [batch : {"none", "true", "false"}, report : {"none", "true", "false"},
                                word : {"none", "pass", "fail"}]
      [] part = "primary"   -> {Risks(1, 560, 2), Risks(2, 560, 2), Risks(3, 560, 2), Risks(2, 700, 2),
                                Risks(3, 510, 3), {r \in Risks(2, 560, 2) : r.id # 1}}
      [] part = "return"    -> Every5({Sample(0, 0, 0), Sample(1, 40, 0), Sample(7, 20, 0), Sample(0, 20, 0)})
      [] part = "exposure"  -> {At(dt, Sample(1, 0, r)) : dt \in {3, 4}, r \in {0, 2, 3}}
      [] part = "toggles"   -> {At(dt, Record(a, FALSE, "FREE")) : dt \in 1..2, a \in BOOLEAN}
      [] part = "duty"      -> {At(20, Record(a, c, r)) : a \in BOOLEAN, c \in BOOLEAN,
                                                         r \in {"GIVE_WAY", "BOTH_GIVE_WAY", "STAND_ON"}}
      [] part = "boundary"  -> Every5({M4("TRANSIT"), M4("AVOID"), M4("RECOVERY"), M4("MRC_DRIFT"),
                                       M6(TRUE), M6(FALSE)})
      [] part = "handoff"   -> Every5({M4("RECOVERY"), M5("p"), M5("q"), Exec("p"), Exec("q"),
                                       ActiveRoute("p"), ActiveRoute("q")})
      [] part = "demand"    -> Every5({M4("RECOVERY"), Own(40), Own(320), Demand("STARBOARD", 45),
                                       Demand("PORT", 30)})
      [] part = "report"    -> Every5({Scoring(3), Scoring(6), M4(7), M4(1), M6(TRUE), M6(FALSE)})
      [] part = "strict"    -> {Strict(dt, r) : dt \in 0..1, r \in {Scoring(3), M4(7), M4(1)}}
      [] part = "mrm"       -> Every5({Command("a", 1), Command("b", 2), Command("a", 2), Ack("a", 1),
                                       Ack("b", 2), Ack("a", 2),
                                       [topic |-> "alert", severity |-> 3, mrm |-> 1]})
      [] part = "conflicts" -> {At(dt, [conflict |-> c]) : dt \in {4, 7}, c \in BOOLEAN}
      [] part = "rules"     -> {0, 13, 14, 15}
      [] part = "sector"    -> {At(dt, Constraint(c, r, p)) : dt \in {5, 12}, c \in BOOLEAN, r \in {0, 14, 15},
                                                             p \in BOOLEAN}
      [] part = "settle"    -> {At(dt, World(c, c)) : dt \in {10, 30}, c \in 1..3}
      [] part = "envelope"  -> {At(1, [topic |-> "odd", env |-> e, score |-> 0, stale |-> FALSE]) :
                                  e \in {"IN", "EDGE", "OUT", "MRC_PREP", "MRC_ACTIVE"}}
      [] part = "mission"   -> {At(1, [topic |-> "goal", fsm |-> f]) : f \in Oracle!M3States}
      [] part = "plans"     -> {At(1, Plan("p", s)) : s \in {"VALID", "EMPTY", "OTHER"}}
      [] part = "run"       -> Every5({Behaviour("AVOID", 1), Behaviour("RECOVERY", -1), Behaviour("TRANSIT", -1),
                                       Plan("p", "VALID"), Guidance(TRUE), Guidance(FALSE),
                                       Heading(0), Heading(40)})
      [] part = "recovery"  -> {At(dt, [beh |-> b, conflict |-> c, closing |-> v]) :
                                  dt \in {4, 10}, b \in {0, 1, 7}, c \in BOOLEAN, v \in {1, 999}}
      [] part = "stop"      -> {At(20, [Sample(b, 0, 0) EXCEPT !.range = r, !.tcpa = IF r < 900 THEN 10 ELSE -1]) :
                                  b \in {0, 1, 7}, r \in {800, 900, 1000}}
      [] part = "slice"     -> {0, 10, 12, 15, 20}
      [] part = "chain"     -> Every5({M4(b) : b \in {0, 1, 7}}
                                      \cup {[topic |-> "m6", conflict |-> c, enc |-> 0, past |-> FALSE] : c \in BOOLEAN}
                                      \cup {[topic |-> "life", autopilot |-> TRUE, avoiding |-> FALSE]})
      [] part = "sailing"   -> Every5({[topic |-> "own", xte |-> x, step |-> 30] : x \in {-40, 10, 40}}
                                      \cup {[topic |-> "m4", beh |-> b, active |-> FALSE] : b \in 0..1})
      [] part = "inject"    -> [pos : {{}, {2}, {5}}, origin : {{}, {0}}, heading : {{}, {30}}, cog : {{20}}, sog : {{}, {6}},
                                rps : {{}}, targets : {{}, {1}}, windDir : {{}}, wind : {{7}}, id : {{1}},
                                seed : {{}, {9}}]
      [] OTHER              -> {}

Bound ==
    CASE part \in {"outcome", "inject"} -> 2
      [] part \in {"report", "duty", "sector"} -> 3
      [] part = "recovery" -> 4
      [] part = "run" -> 8
      [] part = "strict" -> 4
      [] part \in {"primary", "mrm", "pages", "frames", "exposure", "slice", "chain", "stop"} -> 5
      [] part \in {"handoff", "demand"} -> 8
      [] part = "return" -> 7
      [] OTHER -> 6

Prefix ==
    CASE part = "handoff" -> << [t |-> 0] @@ M4("TRANSIT"), [t |-> 5] @@ M4("TRANSIT"),
                                [t |-> 10] @@ M4("AVOID") >>
      [] part = "demand"  -> << [t |-> 0] @@ Own(0), [t |-> 0] @@ M4("TRANSIT"), [t |-> 5] @@ M4("TRANSIT"),
                                [t |-> 8] @@ Demand("STARBOARD", 30), [t |-> 10] @@ M4("AVOID") >>
      [] part = "run"     -> << [t |-> 0] @@ Heading(0), [t |-> 5] @@ World(100, 300),
                                [t |-> 5] @@ Constraint(TRUE, 14, FALSE),
                                [t |-> 10] @@ Behaviour("TRANSIT", 1) >>
      [] OTHER -> <<>>

\* Rows and alignments of the selection of a time.
WallTransform == [scale : {1}, offset : {0, 2}, residual : 0..1, count : {0, 2}, domain : {"wall"},
                  gen : 1..2, valid : BOOLEAN]

Placements ==
    { [row |-> [clocks |-> c, gen |-> g, domain |-> d],
       al  |-> [Alignment EXCEPT !.anchors = a,
                                 !.transforms = [s \in {"sim_t", "wall_t"} |-> IF s = "sim_t" THEN Identity ELSE w]]] :
         c \in UNION {[S -> {2, 4, Fast!Bad}] : S \in SUBSET {"sim_t", "wall_t"}},
         g \in 1..2, d \in {"sim", "wall"},
         a \in {<<>>, << <<2, 2>>, <<4, 4>> >>, << <<2, 4>>, <<4, 6>> >>},
         w \in WallTransform }

Reports ==
    [cpa : {Fast!Absent, 3, 6}, recovery : {Fast!Absent, 5, 10}, terminal : {Fast!Absent, 10},
     byTarget : BOOLEAN, dwell : {5}, pass : BOOLEAN, reason : BOOLEAN]

TypedReports ==
    [cpa : {3}, byTarget : {FALSE}, dwell : {5}, pass : {TRUE}, reason : {FALSE}, said : {"typed"},
     typed : {[source |-> "sim_t", raw |-> r, canonical |-> r, id |-> i] : r \in 0..2, i \in 1..4}]
    \cup [cpa : {3}, byTarget : {FALSE}, dwell : {5}, pass : BOOLEAN, reason : {TRUE}, said : {"null", "missing"},
          typed : {[source |-> "sim_t", raw |-> 0, canonical |-> 0, id |-> 0]}]

GateSets ==
    [cpa : BOOLEAN, stability : BOOLEAN, corridor : BOOLEAN, risk : BOOLEAN, seamanship : BOOLEAN,
     phase : BOOLEAN, returnRequired : BOOLEAN, returned : BOOLEAN, overtakeRequired : BOOLEAN,
     overtaken : BOOLEAN, compliance : {"full", "partial", "violated", "unknown"}]

\* What the sources of G-SEP say, every other source being silent.
Sources ==
    { [layers |-> [l \in DOMAIN Session!LayerGate |->
                     [passed |-> IF l = "L2" THEN x ELSE IF l = "L3" THEN y ELSE "absent",
                      overall_pass |-> "absent"]],
       batch |-> [f \in DOMAIN Session!BatchGate |-> IF f = "cpa_ok" THEN z ELSE "none"]] :
         x \in {"true", "false", "absent"}, y \in {"true", "false", "other"}, z \in {"true", "false", "none"} }

\* Two estimates of the same truth, of the CPA or of the others.
Estimates ==
    LET values == {[brg |-> 0, cpa |-> c, tcpa |-> 300] : c \in {Oracle!None, 0, 80, 90, 95, 105, 110, 111, 120, 300}}
                  \cup {[brg |-> b, cpa |-> 100, tcpa |-> t] : b \in {Oracle!None, -3, 0, 2},
                                                               t \in {Oracle!None, 280, 300, 320}}
    IN [truth : {[brg |-> 0, cpa |-> c, tcpa |-> 300] : c \in {0, 40, 49, 50, 100}}, near : values, far : values]

\* One target at two distances.
Norms ==
    [near : {0, 50, 60, 90, 99, 100, 120, 150, 179, 180, 300}, far : {0, 50, 60, 90, 99, 100, 120, 150, 179, 180, 300},
     tcpa : {-1, 0, 60, 61, 600, 601}, nearCpa : BOOLEAN, closing : {-10, 50, 120}, duty : Verdict!Duties]

\* The least separations of the truth, of Scoring and of the report; tolerance 1.
Separations ==
    [physical : {Fast!Absent} \cup 3..6, scoring : {Fast!Absent} \cup 3..6,
     saidPhysical : {Fast!Absent} \cup 2..7, saidScoring : {Fast!Absent} \cup 2..7,
     raw : {Fast!Absent, 10}, said : {Fast!Missing, Fast!Absent, 10, 11}]

Vectors(n) == [x : -n..n, y : -n..n]

Approaches ==
    [own : [pos : {[x |-> 0, y |-> 0]}, vel : {[x |-> 0, y |-> 0], [x |-> 0, y |-> 2], [x |-> 1, y |-> 1]}],
     tgt : [pos : Vectors(3), vel : Vectors(2)]]

\* What the scorer is given of targets and rules; what the grader is given, and a turn
\* to compare with.
ScoredFrames ==
    [distances : SUBSET {0, 26, 27, 60}, rules : SUBSET ({13, 15} \X {"full", "partial", "violated", "ok"})]

GradedTurns ==
    [rule : 13..18, larger : {-40, -20, -10, -3, 3, 10, 20, 40},
     s : [turn : {-40, -30, -29, -15, -14, -5, -4, 0, 4, 5, 14, 15, 29, 30, 40}, clear : BOOLEAN,
          side : {"port", "starboard"}, role : {"give_way", "stand_on"}, early : BOOLEAN, stage : {1, 3}]]

\* Scenarios at every limit of the windows; and of every intent.
Geometries ==
    [range : {1000, 5000}, tcpa : {0, 1, 719, 720, 721, 780, 900, 901, 1499, 1500, 1501, 1600},
     dcpa : {0, 1851, 1852, 2777, 2778}, speed : {0, 3, 9}, rel : {10, 100}, ownSpeed : {6}, tgtSpeed : {4, 8},
     ownCourse : {0}, tgtCourse : {10, 540}]

Scenarios ==
    [g : {g \in Geometries : g.dcpa \in {0, 2777} /\ g.range = 5000 /\ g.tgtCourse = 10},
     suffix : {"cs-2", "cs-edge", "ot-boundary", "other"}, rule : {0, 13, 15, 17},
     action : {"maintain", "turn_starboard"}, labelShort : {TRUE}, labelNear : {TRUE},
     total : {0, 1000}, visibility : {0, 6000}, returnRequired : {TRUE}, returnStated : {TRUE},
     overtakeRequired : {FALSE}, corridor : {FALSE}, route : {TRUE}, target : {TRUE}, rules : {TRUE},
     delta : {0}, policy : {FALSE}, compliance : {TRUE}, floor : {180}, profile : {"overtake_4L"},
     contract : {<<>>, <<2, 2, 2, 2>>}]

\* What a scenario states of its CPA floor, LOA 45 m.
Floors ==
    [profile : {{}, {"close4"}, {"boundary6"}, {"unheard of"}}, threshold : {{}, {1790}, {1800}, {2000}},
     legacy : {{}, {1790}, {1800}, {5000}}, formula : {4, 6}, loa : {450}]

\* Two ships, from head-on to overtaking, near and far.
Meetings ==
    [own : [heading : {0, 50}, speed : {1, 2}], other : [heading : {0, 20, 36, 54}, speed : {0, 1, 2}],
     d : Vectors(9) \ Vectors(2)]

Given ==
    CASE part = "placement" -> Placements
      [] part = "report"    -> Reports
      [] part = "strict"    -> TypedReports
      [] part = "gates"     -> GateSets
      [] part = "sources"   -> Sources
      [] part = "estimate"  -> Estimates
      [] part = "norms"     -> Norms
      [] part = "separations" -> Separations
      [] part = "closest"   -> Approaches
      [] part = "bearings"  -> 0..719
      [] part = "frame"     -> ScoredFrames
      [] part = "turns"     -> GradedTurns
      [] part = "windows"   -> Geometries
      [] part = "audit"     -> Scenarios
      [] part = "obstacle"  -> Meetings
      [] part = "floors"    -> Floors
      [] OTHER              -> {None}
-----------------------------------------------------------------------------

Evaluators ==
    {"frames", "pages", "outcome", "primary", "return", "exposure", "toggles", "duty", "boundary", "handoff",
     "demand", "report", "strict", "mrm", "conflicts", "rules", "placement", "gates", "sources",
     "slice", "sector", "envelope", "settle", "mission", "plans", "run", "recovery", "stop", "estimate", "norms",
     "separations", "closest", "bearings", "frame", "turns", "windows", "audit", "obstacle",
     "chain", "sailing", "floors", "inject"}

FirstInput == part \in Evaluators /\ input = Prefix /\ given \in Given

Feed ==
    /\ part \in Evaluators /\ Len(input) < Bound
    /\ \E row \in Rows : input' = Append(input, row)
    /\ UNCHANGED <<part, given>>
-----------------------------------------------------------------------------

Init ==
    \/ MachineInit /\ input = <<>> /\ given = None
    \/ /\ part = "coverage" /\ Runner!Init /\ input = <<>> /\ given = None
       /\ s10 = 0 /\ s11 = 0 /\ s12 = 0
    \/ /\ FirstInput
       /\ s1 = 0 /\ s2 = 0 /\ s3 = 0 /\ s4 = 0 /\ s5 = 0 /\ s6 = 0
       /\ s7 = 0 /\ s8 = 0 /\ s9 = 0 /\ s10 = 0 /\ s11 = 0 /\ s12 = 0

Next ==
    \/ MachineNext /\ UNCHANGED <<part, input, given>>
    \/ part = "coverage" /\ Runner!Next /\ UNCHANGED <<part, input, given, s10, s11, s12>>
    \/ Feed /\ UNCHANGED slots

Spec == Init /\ [][Next]_vars
-----------------------------------------------------------------------------
(* Parts of the properties.                                                 *)

\* At every moment of a trace the decision frame shows the value of the last row up to
\* then, and before the first row nothing.
FrameIsLast == part = "frames" =>
    LET segments == Session!StateSegments(input) IN
    \A t \in 0..(IF input = <<>> THEN 0 ELSE Last(input).t) :
        LET upto == {i \in DOMAIN input : input[i].t <= t} IN
        Session!DecisionFrame(segments, t) =
            IF upto = {} THEN "UNKNOWN" ELSE input[CHOOSE i \in upto : \A j \in upto : j <= i].value

\* The pages of the session list, one after the other, are the sorted list; a page
\* asked for beyond the last one is the last one.
PagesTile == part = "pages" =>
    \A size \in 1..3, desc \in BOOLEAN :
        LET sorted == Session!SortedSessions(ToSet(input), desc)
            pages  == Session!TotalPages(Len(sorted), size) IN
        /\ FlattenSeq([p \in 1..pages |-> Session!SessionPage(sorted, p, size)]) = sorted
        /\ Session!SessionPage(sorted, pages + 1, size) = Session!SessionPage(sorted, pages, size)

\* Whatever the order the sources of a verdict are asked in: when all that say something
\* of a scenario say pass, and something is said of each, the session passed; when all
\* that is said of one scenario is fail, it failed; with a scenario nobody spoke of it
\* did not pass.
OutcomeIsShared == part = "outcome" =>
    LET says(r)  == {pass \in BOOLEAN : \/ r.batch = (IF pass THEN "true" ELSE "false")
                                           \/ r.report = (IF pass THEN "true" ELSE "false")
                                           \/ r.word = (IF pass THEN "pass" ELSE "fail")}
        outcome  == Session!SessionOutcome(
                        [i \in DOMAIN input |-> Session!OverallPass(input[i].batch, input[i].report, input[i].word)])
    IN /\ input # <<>> /\ (\A i \in DOMAIN input : says(input[i]) = {TRUE}) => outcome = "passed"
       /\ (\E i \in DOMAIN input : says(input[i]) = {FALSE}) => outcome = "failed"
       /\ (\E i \in DOMAIN input : says(input[i]) = {}) => outcome # "passed"

\* A gate is shown in conflict exactly when one of its sources says PASS and another
\* FAIL; a source that says nothing contradicts nobody.
DisagreementShown == part = "sources" =>
    LET said == {Session!SourceStatus(given.layers["L2"]), Session!SourceStatus(given.layers["L3"]),
                 Session!BoolStatus(given.batch["cpa_ok"])}
    IN Session!GateConflicts(Session!GateRows(given.layers, given.batch, "none"))
         = IF {"PASS", "FAIL"} \subseteq said THEN {"G-SEP"} ELSE {}

Fine == [cpa |-> TRUE, stability |-> TRUE, seamanship |-> TRUE, compliance |-> "full", returnRequired |-> TRUE]

\* Where a return is required a run passes only with an avoidance in it and TRANSIT
\* throughout its last ten seconds, however the behaviour flapped before.
PassIsEarned == part = "return" =>
    (Verdict!OverallPass(Verdict!GatesOf(input, "stand_on", 15, 500, Fine)) =>
        /\ \E i \in DOMAIN input : input[i].beh # 0
        /\ \A i \in DOMAIN input : input[i].t >= Last(input).t - 10 => input[i].beh = 0)

\* The danger exposure is the number of seconds after the grace at which the newest
\* sample was dangerous, however unevenly the samples came.
ExposureIsTime == part = "exposure" /\ input # <<>> =>
    Verdict!DangerExposure(input) =
        Cardinality({u \in (input[1].t + 5)..(Last(input).t - 1) :
            LET upto == {i \in DOMAIN input : input[i].t <= u}
            IN input[CHOOSE i \in upto : \A j \in upto : j <= i].risk >= 3})

\* The evaluation report never passes a run that the runner's verdict fails, and it
\* names a first failed layer exactly when it does not pass.
ReportNeverLaxer == part = "gates" =>
    /\ Verdict!ReportPass(given) => Verdict!OverallPass(given)
    /\ Verdict!ReportPass(given) <=> Verdict!FirstFailure(given) = "none"

\* A run that is stopped early as failed does not pass.
EarlyStopOnlyFails == part = "stop" => \A cpa \in {0, 400, 600} :
    Verdict!AssessEncounterFailure(input, cpa, 500, 50, TRUE) # "none" =>
        ~Verdict!OverallPass(Verdict!GatesOf(input, "stand_on", 15, 500, Fine))

\* What each failing gate looks at, and a run that passes.
GateFields ==
    [CPA |-> {"cpa"}, RISK |-> {"risk"}, PHASE |-> {"phase"}, ROUTE_RETURN |-> {"returnRequired", "returned"},
     OVERTAKE |-> {"overtakeRequired", "overtaken"}, SEAMANSHIP |-> {"seamanship"}, STABILITY |-> {"stability"},
     UNKNOWN |-> {"corridor", "compliance"}]

Green == [f \in UNION {GateFields[g] : g \in DOMAIN GateFields} |-> IF f = "compliance" THEN "full" ELSE TRUE]

\* The gate a failing run is attributed to would alone have failed it, and a run is left
\* unattributed, in gate and in stage, only if the corridor or the compliance did.
NamedGateFailed == part = "gates" /\ ~Verdict!OverallPass(given) =>
    LET gate  == Oracle!FailingGate(given)
        alone == [f \in DOMAIN given |-> IF f \in GateFields[gate] THEN given[f] ELSE Green[f]]
        rest  == [f \in DOMAIN given |-> IF f \in GateFields["UNKNOWN"] THEN Green[f] ELSE given[f]]
    IN /\ ~Verdict!OverallPass(alone)
       /\ gate = "UNKNOWN" => Verdict!OverallPass(rest)
       /\ (Oracle!DiagnosedStage("OK", given, <<1, 0>>) = "OK") = (gate = "UNKNOWN")

\* A recovery that the runner calls premature the oracle of M4 calls premature as well,
\* where M6 lets go of the conflict once and for all.
PrematureAgrees == part = "recovery" =>
    LET rows == [i \in 1..(2 * Len(input)) |->
                   LET s == input[(i + 1) \div 2] IN
                   IF i % 2 = 1 THEN [topic |-> "m6", t |-> s.t, conflict |-> s.conflict]
                   ELSE [topic |-> "m4", t |-> s.t, closing |-> IF s.closing = 999 THEN Oracle!None ELSE s.closing,
                         beh |-> CASE s.beh = 0 -> "TRANSIT" [] s.beh = 1 -> "AVOID" [] OTHER -> "RECOVERY"]]
        k == Verdict!RecoveryMoment(input)
    IN ( /\ Verdict!PrematureRecovery(input)
         /\ \A i \in Verdict!ConflictCleared(input)..Len(input) : ~input[i].conflict
         /\ \E i \in DOMAIN input : input[i].beh = 1
         /\ input[k].beh = 7 )
       => "PREMATURE_RECOVERY_BEFORE_RULE_RELEASE" \in Oracle!M4Failures(rows)

MinTransit == 5
Dwell == 5

GiveWayScenario ==
    [own |-> "GIVE_WAY", terminal |-> "FIRST_RECOVERY", target |-> "PASSIVE", minTransit |-> MinTransit,
     dwell |-> Dwell, locked |-> TRUE, floor |-> 5, heading |-> 0, alteration |-> 0, targetCpa |-> 0,
     deadline |-> 100]

AllGreen == [m \in {"M1", "M2", "M4", "M5", "M6", "M7", "M8"} |-> TRUE]

-----------------------------------------------------------------------------
(* The properties.                                                          *)

\* The verdict of a run says what the run did.  Of several runs in one file the newest is
\* judged, whole and alone; a pass has an avoidance and a lasting return; exposure is the
\* time in danger; the report is never laxer than the runner and an early stop never
\* stops a run that would pass; overshoots are passages of the dead band, the seamanship
\* is settled after the manoeuvre and an accepted CPA keeps every stated floor; the
\* primary threat hides no worse one, does not chatter, and nearer is no safer;
\* avoidances are counted apart by their gaps and a lost duty is noticed; a frame's
\* verdict fits its marks and a larger turn the right way is graded no worse; the library
\* shows of a session the last value of every moment, every session on one page, its
\* outcome as its sources say it and where they disagree.
VerdictFitsRun ==
    /\ part = "slice" => Verdict!SliceIsLastRun(input)
    /\ PassIsEarned /\ ExposureIsTime /\ ReportNeverLaxer /\ EarlyStopOnlyFails
    /\ part = "sailing" => Verdict!OvershootsAreCrossings(input) /\ Verdict!SettledStaysSettled(input)
    /\ part = "floors" => Verdict!AcceptedIsDeclared(given)
    /\ part = "primary" => Verdict!WorstPhaseShown(input) /\ Verdict!NoChatter(input)
    /\ part = "norms" => Verdict!NearerIsNoSafer(given)
    /\ part = "toggles" => Verdict!AvoidancesCounted(input)
    /\ part = "duty" => Verdict!LostDutyIsNoticed(input)
    /\ part = "frame" => Scorer!VerdictFitsScore(given.distances, given.rules)
    /\ part = "turns" => Scorer!LargerTurnNoWorse(given.rule, given.s, given.larger)
    /\ FrameIsLast /\ PagesTile /\ OutcomeIsShared /\ DisagreementShown

\* The FAST verdict and the artifact gate say what the trace says.  The boundary the
\* runner stops at is the one the evaluator finds in the whole trace, of rows that arrive
\* in time order, and is earned by the order of the behaviours; the handoff is that of
\* the plan committed first; the ship turned as far as the largest demand.  A row is
\* placed by its best clock, of its own run, and the older selector agrees; of a green
\* gate the trace gives the reported CPA and recovery again, by the very record that
\* ended the encounter, and the two separations are those of one encounter.
FastVerdictFitsTrace ==
    /\ part = "boundary" => /\ Fast!BoundaryFinal(input, MinTransit, Dwell)
                            /\ Fast!OwnRecoveryEarned(input, MinTransit)
                            /\ Fast!TargetResolutionEarned(input, MinTransit, Dwell)
    /\ part = "handoff" => Fast!HandoffOfTheCommitted(input, MinTransit)
    /\ part = "demand" => Fast!DemandWasMet(input, GiveWayScenario, AllGreen, 10)
    /\ part = "placement" => /\ Fast!PlacedByItsOwnClock(given.row, given.al)
                             /\ Fast!LegacyAgrees(given.row, given.al)
    /\ part = "report" => Fast!ReportReproduced(input, given)
    /\ part = "strict" => Fast!StrictNamesTheRecord(input, given, Alignment)
    /\ part = "separations" => Fast!SeparationsAgree(given, 1)

\* A green module oracle means the module did its duty.  The guidance took up the newest
\* command itself and a generation has one command; debounced onsets are a dwell apart
\* and M4 is judged against a release that lasted; a flip is a change of the rule and the
\* sector stayed the compiled one; M1 came back from OUT by EDGE; a better estimate of M2
\* is judged no worse, and at one moment; an active mission was validated; M5 found its
\* plan once; a run with an avoidance had a plan, its acceptance and a turn; the runner
\* and the oracle agree on a premature recovery; the gate a failure is attributed to
\* failed it, and one encounter is no oscillation.
GreenOracleMeansDuty ==
    /\ part = "mrm" => Oracle!NewestIsExecuted(input) /\ Oracle!OneCommandPerGeneration(input)
    /\ part = "conflicts" => Oracle!OnsetsAreApart(input) /\ Oracle!ReleaseLasts(input)
    /\ part = "rules" => Oracle!FlipsAreChanges(input)
    /\ part = "sector" => Oracle!SectorIsFixed(input, HeadOn)
    /\ part = "envelope" => Oracle!LeftByEdge(input)
    /\ part = "estimate" => Oracle!CloserIsNoWorse(given.truth, given.near, given.far)
    /\ part = "settle" => Oracle!SameMoment(input)
    /\ part = "mission" => Oracle!ActiveWasValidated(input)
    /\ part = "plans" => Oracle!PlanFoundOnce(input)
    /\ part = "run" => Oracle!GreenRunManoeuvred(input, HeadOn, Truth)
    /\ part = "chain" => Oracle!OneEncounterNoOscillation(input)
    /\ PrematureAgrees /\ NamedGateFailed

\* A scenario means the same to everyone who reads it.  The moment of action the audit
\* foretells comes to be, a bearing away from the junctions keeps its rule and a scenario
\* that starts active is never passed over; whatever ran before, and in both profiles,
\* the own ship starts where the scenario says, and the random nodes are seeded alike;
\* of the coverage campaign a manifest that fits its file may be believed, the report
\* shows the gates as the stages returned them and a red one has a reason in it; the
\* heading the velocity obstacle tells a give-way ship keeps her clear; the tracker's CPA
\* is the least distance to come, and on a collision course one of the ships gives way.
ScenarioMeansOneThing ==
    /\ part = "windows" =>
          Auditor!TriggersAsForetold(given, {0, 1, 60, 61, 719, 720, 780, 781, 880, 1500})
    /\ part = "bearings" => /\ Auditor!InteriorIsStable(given)
                            /\ \A cog \in {0, 90}, tgtCog \in 0..719 : Ships!OneGivesWay(cog, given, tgtCog)
    /\ part = "closest" => Ships!CpaIsLeast(given.own, given.tgt, 0..8)
    /\ part = "audit" => Auditor!ImmediateIsAnswered(given)
    /\ part = "inject" => Auditor!SameStart(input) /\ Auditor!SeedIsShared(input)
    /\ part = "coverage" => Runner!ManifestVouches /\ Runner!ReportRestates /\ Runner!RedIsExplained
    /\ part = "obstacle" => Ships!AvoidanceClears(given.own, given.other, given.d, 3, 0..30)
=============================================================================
