----------------------------- MODULE RunVerdict ------------------------------
(***************************************************************************)
(* How a run of a COLREGs scenario is judged from its trace: the route       *)
(* return, the phase semantics C1 to C8, the risk exposure, the early stop,  *)
(* the runner's overall verdict and the evaluation report's.                 *)
(*                                                                          *)
(* A trace is a sequence of samples in time order; a sample holds the own    *)
(* ship's row and M2's, M4's and M6's of that moment:                        *)
(*   t         seconds                beh       0 TRANSIT, 7 RECOVERY, else  *)
(*   range     m                                an avoidance; -1 throughout  *)
(*                                            when M4 wrote no rows         *)
(*   brg       of the target, from the bow, starboard positive              *)
(*   tcpa      s                      along     own ahead of the target (> 0)*)
(*   dev       from the first heading xte       from the route               *)
(*   conflict  M6 sees a conflict     closing   m/s in M4's rationale        *)
(*   risk      the worst risk phase, 0 to 4 (see below)                      *)
(* Where each number comes from (positions, interpolation) is left out.      *)
(***************************************************************************)
EXTENDS Integers, Sequences, FiniteSets, FiniteSetsExt, SequencesExt

NoValue == 999

Magnitude(n) == IF n < 0 THEN -n ELSE n
-----------------------------------------------------------------------------
(* Which part of the trace file is this run's.                              *)

\* Mutant: any step back in time starts a new run.
RunStartAnyStep(ts) ==
    LET cuts == {i \in 2..Len(ts) : ts[i] + 1 < ts[i - 1]}
    IN IF cuts = {} THEN 1 ELSE CHOOSE i \in cuts : \A j \in cuts : j <= i

\* read_trace_run_records: the rows from the last fall back towards the origin.
RunStart(ts) ==
    LET low(p) == IF p > 10 THEN p ELSE 10    \* max(5, prev / 2), doubled
        cuts == {i \in 2..Len(ts) : ts[i] + 1 < ts[i - 1] /\ 2 * ts[i] < low(ts[i - 1])}
    IN IF cuts = {} THEN 1 ELSE CHOOSE i \in cuts : \A j \in cuts : j <= i
-----------------------------------------------------------------------------
(* When the avoidance began and ended.                                      *)

HasBehavior(tr) == \E i \in DOMAIN tr : tr[i].beh # -1

\* _is_avoidance_behavior: RECOVERY counts.
IsAvoidance(s) == s.beh \notin {-1, 0}

AvoidanceSamples(tr) == {i \in DOMAIN tr : IsAvoidance(tr[i])}

\* The index of the first avoidance, 0 if there is none.
Onset(tr) == IF AvoidanceSamples(tr) = {} THEN 0 ELSE Min(AvoidanceSamples(tr))

\* The first TRANSIT after the last avoidance, 0 if there is none.
Release(tr) ==
    LET back == {i \in DOMAIN tr : tr[i].beh = 0 /\ \A j \in AvoidanceSamples(tr) : j < i}
    IN IF AvoidanceSamples(tr) = {} \/ back = {} THEN 0 ELSE Min(back)

\* compute_phase_semantics' avoid window: from the onset to five seconds after the release.
AvoidWindow(tr) ==
    LET on == Onset(tr) re == Release(tr) IN
    IF on = 0 THEN {}
    ELSE {i \in on..Len(tr) : re = 0 \/ tr[i].t <= tr[re].t + 5}

Nearest(tr, window) == CHOOSE i \in window : \A j \in window :
    tr[i].range < tr[j].range \/ (tr[i].range = tr[j].range /\ i <= j)
-----------------------------------------------------------------------------
(* Route return, corridor, overtaking.                                      *)

ReleaseDwell == 10

\* released_after_avoidance: TRANSIT at the end, and for the dwell.
ReleasedAfterAvoidance(tr, dwell) ==
    LET re == Release(tr) IN
    (IF tr # <<>> /\ Last(tr).beh = 0 /\ re # 0 THEN Last(tr).t - tr[re].t ELSE 0) >= dwell

\* Mutant: no dwell is asked for, and without an avoidance nothing is.
ReturnedWithoutDwell(tr) ==
    /\ tr # <<>> /\ ReleasedAfterAvoidance(tr, 0)
    /\ Magnitude(Last(tr).xte) < 150 /\ Magnitude(Last(tr).dev) < 10 /\ Last(tr).beh = 0

ReturnedToRoute(tr) ==
    /\ tr # <<>> /\ ReleasedAfterAvoidance(tr, ReleaseDwell)
    /\ Magnitude(Last(tr).xte) < 150 /\ Magnitude(Last(tr).dev) < 10 /\ Last(tr).beh = 0

RouteCorridorOk(tr) == tr # <<>> /\ \A i \in DOMAIN tr : Magnitude(tr[i].xte) <= 505

OvertakeCompleted(tr, required) == required => \E i \in DOMAIN tr : tr[i].along >= 0
-----------------------------------------------------------------------------
(* The phase semantics.  floor is the CPA floor of the scenario.            *)

\* The range does not shrink by more than a metre while the release settles.
OpeningDwell(tr, re) ==
    LET post == {i \in DOMAIN tr : i >= re /\ tr[i].t <= tr[re].t + 15} IN
    Cardinality(post) < 2 \/ tr[re].range = 0 \/ tr[Max(post)].range >= tr[re].range - 1

\* Finally past and clear before the route return (Rule 8(d)).
C1PastClear(tr, role, rule, floor) ==
    LET re == Release(tr) IN
    re # 0 /\ role = "give_way" /\ rule # 13 =>
        /\ \/ Magnitude(tr[re].brg) > 90
           \/ tr[re].tcpa < 0 /\ tr[re].range >= floor
           \/ tr[re].range >= 3 * floor
           \/ rule = 15 /\ tr[Nearest(tr, DOMAIN tr)].along < 0
        /\ OpeningDwell(tr, re)

\* Readily apparent: thirty degrees from the heading at the onset; runs of small
\* alterations to and fro are counted over the window and fewer than three may be there.
SmallAlteration(acc, d) ==
    LET sign == IF d >= 0 THEN 1 ELSE -1 IN
    IF Magnitude(d) < 10
    THEN [acc EXCEPT !.sign = sign,
                     !.len = IF acc.sign \notin {0, sign} THEN @ + 1 ELSE IF @ < 1 THEN 1 ELSE @]
    ELSE [runs |-> acc.runs + IF acc.len >= 3 THEN 1 ELSE 0, len |-> 0, sign |-> 0]

SmallRuns(devs) ==
    LET acc == FoldLeft(SmallAlteration, [runs |-> 0, len |-> 0, sign |-> 0], devs)
    IN acc.runs + IF acc.len >= 3 THEN 1 ELSE 0

C2Apparent(tr) ==
    LET w == AvoidWindow(tr)
        devs == [i \in 1..Cardinality(w) |-> tr[Min(w) + i - 1].dev - tr[Min(w)].dev] IN
    Cardinality(w) >= 3 =>
        /\ \E i \in DOMAIN devs : Magnitude(devs[i]) >= 30
        /\ SmallRuns(devs) < 3

\* Ample time: not in the last minute, and not before the planning horizon, except
\* for an overtaking.
C3AmpleTime(tr, role, rule) ==
    LET on == Onset(tr) IN
    on # 0 /\ role = "give_way" => tr[on].tcpa > 60 /\ (rule = 13 \/ tr[on].tcpa <= 720)

\* Head-on: the target is to port at the closest approach of the window, and in
\* three fifths of it.
C4PortSide(tr, role, rule) ==
    rule = 14 /\ role = "give_way" =>
        LET w == AvoidWindow(tr) IN
        /\ w # {} /\ tr[Nearest(tr, w)].brg < 0
        /\ 10 * Cardinality({i \in w : tr[i].brg < 0}) >= 6 * Cardinality(w)

\* Crossing: astern of the target at the closest approach and in four fifths after it.
C5NoCrossAhead(tr, role, rule) ==
    rule = 15 /\ role = "give_way" =>
        LET w == AvoidWindow(tr) IN
        /\ w # {}
        /\ LET post == {i \in w : i >= Nearest(tr, w)} IN
           /\ tr[Nearest(tr, w)].along < 0
           /\ 10 * Cardinality({i \in post : tr[i].along < 0}) >= 8 * Cardinality(post)

\* The stand-on vessel holds its course until it acts.
C6StandOnHold(tr, role) ==
    role = "stand_on" => \A i \in 1..(Onset(tr) - 1) : Magnitude(tr[i].dev - tr[1].dev) < 5

\* Overtaking: ahead of the target and opening when released.
C7OvertakePastClear(tr, role, rule) ==
    LET re == Release(tr) IN
    re # 0 /\ rule = 13 /\ role = "give_way" =>
        LET before == {i \in DOMAIN tr : tr[i].t <= tr[re].t - 3} IN
        /\ tr[re].along > 0
        /\ before # {} => tr[re].range >= tr[Max(before)].range - 1
        /\ OpeningDwell(tr, re)

C8GiveWayAvoided(tr, role) == role = "give_way" => Onset(tr) # 0

\* A trace without own-ship or behaviour rows is not evaluated, and passes.
PhaseSemanticsOk(tr, role, rule, floor) ==
    tr # <<>> /\ HasBehavior(tr) =>
        /\ C1PastClear(tr, role, rule, floor) /\ C2Apparent(tr) /\ C3AmpleTime(tr, role, rule)
        /\ C4PortSide(tr, role, rule) /\ C5NoCrossAhead(tr, role, rule)
        /\ C6StandOnHold(tr, role) /\ C7OvertakePastClear(tr, role, rule)
        /\ C8GiveWayAvoided(tr, role)
-----------------------------------------------------------------------------
(* Timing consistency: M4 recovers before M6 has let go of the conflict.     *)

ConflictCleared(tr) ==
    LET clear == {i \in DOMAIN tr : ~tr[i].conflict /\ \E j \in 1..i : tr[j].conflict}
    IN IF clear = {} THEN 0 ELSE Min(clear)

RecoveryMoment(tr) ==
    LET rec == {i \in DOMAIN tr : tr[i].beh = 7} IN IF rec = {} THEN Release(tr) ELSE Min(rec)

\* M4's closing speed nearest to that moment, NoValue if none within five seconds.
ClosingAt(tr, k) ==
    LET near == {i \in DOMAIN tr : tr[i].closing # NoValue /\ Magnitude(tr[i].t - tr[k].t) <= 5} IN
    IF near = {} THEN NoValue
    ELSE tr[CHOOSE i \in near : \A j \in near :
            LET di == Magnitude(tr[i].t - tr[k].t)
                dj == Magnitude(tr[j].t - tr[k].t) IN di < dj \/ (di = dj /\ i <= j)].closing

PrematureRecovery(tr) ==
    LET rec == RecoveryMoment(tr) clear == ConflictCleared(tr) IN
    /\ rec # 0 /\ clear # 0
    /\ ClosingAt(tr, rec) > 0
    /\ tr[rec].t < tr[clear].t - 5
-----------------------------------------------------------------------------
(* Exposure to the risk domains.                                            *)

\* The time from each sample at or above level to the next one, less what falls into
\* the first grace seconds.
Exposure(tr, level, grace) ==
    MapThenSumSet(LAMBDA i : IF tr[i].risk >= level
                             THEN Max({0, tr[i+1].t - Max({tr[i].t, tr[1].t + grace})}) ELSE 0,
                  1..(Len(tr) - 1))

WarningExposure(tr) == Exposure(tr, 2, 0)
DangerExposure(tr)  == Exposure(tr, 3, 5)

\* After the peak of the risk that follows the onset it has come down a minute later.
\* score is the primary's, here taken as the phase.
RiskRecoveryOk(tr) ==
    LET on   == Onset(tr)
        bad  == {i \in DOMAIN tr : i >= on /\ tr[i].risk >= 2}
        peak == CHOOSE i \in bad : \A j \in bad : tr[j].risk < tr[i].risk \/ (tr[j].risk = tr[i].risk /\ i <= j)
        later == {i \in DOMAIN tr : tr[i].t >= tr[peak].t + 60} IN
    IF on = 0 THEN \A i \in DOMAIN tr : tr[i].risk < 2
    ELSE bad = {} \/ (later # {} /\ tr[Min(later)].risk < tr[peak].risk)

\* max_danger_ddv: the danger domain was never entered, in the grace or after.
DangerDdvOk(tr) == \A i \in DOMAIN tr : tr[i].risk < 3

\* compute_domain_gate_status; closeStart forgives the domains, not the recovery.
RiskGateOk(tr, closeStart, switches, single) ==
    /\ closeStart \/ (DangerExposure(tr) = 0 /\ WarningExposure(tr) <= 120 /\ DangerDdvOk(tr))
    /\ RiskRecoveryOk(tr)
    /\ single => switches <= 2
-----------------------------------------------------------------------------
(* The early stop.                                                          *)

\* Past its closest point: no TCPA left, and the range larger than five samples ago.
PastCpa(tr) ==
    /\ Last(tr).tcpa <= 0
    /\ Len(tr) >= 2 /\ Last(tr).range > tr[IF Len(tr) > 5 THEN Len(tr) - 5 ELSE 1].range

\* still_avoiding: neither TRANSIT nor RECOVERY.
StillAvoiding(tr) == Last(tr).beh \notin {0, 7, -1}

\* assess_encounter_failure with M2's CPA of the moment.
AssessEncounterFailure(tr, cpa, floor, deadline, required) ==
    IF tr = <<>> \/ (required /\ ReturnedToRoute(tr)) \/ cpa <= 0 THEN "none"
    ELSE IF PastCpa(tr) /\ cpa < floor THEN "cpa_floor_violated"
    ELSE IF required /\ Last(tr).t > deadline /\ PastCpa(tr) /\ StillAvoiding(tr) /\ ~Last(tr).conflict
         THEN "recovery_stalled" ELSE "none"
-----------------------------------------------------------------------------
(* The verdicts.  g is the record of the gates of one run.                  *)

\* compute_overall_pass
OverallPass(g) ==
    /\ g.cpa /\ g.stability /\ g.corridor /\ g.risk /\ g.seamanship /\ g.phase
    /\ g.returnRequired => g.returned
    /\ g.overtakeRequired => g.overtaken
    /\ g.compliance # "violated"

\* report_from_runner_result
ReportVerdict(g) ==
    [safety |-> g.cpa /\ g.risk,
     mission |-> g.corridor /\ (g.returnRequired => g.returned)
                 /\ (g.overtakeRequired => g.overtaken) /\ g.seamanship,
     colregs |-> g.compliance \in {"full", "unknown"} /\ g.phase,
     stability |-> g.stability]

ReportPass(g) ==
    LET v == ReportVerdict(g) IN v.safety /\ v.mission /\ v.colregs /\ v.stability

\* The first layer of the report with status FAIL; L1 is never filled in.
FirstFailure(g) ==
    LET v == ReportVerdict(g) IN
    CASE ~v.safety -> "L2"
      [] ~v.colregs -> "L4"
      [] ~(g.corridor /\ (g.returnRequired => g.returned) /\ (g.overtakeRequired => g.overtaken)) -> "L5"
      [] ~g.seamanship -> "L6"
      [] ~v.stability -> "L7"
      [] OTHER -> "none"

\* What the gates say of a trace, with what is not in it.
GatesOf(tr, role, rule, floor, other) ==
    [cpa |-> other.cpa, stability |-> other.stability, seamanship |-> other.seamanship,
     compliance |-> other.compliance, returnRequired |-> other.returnRequired,
     overtakeRequired |-> rule = 13, overtaken |-> OvertakeCompleted(tr, rule = 13),
     corridor |-> RouteCorridorOk(tr), returned |-> ReturnedToRoute(tr),
     risk |-> RiskGateOk(tr, FALSE, 0, TRUE), phase |-> PhaseSemanticsOk(tr, role, rule, floor)]
-----------------------------------------------------------------------------

\* The rows of the newest run are kept whole once it is past its tenth second,
\* however topics that lag behind by up to five seconds are mixed, and nothing of
\* the run before is left.
SliceIsLastRun(ts) ==
    \A s \in 2..Len(ts) :
        ( /\ ts[s] = 0 /\ ts[s - 1] >= 10 /\ \A i \in s..Len(ts) : ts[i] # 0 => ts[i] >= 10
          /\ \A i \in s..Len(ts) : ts[i] = 0 => i = s
          /\ \A i \in (s + 1)..Len(ts), j \in (s + 1)..Len(ts) : i < j => ts[j] + 5 >= ts[i] )
        => RunStart(ts) = s

-----------------------------------------------------------------------------
(* Measures a run is judged by: how far and how often it left its route, and *)
(* the least separation it has to keep.                                     *)
(*                                                                          *)
(* Rows are in the order of their times, into which the code sorts them.     *)
(* A row of topic "m4" has beh and active (avoidance_active), one of topic   *)
(* "own" the distance xte from the route and step, the metres run since the  *)
(* own-ship row before.  Distances are whole metres.                        *)

Abs(n) == IF n < 0 THEN -n ELSE n

Busy(row) == row.beh # 0 \/ row.active

Behaviours(rows) == SelectSeq(rows, LAMBDA r : r.topic = "m4")

\* maneuver_end_s: the first quiet row after the first busy one; {} if there is none.
ManeuverEnd(rows) ==
    LET m4   == Behaviours(rows)
        ends == {i \in DOMAIN m4 : ~Busy(m4[i]) /\ \E j \in 1..(i - 1) : Busy(m4[j])}
    IN IF ends = {} THEN {} ELSE {m4[Min(ends)].t}

Samples(rows) ==
    SelectSeq(rows, LAMBDA r : r.topic = "own" /\ \A end \in ManeuverEnd(rows) : r.t <= end)

DeadBand == 25

Side(xte) == IF xte > DeadBand THEN 1 ELSE IF xte < -DeadBand THEN -1 ELSE 0

\* One sample of the crossing count: the dead band neither counts nor forgets.
Cross(acc, s) ==
    LET side == Side(s.xte) IN
    IF side = 0 THEN acc
    ELSE [side |-> side, count |-> acc.count + IF acc.side = -side THEN 1 ELSE 0]

\* compute_seamanship_metrics; xte is twice the integral of |xte|.
Seamanship(rows, routeDistance) ==
    LET own == Samples(rows)
        path == MapThenSumSet(LAMBDA i : own[i].step, 2..Len(own)) IN
    [xte |-> MapThenSumSet(LAMBDA i : (Abs(own[i - 1].xte) + Abs(own[i].xte)) * (own[i].t - own[i - 1].t),
                           2..Len(own)),
     overshoots |-> FoldLeft(Cross, [side |-> 0, count |-> 0], own).count,
     path  |-> path,
     route |-> IF own = <<>> THEN path ELSE Max({routeDistance, 1})]

\* compute_domain_gate_status' seamanship_gate_ok
SeamanshipGateOk(m, xteLimit) ==
    m.xte <= 2 * xteLimit /\ m.overshoots <= 1 /\ 100 * m.path <= 135 * m.route
-----------------------------------------------------------------------------
(* The CPA floor.  What a scenario may leave out is a set of at most one     *)
(* value; lengths are in tenths of a metre.                                  *)

\* _CPA_PROFILE_MULTIPLIERS
Multiplier == [close4 |-> 4, boundary6 |-> 6, ideal9 |-> 9, open20 |-> 20]

\* expected_cpa_floor_m; {} when it raises.
ExpectedCpaFloor(e) ==
    IF e.profile # {}
    THEN LET derived == {Multiplier[p] * e.loa : p \in e.profile \cap DOMAIN Multiplier} IN
         IF /\ derived # {} /\ e.threshold # {}
            /\ \A d \in derived, x \in e.threshold \cup e.legacy : Abs(x - d) <= 10
            /\ \A p \in e.profile : e.formula = Multiplier[p]
         THEN derived ELSE {}
    ELSE IF e.threshold # {}
    THEN IF e.legacy \subseteq e.threshold THEN e.threshold ELSE {}
    ELSE IF e.legacy # {} THEN e.legacy ELSE {5000}

\* cpa_floor_measurement_tolerance_m
FloorTolerance(e) == IF e.profile = {} THEN 0 ELSE e.loa \div 20

\* cpa_ok
CpaOk(e, minCpa) == \E floor \in ExpectedCpaFloor(e) : minCpa + FloorTolerance(e) >= floor
-----------------------------------------------------------------------------

\* The overshoots are the passages from one side of the band to the other, however
\* long the ship stays within it on the way.
OvershootsAreCrossings(rows) ==
    LET own == Samples(rows) IN
    Seamanship(rows, 100).overshoots =
        Cardinality({p \in (1..Len(own)) \X (1..Len(own)) :
            /\ p[1] < p[2] /\ Side(own[p[1]].xte) # 0 /\ Side(own[p[2]].xte) = -Side(own[p[1]].xte)
            /\ \A k \in (p[1] + 1)..(p[2] - 1) : Side(own[k].xte) = 0})

\* Once the manoeuvre has ended the measures stay what they are, whatever comes after.
SettledStaysSettled(rows) ==
    \A n \in 1..Len(rows) :
        LET before == SubSeq(rows, 1, n) IN
        ManeuverEnd(before) # {} => Seamanship(rows, 100) = Seamanship(before, 100)

\* A run is accepted only if it kept every floor its scenario states, to a metre and the
\* tolerance of the measurement; a scenario whose floors disagree accepts none.
AcceptedIsDeclared(e) ==
    \A minCpa \in {1770, 1780, 1790, 1800, 1990, 2000, 4990, 5000} :
        CpaOk(e, minCpa) => \A x \in e.threshold \cup e.legacy : minCpa >= x - 10 - FloorTolerance(e)

-----------------------------------------------------------------------------
(* The risk model the trace evaluators judge a run with: the phase and the   *)
(* score of one target, and the choice of the primary threat, which holds on *)
(* to the one chosen before unless another is clearly worse for long enough. *)
(*                                                                          *)
(* A target's place is its danger-domain norm in per cent: below 100 it is   *)
(* inside the danger domain, below 100 * warning_scale inside the warning    *)
(* domain.  Times are seconds, scores per mille.  The geometry that gives    *)
(* the norm is left out.                                                    *)

Duties == {"Free", "StandOnHold", "GiveWay", "BothGiveWay", "Rule17Action"}

\* _phase_rank
Clear == 0
Monitor == 1
Warning == 2
Danger == 3
Critical == 4

WarningScale == 180
ActionHorizon == 600
CriticalHorizon == 60

\* max(0, 1 - norm) of either domain.
Ddv(norm, scale) == IF norm * 100 >= 100 * scale THEN 0 ELSE 1000 - (norm * 1000) \div scale

\* The phase of evaluate_target; a negative margin goes with a positive ddv.
TargetPhase(target) ==
    CASE target.norm < 100 /\ target.tcpa \in 0..CriticalHorizon -> Critical
      [] target.norm < 100                                       -> Danger
      [] target.norm < WarningScale                              -> Warning
      [] target.tcpa \in 0..ActionHorizon /\ target.nearCpa      -> Monitor
      [] OTHER                                                   -> Clear

\* exp(-tcpa / 180), a step function of the same ends; a passed CPA is not urgent.
Urgency(tcpa) == CASE tcpa < 0 -> 0 [] tcpa = 0 -> 1000 [] tcpa <= 60 -> 720
                   [] tcpa <= 180 -> 370 [] tcpa <= 600 -> 40 [] OTHER -> 0

ColregsScore(duty) ==
    CASE duty \in {"GiveWay", "BothGiveWay"} -> 1000
      [] duty = "Rule17Action" -> 600 [] duty = "StandOnHold" -> 300 [] OTHER -> 0

DomainScore(target) ==
    LET w == (Ddv(target.norm, WarningScale) * 7) \div 10
        d == Ddv(target.norm, 100)
    IN IF w > d THEN w ELSE d

Clamped(v) == IF v < 0 THEN 0 ELSE IF v > 1000 THEN 1000 ELSE v

\* 0.40, 0.25, 0.15, 0.15 and 0.05 of the components; closing is per cent of 8 m/s.
TargetScore(target, duty) ==
    Clamped((40 * DomainScore(target) + 25 * Urgency(target.tcpa) + 15 * Clamped(10 * target.closing)
             + 15 * ColregsScore(duty) + 5 * (1000 - target.confidence)) \div 100)

EvaluateTarget(target, duty) ==
    [id |-> target.id, phase |-> TargetPhase(target), score |-> TargetScore(target, duty),
     tie |-> target.norm]
-----------------------------------------------------------------------------
(* The primary threat.                                                      *)

\* Phase, then score; the further keys (TCPA, range, margins, ... the id) are two.
IsBetter(a, b) ==
    \/ a.phase > b.phase
    \/ a.phase = b.phase /\ a.score > b.score
    \/ a.phase = b.phase /\ a.score = b.score /\ a.tie < b.tie
    \/ a.phase = b.phase /\ a.score = b.score /\ a.tie = b.tie /\ a.id < b.id

Best(risks) == CHOOSE r \in risks : \A q \in risks \ {r} : IsBetter(r, q)

SwitchScoreGap == 120
SwitchConfirmSamples == 2
NoTarget == 0

NewRankingState == [previous |-> NoTarget, candidate |-> NoTarget, count |-> 0]

Promoted(r) == [state |-> [previous |-> r.id, candidate |-> NoTarget, count |-> 0], primary |-> r]

\* Mutant: the count of the candidate survives a sample in which another was best.
ConfirmAnyCandidate(state, best, previous) ==
    LET count == state.count + 1 IN
    IF count >= SwitchConfirmSamples THEN Promoted(best)
    ELSE [state |-> [state EXCEPT !.candidate = best.id, !.count = count], primary |-> previous]

\* The challenger must be best in consecutive samples.
ConfirmCandidate(state, best, previous) ==
    LET count == IF state.candidate = best.id THEN state.count + 1 ELSE 1 IN
    IF count >= SwitchConfirmSamples THEN Promoted(best)
    ELSE [state |-> [state EXCEPT !.candidate = best.id, !.count = count], primary |-> previous]

SwitchAtOnce(best, previous) ==
    best.phase # previous.phase \/ best.score - previous.score >= SwitchScoreGap

\* select_primary: the state after it and the primary (id 0 when there is no target).
SelectPrimary(state, risks) ==
    IF risks = {} THEN [state |-> NewRankingState, primary |-> [id |-> NoTarget, phase |-> Clear, score |-> 0]]
    ELSE LET best == Best(risks)
             own  == {r \in risks : r.id = state.previous} IN
         IF state.previous = NoTarget \/ own = {} \/ best.id = state.previous THEN Promoted(best)
         ELSE LET previous == CHOOSE r \in own : TRUE IN
              IF SwitchAtOnce(best, previous) THEN Promoted(best)
              ELSE ConfirmCandidate(state, best, previous)

\* The selections along a run: a sequence of sets of risks.
Selections(run) ==
    FoldLeft(LAMBDA acc, risks :
                Append(acc, SelectPrimary(IF acc = <<>> THEN NewRankingState ELSE Last(acc).state, risks)),
             <<>>, run)

-----------------------------------------------------------------------------

\* Holding on to a primary never hides a worse target: what is shown as the primary
\* threat is of the worst phase any target is in.
WorstPhaseShown(run) ==
    \A i \in DOMAIN run : \A r \in run[i] : r.phase <= Selections(run)[i].primary.phase

\* No chatter: the primary gives way to a target of its own phase and about its score
\* only when that target was the best in the sample before too.
NoChatter(run) ==
    LET sel == Selections(run) IN
    \A i \in 2..Len(run) :
        LET p == sel[i-1].primary.id
            q == sel[i].primary
            here == {r \in run[i] : r.id = p} IN
        q.id # p /\ here # {} /\ run[i-1] # {} =>
            \A r \in here :
                \/ q.phase # r.phase \/ q.score - r.score >= SwitchScoreGap
                \/ Best(run[i-1]).id = q.id

\* The closer a target is to the own ship's domain, all else equal, the worse its phase
\* and its score, at every boundary between the phases.
NearerIsNoSafer(n) ==
    LET at(norm) == EvaluateTarget([id |-> 1, norm |-> norm, tcpa |-> n.tcpa, nearCpa |-> n.nearCpa,
                                    closing |-> n.closing, confidence |-> 900], n.duty)
    IN n.near <= n.far => at(n.near).phase >= at(n.far).phase /\ at(n.near).score >= at(n.far).score

-----------------------------------------------------------------------------
(* The behavioural-stability scorer: how often M4's behaviour, M5's plan and *)
(* M6's conflict toggle once one-sample gaps are closed, whether the duty    *)
(* held from its onset, how often the ship's turn reversed, whether it       *)
(* turned to starboard, whether a stand-on vessel moved early.               *)
(*                                                                          *)
(* A record holds t (seconds), avoiding, valid (M5), conflict and role and   *)
(* action (M6), rot (deg/s), dev (degrees from the first heading).           *)

MaxGap == 2
PostRelease == 30
NotApplicable == -1

\* ROLE_DUTY: giving way alone or with the other is one duty.
Duty(role) == CASE role = "STAND_ON" -> "stand_on" [] role \in {"GIVE_WAY", "BOTH_GIVE_WAY"} -> "give_way"
                [] role = "FREE" -> "free" [] OTHER -> "unknown"

\* Maximal runs of equal values: value, start and end time of each.
AddRun(acc, e) ==
    IF acc = <<>> \/ Last(acc).value # e.value
    THEN Append(acc, [value |-> e.value, start |-> e.t, end |-> e.t])
    ELSE [acc EXCEPT ![Len(acc)].end = e.t]

Runs(es) == FoldLeft(AddRun, <<>>, es)

\* FALSE between two TRUE runs, from its first sample to the next run's first.
IsShortGap(runs, i) ==
    i > 1 /\ i < Len(runs) /\ ~runs[i].value /\ runs[i+1].start - runs[i].start <= MaxGap

\* _collapse_short_false_gaps: the values left, repetitions dropped.
Collapsed(es) ==
    LET runs == Runs(es)
        vals == [i \in DOMAIN runs |-> runs[i].value \/ IsShortGap(runs, i)]
    IN FoldLeft(LAMBDA acc, v : IF acc # <<>> /\ Last(acc) = v THEN acc ELSE Append(acc, v), <<>>, vals)

Toggles(es) == IF es = <<>> THEN 0 ELSE Len(Collapsed(es)) - 1

Of(recs, field) == [i \in DOMAIN recs |-> [t |-> recs[i].t, value |-> recs[i][field]]]

BehaviorToggles(recs)   == Toggles(Of(recs, "avoiding"))
PlanValidSegments(recs) == Cardinality({i \in DOMAIN Collapsed(Of(recs, "valid")) :
                                            Collapsed(Of(recs, "valid"))[i]})

\* First and last avoidance; <<>> if there is none.
EngagementWindow(recs) ==
    LET on == {i \in DOMAIN recs : recs[i].avoiding}
    IN IF on = {} THEN <<>> ELSE <<recs[Min(on)].t, recs[Max(on)].t>>

ConflictWindow(recs) ==
    LET on == {i \in DOMAIN recs : recs[i].conflict}
    IN IF on = {} THEN <<>> ELSE <<recs[Min(on)].t, recs[Max(on)].t>>

InWindow(recs, w) == SelectSeq(recs, LAMBDA r : w = <<>> \/ (w[1] <= r.t /\ r.t <= w[2]))

UntilRelease(recs) ==
    LET w == EngagementWindow(recs) IN SelectSeq(recs, LAMBDA r : w = <<>> \/ r.t <= w[2] + PostRelease)

ConflictToggles(recs) ==
    IF UntilRelease(recs) = <<>> THEN NotApplicable
    ELSE Toggles(Of(UntilRelease(recs), "conflict"))

\* Changes of the duty, recs being the records in conflict.
DutyChanges(recs) ==
    LET duties == [i \in DOMAIN recs |-> Duty(recs[i].role)] IN
    IF recs = <<>> THEN NotApplicable
    ELSE Cardinality({i \in 1..(Len(recs) - 1) : duties[i] # duties[i+1]})

RoleOnsetChanges(recs) == DutyChanges(SelectSeq(UntilRelease(recs), LAMBDA r : r.conflict))

\* Changes of the sign of the yaw rate, trim below the deadband ignored.
SteeringReversals(recs) ==
    LET turning == SelectSeq(InWindow(recs, EngagementWindow(recs)), LAMBDA r : r.rot # 0)
        signs == FoldLeft(LAMBDA acc, r : LET s == IF r.rot > 0 THEN 1 ELSE -1 IN
                                          IF acc # <<>> /\ Last(acc) = s THEN acc ELSE Append(acc, s),
                          <<>>, turning)
    IN IF signs = <<>> THEN 0 ELSE Len(signs) - 1

Largest(S) == IF S = {} THEN 0 ELSE Max(S)

MaxStarboard(recs) == Largest({recs[i].dev : i \in {j \in DOMAIN recs : recs[j].dev >= 0}})
MaxPort(recs)      == Largest({-recs[i].dev : i \in {j \in DOMAIN recs : recs[j].dev <= 0}})

\* The records in which a stand-on vessel must hold: up to M6's independent action, or
\* the first three quarters of the run.
HoldRecords(recs) ==
    LET act == {i \in DOMAIN recs : recs[i].action} IN
    IF act # {} THEN SelectSeq(recs, LAMBDA r : r.t < recs[Min(act)].t)
    ELSE SelectSeq(recs, LAMBDA r : 4 * (r.t - recs[1].t) <= 3 * (Last(recs).t - recs[1].t))

PrematureGiveWay(recs) == Largest({IF d < 0 THEN -d ELSE d : d \in {HoldRecords(recs)[i].dev : i \in DOMAIN HoldRecords(recs)}})

\* analyze_stability; the roughness of the yaw rate in the hold is left out.
StabilityPass(recs, role) ==
    LET turn == InWindow(recs, IF ConflictWindow(recs) # <<>> THEN ConflictWindow(recs)
                               ELSE EngagementWindow(recs)) IN
    /\ BehaviorToggles(recs) <= 2
    /\ PlanValidSegments(recs) <= 2
    /\ SteeringReversals(recs) <= IF role = "give_way" THEN 4 ELSE 5
    /\ ConflictToggles(recs) <= 2
    /\ RoleOnsetChanges(recs) <= 0
    /\ role = "give_way" => MaxStarboard(turn) >= MaxPort(turn) /\ MaxStarboard(turn) >= 5
    /\ role # "give_way" /\ recs # <<>> => PrematureGiveWay(recs) < 10
-----------------------------------------------------------------------------

\* A toggle counts exactly when it lasts: every TRUE stretch that is counted apart from
\* the one before was preceded by more than MaxGap seconds of FALSE, as seen from the
\* samples alone.  Said of the behaviour: the number of avoidances counted.
AvoidancesCounted(recs) ==
    LET starts == {i \in DOMAIN recs : recs[i].avoiding /\ (i = 1 \/ ~recs[i-1].avoiding)}
        real   == {i \in starts : LET before == {j \in 1..(i-1) : recs[j].avoiding} IN
                                  before = {} \/ recs[i].t - recs[Max(before) + 1].t > MaxGap} IN
    Cardinality({i \in DOMAIN Collapsed(Of(recs, "avoiding")) :
                    Collapsed(Of(recs, "avoiding"))[i]}) = Cardinality(real)

\* The obligation is never lost unnoticed: when M6 says give way at one conflict record
\* and stand on at a later one (before thirty seconds after the release), the run is
\* not stable; and a refinement of the give-way role alone never makes it unstable.
LostDutyIsNoticed(recs) ==
    LET seen == UntilRelease(recs)
        lost == \E i, j \in DOMAIN seen : i < j /\ seen[i].conflict /\ seen[j].conflict
                    /\ seen[i].role \in {"GIVE_WAY", "BOTH_GIVE_WAY"} /\ seen[j].role = "STAND_ON"
        kept == \A i \in DOMAIN seen : seen[i].conflict => seen[i].role \in {"GIVE_WAY", "BOTH_GIVE_WAY"}
    IN /\ lost => ~StabilityPass(recs, "give_way")
       /\ kept => RoleOnsetChanges(recs) <= 0
=============================================================================
