---------------------------- MODULE FastEvaluator ----------------------------
(***************************************************************************)
(* Where a FAST run ends: a long enough TRANSIT, an avoidance, the first     *)
(* RECOVERY - or, for scenarios the target resolves, M6 clear for the dwell  *)
(* while the own ship only ever transits.                                   *)
(*                                                                          *)
(* Rows are in event time order: [topic, t, ...], an M4 row with beh, an M6  *)
(* row with active.                                                         *)
(*                                                                          *)
(* At the end, what the evaluation rests on: the clock by which rows are      *)
(* placed (trace_time.py), and the gate G-ART, which compares the artifacts  *)
(* of one run with each other.                                              *)
(***************************************************************************)
EXTENDS Integers, Sequences, SequencesExt, FiniteSets, FiniteSetsExt

None == -1

Mrc == {"MRC_DRIFT", "MRC_ANCHOR", "MRC_HEAVE_TO"}

\* _behavior_of: what cannot be read is no behaviour and is passed over.
Known == {"TRANSIT", "AVOID", "RECOVERY", "DP_HOLD", "BERTH"} \cup Mrc

OfTopic(rows, topics) == SelectSeq(rows, LAMBDA r : r.topic \in topics)

FirstOr0(indices) == IF indices = {} THEN 0 ELSE Min(indices)

\* FastBoundary
Boundary(ready, transit, avoid, recovery, stop, reason) ==
    [ready |-> ready, transit |-> transit, avoid |-> avoid, recovery |-> recovery,
     stop |-> stop, reason |-> reason]

\* transit_duration_s
TransitDuration(b) ==
    LET end == IF b.reason = "ENCOUNTER_CLEAR_WITH_OWN_HOLD" THEN b.recovery ELSE b.avoid
    IN IF b.transit = None \/ end = None THEN 0 ELSE end - b.transit
-----------------------------------------------------------------------------
(* The own ship's recovery.                                                 *)

\* Mutant: the last event that is not TRANSIT.
LeftLast(ev) ==
    LET out == {i \in DOMAIN ev : ev[i].beh \in Known \ {"TRANSIT"}} IN IF out = {} THEN 0 ELSE Max(out)

\* The first event that is not TRANSIT.
Left(ev) == FirstOr0({i \in DOMAIN ev : ev[i].beh \in Known \ {"TRANSIT"}})

\* The TRANSIT events before event i.
Transit(ev, i) == {j \in DOMAIN ev : ev[j].beh = "TRANSIT" /\ (i = 0 \/ j < i)}

EndsAvoidance(beh) == beh \in Known \ {"AVOID"}

AvoidanceEnds(ev, i) == FirstOr0({j \in DOMAIN ev : j > i /\ EndsAvoidance(ev[j].beh)})

ReasonAfter(beh) ==
    CASE beh = "RECOVERY" -> "FIRST_M4_RECOVERY"
      [] beh \in Mrc -> "MRC_BEFORE_RECOVERY"
      [] beh = "TRANSIT" -> "AVOIDANCE_ABORTED_BEFORE_RECOVERY"
      [] OTHER -> "NON_COLREGS_BEHAVIOR_INTERRUPTED_AVOIDANCE"

\* find_fast_boundary
OwnRecovery(rows, minTransit) ==
    LET ev == OfTopic(rows, {"m4"})
        i == Left(ev)
        tr == Transit(ev, i)
        start == IF tr = {} THEN None ELSE ev[Min(tr)].t
        e == AvoidanceEnds(ev, i)
    IN CASE i = 0 -> Boundary(FALSE, start, None, None, None, "AVOIDANCE_NOT_REACHED")
         [] ev[i].beh = "RECOVERY" ->
              Boundary(FALSE, start, None, ev[i].t, ev[i].t, "AVOIDANCE_NOT_REACHED")
         [] ev[i].beh # "AVOID" ->
              Boundary(FALSE, start, None, None, ev[i].t, "NON_COLREGS_BEHAVIOR_BEFORE_AVOIDANCE")
         [] tr = {} -> Boundary(FALSE, None, None, None, ev[i].t, "TRANSIT_NOT_OBSERVED")
         [] ev[Max(tr)].t - start < minTransit ->
              Boundary(FALSE, start, ev[i].t, None, ev[i].t, "TRANSIT_PREFIX_TOO_SHORT")
         [] e = 0 -> Boundary(FALSE, start, ev[i].t, None, None, "RECOVERY_BOUNDARY_NOT_REACHED")
         [] OTHER -> Boundary(ev[e].beh = "RECOVERY", start, ev[i].t,
                              IF ev[e].beh = "RECOVERY" THEN ev[e].t ELSE None,
                              ev[e].t, ReasonAfter(ev[e].beh))
-----------------------------------------------------------------------------
(* The target's resolution.                                                 *)

\* clear_since at event i: the first clear M6 row after the last active one.
ClearSince(ev, i) ==
    LET m6 == {j \in 1..i : ev[j].topic = "m6"}
        busy == {j \in m6 : ev[j].active}
        c == {j \in m6 : busy # {} /\ j > Max(busy)}
    IN IF c = {} THEN None ELSE ev[Min(c)].t

ClearDwelt(ev, i, dwell) ==
    /\ ev[i].topic = "m6" /\ ~ev[i].active
    /\ ClearSince(ev, i) # None /\ ev[i].t - ClearSince(ev, i) >= dwell

HeldTransit(ev, i, minTransit) ==
    LET tr == {j \in 1..i : ev[j].topic = "m4"}
    IN tr # {} /\ ev[Max(tr)].t - ev[Min(tr)].t >= minTransit

\* _find_target_resolution_boundary
TargetResolution(rows, minTransit, dwell) ==
    LET ev == OfTopic(rows, {"m4", "m6"})
        m4 == {j \in DOMAIN ev : ev[j].topic = "m4"}
        takeover == FirstOr0({j \in m4 : ev[j].beh # "TRANSIT"})
        ends == FirstOr0({i \in DOMAIN ev : ClearDwelt(ev, i, dwell) /\ HeldTransit(ev, i, minTransit)})
        before(i) == {j \in m4 : j < i}
        start(i) == IF before(i) = {} THEN None ELSE ev[Min(before(i))].t
        ready == \* clear_dwell_ready at the horizon: no active row came after
            Len(ev) > 0 /\ \E i \in DOMAIN ev :
                /\ ClearDwelt(ev, i, dwell)
                /\ \A k \in (i + 1)..Len(ev) : ev[k].topic = "m6" => ~ev[k].active
        whole == Len(ev) + 1
    IN CASE takeover # 0 /\ (ends = 0 \/ takeover < ends) ->
              Boundary(FALSE, start(takeover), None, None, ev[takeover].t,
                       "OWN_TACTICAL_TAKEOVER_FOR_TARGET_RESOLUTION")
         [] ends # 0 -> Boundary(TRUE, start(ends), None, ClearSince(ev, ends), ev[ends].t,
                                 "ENCOUNTER_CLEAR_WITH_OWN_HOLD")
         [] OTHER -> Boundary(FALSE, start(whole), None, ClearSince(ev, Len(ev)), None,
                              IF ready /\ m4 = {} THEN "TRANSIT_NOT_OBSERVED"
                              ELSE IF ready /\ ~HeldTransit(ev, Len(ev), minTransit)
                              THEN "TRANSIT_PREFIX_TOO_SHORT" ELSE "ENCOUNTER_CLEAR_NOT_REACHED")
-----------------------------------------------------------------------------

\* A boundary once reached is reached for good: the runner, which looks at every
\* poll, and the evaluator, which looks at the whole trace, agree on it, if the rows of M4
\* and M6 arrive in time order.  (Both sort what they have: a row that arrives after a poll
\* and belongs before its boundary may move it.)
BoundaryFinal(rows, minTransit, dwell) ==
    \A n \in 0..Len(rows) :
        LET p == SubSeq(rows, 1, n) IN
        /\ OwnRecovery(p, minTransit).stop # None => OwnRecovery(p, minTransit) = OwnRecovery(rows, minTransit)
        /\ TargetResolution(p, minTransit, dwell).stop # None
             => TargetResolution(p, minTransit, dwell) = TargetResolution(rows, minTransit, dwell)

\* Ready means that from the start of the avoidance to the recovery M4 said nothing
\* but AVOID, and before it nothing but TRANSIT.
OwnRecoveryEarned(rows, minTransit) ==
    LET b == OwnRecovery(rows, minTransit) IN
    b.ready => /\ TransitDuration(b) >= minTransit
               /\ \A i \in DOMAIN rows : rows[i].topic = "m4" /\ rows[i].beh \in Known =>
                     /\ rows[i].t < b.avoid => rows[i].beh = "TRANSIT"
                     /\ b.avoid <= rows[i].t /\ rows[i].t < b.recovery => rows[i].beh = "AVOID"

\* Resolved by the target means that M6 was clear from the recorded time to the stop,
\* for the dwell, and the own ship never left TRANSIT.
TargetResolutionEarned(rows, minTransit, dwell) ==
    LET b == TargetResolution(rows, minTransit, dwell) IN
    b.ready => /\ b.stop - b.recovery >= dwell
               /\ \E i \in DOMAIN rows : rows[i].topic = "m6" /\ rows[i].active
               /\ \A i \in DOMAIN rows : rows[i].t <= b.stop =>
                     /\ rows[i].topic = "m4" => rows[i].beh = "TRANSIT"
                     /\ rows[i].topic = "m6" /\ rows[i].t >= b.recovery => ~rows[i].active

-----------------------------------------------------------------------------
(* The verdict of a FAST run: its checks in the order of the chain (the two  *)
(* of the artifact gate are one), from the boundary, M6's demand, the        *)
(* headings and the module oracles.                                         *)
(*                                                                          *)
(* Rows, in event time order, beside those above:                            *)
(*   m6    dir, demand        own   hdg (degrees)                            *)
(*   m2    hdg, cpa (of the target)                                         *)
(*   m5    plan, valid        exec  plan, accepted (GNC's execution status)  *)
(*   route plan, points (GNC's active route)                                 *)
(* A scenario is [own, terminal, target, minTransit, dwell, locked, floor,   *)
(* heading, alteration, targetCpa, deadline]; mods gives each module oracle's  *)
(* verdict.                                                                 *)

\* The signed turn from one heading to another, -180 to 179.
Turn(from, to) == ((to - from + 180) % 360) - 180

Size(n) == IF n < 0 THEN -n ELSE n

Until(rows, topic, stop) == SelectSeq(rows, LAMBDA r : r.topic = topic /\ r.t <= stop)

Ever == 100000

\* _boundary_for
BoundaryFor(rows, sc) ==
    IF sc.terminal = "ENCOUNTER_CLEAR_WITH_OWN_HOLD"
    THEN TargetResolution(rows, sc.minTransit, sc.dwell) ELSE OwnRecovery(rows, sc.minTransit)

ByTarget(sc) == sc.terminal = "ENCOUNTER_CLEAR_WITH_OWN_HOLD"

StopTime(b) == IF b.stop # None THEN b.stop ELSE IF b.avoid # None THEN b.avoid ELSE Ever
-----------------------------------------------------------------------------
(* What M6 demanded and what the ship did.                                  *)

Demands(rows, stop) == SelectSeq(Until(rows, "m6", stop),
                                 LAMBDA r : r.demand > 0 /\ r.dir \in {"STARBOARD", "PORT"})

Directions(rows, stop) == {r.dir : r \in ToSet(Demands(rows, stop))}

Required(rows, stop) == Max({r.demand : r \in ToSet(Demands(rows, stop))})

Onset(rows, stop) == Min({r.t : r \in ToSet(Demands(rows, stop))})

Signed(turn, dir) == IF dir = "STARBOARD" THEN turn ELSE -turn

\* The heading at the start of the avoidance, or the first there is.
BaseHeading(own, base) ==
    LET pre == {i \in DOMAIN own : own[i].t <= base}
    IN IF pre # {} THEN own[Max(pre)].hdg ELSE own[1].hdg

\* _realized_alteration_deg
Realized(rows, base, onset, stop, dir) ==
    LET own == OfTopic(rows, {"own"})
        window == {i \in DOMAIN own : onset <= own[i].t /\ own[i].t <= stop}
    IN IF window = {} THEN 0
       ELSE Max({0} \cup {Signed(Turn(BaseHeading(own, base), own[i].hdg), dir) : i \in window})

\* evaluate_fast's dynamic check: the demand met, in one direction.
DynamicOk(rows, b) ==
    LET stop == StopTime(b)
        dirs == Directions(rows, stop)
    IN CASE dirs = {} -> TRUE
         [] Cardinality(dirs) > 1 -> FALSE
         [] OTHER -> LET onset == Onset(rows, stop)
                         base == IF b.avoid # None THEN b.avoid ELSE onset
                         end == IF b.recovery # None THEN b.recovery ELSE stop
                     IN Realized(rows, base, onset, end, CHOOSE d \in dirs : TRUE) >= Required(rows, stop)

\* _stand_on_hold_before_t_act
HoldsBeforeAct(rows, b, sc) ==
    LET stop == StopTime(b)
        own == OfTopic(rows, {"own"})
        pre == {i \in DOMAIN own : own[i].t <= Onset(rows, stop)}
    IN sc.own = "STAND_ON" /\ Cardinality(Directions(rows, stop)) = 1
         => \A i \in pre : Size(Turn(own[1].hdg, own[i].hdg)) <= 10

\* _own_hold_through_stop
HoldsThrough(rows, stop) ==
    LET own == Until(rows, "own", stop)
    IN \A i \in DOMAIN own : Size(Turn(own[1].hdg, own[i].hdg)) <= 10

\* _target_actor_contract with _target_action_realized
TargetActs(rows, sc, stop) ==
    LET m2 == Until(rows, "m2", stop)
        effective == {i \in DOMAIN m2 : Turn(sc.heading, m2[i].hdg) >= sc.alteration
                                         /\ m2[i].cpa >= sc.targetCpa}
    IN CASE sc.target = "PASSIVE" -> TRUE
         [] sc.target = "GIVE_WAY_STARBOARD" ->
              sc.alteration > 0 /\ effective # {} /\ m2[Min(effective)].t <= sc.deadline
         [] sc.target = "HOLD" ->
              m2 # <<>> /\ \A i \in DOMAIN m2 : Size(Turn(sc.heading, m2[i].hdg)) <= 1
         [] OTHER -> FALSE
-----------------------------------------------------------------------------
(* The handoff of the route to the guidance.                                *)

InWindow(rows, topic, b) ==
    SelectSeq(rows, LAMBDA r : r.topic = topic /\ r.t >= b.avoid /\ (b.recovery = None \/ r.t <= b.recovery))

\* The first valid committed plan of the avoidance ("" if there is none).
Committed(rows, b) ==
    LET m5 == SelectSeq(InWindow(rows, "m5", b), LAMBDA r : r.valid)
    IN IF m5 = <<>> THEN "" ELSE m5[1].plan

Accepts(rows, b, plan) == \E r \in ToSet(InWindow(rows, "exec", b)) : r.plan = plan /\ r.accepted

Follows(rows, b, plan) == \E r \in ToSet(InWindow(rows, "route", b)) : r.plan = plan /\ r.points >= 2

\* The active route itself, or the acceptance when no active route can be placed.
RouteProven(rows, b, plan) ==
    \/ Follows(rows, b, plan)
    \/ InWindow(rows, "route", b) = <<>> /\ Accepts(rows, b, plan)

\* _evaluate_l4_handoff
HandoffOk(rows, b) ==
    b.avoid # None /\ Committed(rows, b) # ""
        => RouteProven(rows, b, Committed(rows, b)) /\ Accepts(rows, b, Committed(rows, b))

\* _no_tactical_route, _no_gnc_tactical_takeover
NoTacticalRoute(rows, stop) == \A r \in ToSet(Until(rows, "m5", stop)) : ~r.valid

NoTakeover(rows, stop) == \A r \in ToSet(Until(rows, "exec", stop)) : ~r.accepted
-----------------------------------------------------------------------------
(* The verdict.                                                             *)

\* evaluate_fast's checks, in the order of _STAGE_OF_CHECK.
Checks(rows, sc, mods, cpa) ==
    LET b == BoundaryFor(rows, sc)
        stop == StopTime(b)
        byTarget == ByTarget(sc)
    IN << <<"scenario_truth_locked", "SCENARIO", sc.locked>>,
          <<"transit_prefix_observed", "M4", TransitDuration(b) >= sc.minTransit>>,
          <<"avoidance_observed", "M4", byTarget \/ b.avoid # None>>,
          <<"m2_geometry_valid", "M2", mods["M2"]>>,
          <<"m6_rule_role_direction_valid", "M6", mods["M6"]>>,
          <<"stand_on_hold_before_t_act", "M6",
             IF byTarget THEN HoldsThrough(rows, stop) ELSE HoldsBeforeAct(rows, b, sc)>>,
          <<"target_actor_contract_realized", "INTEGRATION_HANDOFF", TargetActs(rows, sc, stop)>>,
          <<"dynamic_action_realized", "M6",
             IF byTarget THEN TargetActs(rows, sc, stop) ELSE DynamicOk(rows, b)>>,
          <<"m4_lifecycle_valid", "M4", IF byTarget THEN b.ready ELSE mods["M4"]>>,
          <<"m5_executable_route_valid", "M5", IF byTarget THEN NoTacticalRoute(rows, stop) ELSE mods["M5"]>>,
          <<"gnc_handoff_identity_valid", "L4_GNC",
             IF byTarget THEN NoTakeover(rows, stop) ELSE HandoffOk(rows, b)>>,
          <<"scenario_cpa_acceptance_met", "M8_EVALUATOR", cpa >= sc.floor>>,
          <<"m7_checker_closed", "M7", mods["M7"]>>,
          <<"m1_mrm_authority_valid", "M1", mods["M1"]>>,
          <<"first_recovery_boundary_observed", "M4", b.ready>>,
          <<"g_art", "M8_EVALUATOR", mods["M8"]>> >>

\* first_failure, first_broken_stage: the stage of the first failed check, "" if none.
FirstBrokenStage(checks) ==
    LET red == {i \in DOMAIN checks : ~checks[i][3]}
    IN IF red = {} THEN "" ELSE checks[Min(red)][2]

\* evaluate_fast_trace: the rows up to the boundary's stop.
FastRows(rows, sc) ==
    LET b == BoundaryFor(rows, sc)
    IN IF b.stop = None THEN rows ELSE SelectSeq(rows, LAMBDA r : r.t <= b.stop)

FastPass(rows, sc, mods, cpa) == FirstBrokenStage(Checks(FastRows(rows, sc), sc, mods, cpa)) = ""
-----------------------------------------------------------------------------

\* The handoff passes only for the plan M5 committed first: the guidance accepted
\* that plan, and whatever active route was seen in time includes it.
HandoffOfTheCommitted(rows, minTransit) ==
    LET b == OwnRecovery(rows, minTransit)
        plan == Committed(rows, b)
        routes == InWindow(rows, "route", b)
    IN b.avoid # None /\ plan # "" /\ HandoffOk(rows, b)
         => /\ Accepts(rows, b, plan)
            /\ routes # <<>> => \E r \in ToSet(routes) : r.plan = plan

\* A run passes only when the ship turned, from a heading it had before the avoidance,
\* as far as every demand M6 made before the recovery, and that way.
DemandWasMet(rows, sc, mods, cpa) ==
    LET b == OwnRecovery(rows, sc.minTransit) IN
    ~ByTarget(sc) /\ FastPass(rows, sc, mods, cpa) =>
        \A r \in ToSet(Demands(rows, b.stop)) :
            \E o \in ToSet(OfTopic(rows, {"own"})), c \in ToSet(OfTopic(rows, {"own"})) :
                /\ c.t <= b.avoid /\ o.t <= b.recovery
                /\ r.dir = "STARBOARD" => Turn(c.hdg, o.hdg) >= r.demand
                /\ r.dir = "PORT" => Turn(o.hdg, c.hdg) >= r.demand
-----------------------------------------------------------------------------
(* The time of a trace row.  The strict selector takes the first clock of    *)
(* the declared priority that the row has and maps it to the canonical time  *)
(* by the alignment of the row's run generation, or refuses the row; the     *)
(* legacy one takes the first positive clock.                               *)
(*                                                                          *)
(* A row is [clocks, gen, domain]: clocks a function from the sources it     *)
(* carries to a number or Bad.  An alignment is [gen, anchors, transforms,   *)
(* uncertain, priority], a transform [scale, offset, residual, count,        *)
(* domain, gen, valid].  Times are half seconds: MaxResidual is one.         *)

Bad == -999

MaxResidual == 1        \* MAX_TRANSFORM_RESIDUAL_S
MaxUncertainty == 2     \* MAX_EVENT_UNCERTAINTY_S

Distance(a, b) == IF a < b THEN b - a ELSE a - b

Accepted(t, source) == [ok |-> TRUE, t |-> t, source |-> source, reason |-> "none"]

Refused(source, reason) == [ok |-> FALSE, t |-> 0, source |-> source, reason |-> reason]

\* _anchors_are_valid: two or more pairs, all numbers.
AnchorsValid(anchors) ==
    Len(anchors) >= 2 /\ \A i \in DOMAIN anchors : anchors[i][1] # Bad /\ anchors[i][2] # Bad

\* The largest error of the transform at the anchors is within what it declares.
FitsAnchors(tf, anchors) ==
    /\ AnchorsValid(anchors) /\ tf.count = Len(anchors)
    /\ \A i \in DOMAIN anchors :
          Distance(tf.scale * anchors[i][1] + tf.offset, anchors[i][2]) <= tf.residual

\* Mutant: what the transform declares of itself is believed.
TransformBelieved(source, tf, al) ==
    /\ tf.valid /\ tf.domain # "" /\ tf.scale > 0
    /\ 0 <= tf.residual /\ tf.residual <= MaxResidual /\ tf.count >= 0 /\ tf.gen = al.gen

\* _transform_is_valid: sim_t is canonical and needs no anchors; any other clock does.
TransformIsValid(source, tf, al) ==
    /\ tf.valid /\ tf.domain # "" /\ tf.scale > 0
    /\ 0 <= tf.residual /\ tf.residual <= MaxResidual /\ tf.count >= 0 /\ tf.gen = al.gen
    /\ IF source = "sim_t"
       THEN tf.scale = 1 /\ tf.offset = 0 /\ (tf.count = 0 \/ FitsAnchors(tf, al.anchors))
       ELSE tf.count >= 2 /\ FitsAnchors(tf, al.anchors)

UsedClock(row, al) == DOMAIN row.clocks \cap ToSet(al.priority)

\* The highest in priority of a set of clocks.
First(sources, al) ==
    al.priority[Min({i \in DOMAIN al.priority : al.priority[i] \in sources})]

\* select_event_time, in the order of its refusals.
SelectEventTime(row, al) ==
    IF al.priority = <<>> \/ ~IsInjective(al.priority) THEN Refused("none", "source_priority_invalid")
    ELSE IF al.gen = Bad THEN Refused("none", "run_generation_mismatch")
    ELSE IF ~(0 <= al.uncertain /\ al.uncertain <= MaxUncertainty)
    THEN Refused("none", "uncertainty_invalid")
    ELSE IF DOMAIN row.clocks \ ToSet(al.priority) # {}
    THEN Refused("none", "source_priority_undeclared")
    ELSE IF UsedClock(row, al) = {} THEN Refused("none", "clock_missing")
    ELSE LET s == First(UsedClock(row, al), al)
             raw == row.clocks[s]
         IN IF raw = Bad THEN Refused(s, "invalid_declared_clock")
            ELSE IF s \notin DOMAIN al.transforms THEN Refused(s, "transform_unregistered")
            ELSE LET tf == al.transforms[s] IN
                 IF row.gen # al.gen \/ tf.gen # al.gen THEN Refused(s, "run_generation_mismatch")
                 ELSE IF row.domain = "" \/ row.domain # tf.domain
                 THEN Refused(s, "source_domain_mismatch")
                 ELSE IF ~TransformIsValid(s, tf, al) THEN Refused(s, "transform_invalid")
                 ELSE Accepted(tf.scale * raw + tf.offset, s)

\* select_sequence: one refusal, or one step back, refuses the sequence.
SelectSequence(rows, al) ==
    /\ \A i \in DOMAIN rows : SelectEventTime(rows[i], al).ok
    /\ \A i \in 2..Len(rows) : SelectEventTime(rows[i], al).t >= SelectEventTime(rows[i - 1], al).t

\* event_time_s: the first positive clock, then the stamp, else zero.
LegacyClocks == <<"sim_t", "gnc_t", "source_t", "wall_t", "source_stamp">>

EventTimeS(row) ==
    LET usable == {i \in DOMAIN LegacyClocks :
                     /\ LegacyClocks[i] \in DOMAIN row.clocks
                     /\ row.clocks[LegacyClocks[i]] # Bad
                     /\ row.clocks[LegacyClocks[i]] > 0 \/ LegacyClocks[i] = "source_stamp"}
    IN IF usable = {} THEN 0 ELSE row.clocks[LegacyClocks[Min(usable)]]
-----------------------------------------------------------------------------

\* An accepted row was placed by its best clock, of its own run, and where that
\* clock was anchored the time is the anchor's, to within half a second: a stale,
\* foreign or overstated alignment places nothing.
PlacedByItsOwnClock(row, al) ==
    LET e == SelectEventTime(row, al) IN
    e.ok => /\ row.gen = al.gen
            /\ \A s \in DOMAIN row.clocks : s = e.source \/ s \notin ToSet(al.priority) \/
                  \E i, j \in DOMAIN al.priority :
                      i < j /\ al.priority[i] = e.source /\ al.priority[j] = s
            /\ e.source # "sim_t" => Len(al.anchors) >= 2 /\ \A i \in DOMAIN al.anchors :
                  al.anchors[i][1] = row.clocks[e.source] => Distance(e.t, al.anchors[i][2]) <= MaxResidual

\* Where the strict selector places a row by its simulation clock after the start, the
\* selector of the older callers places it at the same time.
LegacyAgrees(row, al) ==
    LET e == SelectEventTime(row, al) IN
    e.ok /\ e.source = "sim_t" /\ e.t > 0 => EventTimeS(row) = e.t

-----------------------------------------------------------------------------
(* The G-ART gate: what a report says of a run, against what the archived    *)
(* trace says: the least CPA, the first recovery or, where the target        *)
(* resolves the encounter, the moment M6 had been clear for the dwell.       *)
(* Three checkers: the plain one, the strict one, which places every row by  *)
(* the canonical clock and wants the report to name the record itself, and   *)
(* the one with the physical separation as a third witness.                  *)
(*                                                                          *)
(* Rows: scoring [cpa], m4 [beh], m6 [active]; t is event_time_s of the row. *)
(* Strict rows carry clocks, gen, domain and id as well (see above). Absent *)
(* is a value that is missing or no number.                                  *)

Absent == -1

CpaTolerance == 1
TimeTolerance == 1

Least(S) == IF S = {} THEN Absent ELSE Min(S)

Differ(a, b, tolerance) == a # Absent /\ b # Absent /\ Distance(a, b) > tolerance

RawMinCpa(rows) ==
    Least({rows[i].cpa : i \in {j \in DOMAIN rows : rows[j].topic = "scoring" /\ rows[j].cpa # Absent}})

Recoveries(rows) == {i \in DOMAIN rows : rows[i].topic = "m4" /\ rows[i].beh = 7}

RawRecoveryTime(rows) == Least({rows[i].t : i \in Recoveries(rows)})

\* Clear without a break for the dwell, after a conflict: the index, or 0.
ClearTerminal(rows, time, dwell) ==
    LET step(acc, i) ==
            CASE acc.found # 0 \/ rows[i].topic # "m6" -> acc
              [] rows[i].active -> [acc EXCEPT !.saw = TRUE, !.since = Absent]
              [] acc.saw /\ acc.since = Absent -> [acc EXCEPT !.since = time[i]]
              [] acc.saw /\ time[i] - acc.since >= dwell -> [acc EXCEPT !.found = i]
              [] OTHER -> acc
    IN FoldLeft(step, [saw |-> FALSE, since |-> Absent, found |-> 0],
                [i \in DOMAIN rows |-> i]).found

RawClearTerminal(rows, dwell) ==
    LET i == ClearTerminal(rows, [j \in DOMAIN rows |-> rows[j].t], dwell)
    IN IF i = 0 THEN Absent ELSE rows[i].t

\* The report admits that the end was not reached: no PASS, and a reason.
Honest(report) == ~report.pass /\ report.reason
-----------------------------------------------------------------------------
(* check_trace_artifacts                                                    *)

CheckTraceArtifacts(rows, report) ==
    LET cpa  == RawMinCpa(rows)
        raw  == IF report.byTarget THEN RawClearTerminal(rows, report.dwell) ELSE RawRecoveryTime(rows)
        said == IF report.byTarget THEN report.terminal ELSE report.recovery
        mismatch ==
            CASE raw = Absent /\ said # Absent -> TRUE
              [] raw = Absent -> ~report.byTarget /\ ~Honest(report)
              [] said = Absent -> report.byTarget
              [] OTHER -> Distance(said, raw) > TimeTolerance
        consistent == ~Differ(report.cpa, cpa, CpaTolerance) /\ ~mismatch
        \* a claimed recovery that is not there is a mismatch and not listed as missing
        complete == cpa # Absent /\ (raw = Absent => ~report.byTarget /\ said # Absent)
    IN [consistent |-> consistent, complete |-> complete, ok |-> consistent /\ complete]
-----------------------------------------------------------------------------
(* check_trace_artifacts_strict                                             *)

Times(rows, al) == [i \in DOMAIN rows |-> SelectEventTime(rows[i], al).t]

StrictTerminal(rows, report, al) ==
    LET time == Times(rows, al)
        rec  == {i \in Recoveries(rows) : \A j \in Recoveries(rows) : time[i] <= time[j]}
    IN IF report.byTarget THEN ClearTerminal(rows, time, report.dwell)
       ELSE IF rec = {} THEN 0 ELSE Min(rec)

\* _typed_report_time: the report's time is one of a record of the trace, by the same
\* clock, and the alignment gives it again from the raw value.
TypedReportTime(v, rows, al) ==
    /\ v.source \in DOMAIN al.transforms
    /\ v.canonical = al.transforms[v.source].scale * v.raw + al.transforms[v.source].offset
    /\ LET again == [clocks |-> [s \in {v.source} |-> v.raw], gen |-> al.gen,
                     domain |-> al.transforms[v.source].domain]
           mine == {i \in DOMAIN rows : rows[i].id = v.id} IN
       /\ SelectEventTime(again, al).ok
       /\ Cardinality(mine) = 1
       /\ \A i \in mine : SelectEventTime(rows[i], al).source = v.source /\ rows[i].clocks[v.source] = v.raw

\* Mutant: any record at about that time will do.
TypedTimesNear(v, row, al) ==
    Distance(v.canonical, SelectEventTime(row, al).t) <= 2 * al.uncertain

\* _typed_times_match
TypedTimesMatch(v, row, al) ==
    LET e == SelectEventTime(row, al) IN
    /\ v.id = row.id /\ v.source = e.source /\ v.raw = row.clocks[e.source]
    /\ Distance(v.canonical, e.t) <= 2 * al.uncertain

\* report.said is "missing", "null" or "typed", and then report.typed is the typed time.
CheckStrict(rows, report, al) ==
    IF ~SelectSequence(rows, al) THEN [consistent |-> FALSE, complete |-> FALSE, ok |-> FALSE]
    ELSE LET k     == StrictTerminal(rows, report, al)
             null  == report.said = "null"
             typed == report.said = "typed"
             valid == null \/ (typed /\ TypedReportTime(report.typed, rows, al))
             cpa   == RawMinCpa(rows)
             mismatch == IF k = 0 THEN (typed /\ valid) \/ ~Honest(report)
                         ELSE ~(typed /\ valid) \/ ~TypedTimesMatch(report.typed, rows[k], al)
             consistent == valid /\ ~Differ(report.cpa, cpa, CpaTolerance) /\ ~mismatch
             complete   == valid /\ cpa # Absent /\ k # 0
         IN [consistent |-> consistent, complete |-> complete, ok |-> consistent /\ complete]
-----------------------------------------------------------------------------
(* check_qualified_artifacts: the separations pairwise, in metres.           *)

Missing == -2

\* q holds the least separations of the truth and of Scoring and what the report says
\* of each, and the first recoveries of the trace and of the report (raw, said): Absent
\* where the value is null, Missing where the report has no entry.

SeparationsDiffer(q, tolerance) ==
    \/ Differ(q.physical, q.scoring, tolerance)
    \/ Differ(q.physical, q.saidPhysical, tolerance)
    \/ Differ(q.scoring, q.saidScoring, tolerance)

CheckQualified(q, tolerance) ==
    LET none == q.said \in {Missing, Absent}
        consistent == /\ q.physical # Absent /\ ~SeparationsDiffer(q, tolerance)
                      /\ none \/ q.said = q.raw
        complete == /\ \A v \in {q.physical, q.scoring, q.saidPhysical, q.saidScoring} : v # Absent
                    /\ q.said # Missing /\ (q.raw = Absent <=> none)
    IN [consistent |-> consistent, complete |-> complete, ok |-> consistent /\ complete]
-----------------------------------------------------------------------------

\* A green gate: whatever the report says of the CPA and of the end of the encounter
\* the trace says too, to within the tolerance, the CPA being the least of all rows.
ReportReproduced(rows, report) ==
    CheckTraceArtifacts(rows, report).ok =>
        /\ \E i \in DOMAIN rows : rows[i].topic = "scoring" /\ rows[i].cpa # Absent
        /\ report.cpa # Absent => \A i \in DOMAIN rows :
              rows[i].topic = "scoring" /\ rows[i].cpa # Absent => rows[i].cpa + CpaTolerance >= report.cpa
        /\ ~report.byTarget /\ report.recovery # Absent =>
              /\ \E i \in Recoveries(rows) : Distance(rows[i].t, report.recovery) <= TimeTolerance
              /\ \A i \in Recoveries(rows) : rows[i].t + TimeTolerance >= report.recovery

\* The strict gate is green only for the very record that ended the encounter: an
\* earlier or later one at about the same time does not stand for it.
StrictNamesTheRecord(rows, report, al) ==
    CheckStrict(rows, report, al).ok =>
        /\ report.said = "typed"
        /\ rows[StrictTerminal(rows, report, al)].id = report.typed.id

\* Of a green gate the report's two separations, its own of the truth and of Scoring,
\* are those of one encounter, and so is its recovery: that of the trace, if any.
SeparationsAgree(q, tolerance) ==
    CheckQualified(q, tolerance).ok =>
        /\ Distance(q.saidPhysical, q.saidScoring) <= 3 * tolerance
        /\ Distance(q.physical, q.scoring) <= tolerance
        /\ q.said = q.raw
=============================================================================
