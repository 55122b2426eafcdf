---------------------------- MODULE ScenarioAudit ----------------------------
(***************************************************************************)
(* The audit of a COLREGs scenario before it is run: from the straight-line  *)
(* geometry, when M6 would begin to monitor and to act; from those windows   *)
(* the findings, the verdict on the scenario's intent and what to change.    *)
(*                                                                          *)
(* A scenario d holds its id's suffix, declared rule (0 if none), expected   *)
(* own action, labels, total time, visibility in metres, contract and        *)
(* geometry g: range, tcpa, dcpa, speed (relative, m/s), rel (bearing in     *)
(* half degrees, 0..719), and the two ships' speeds and courses.  Distances  *)
(* are compared as squares; findings and recommendations are their codes.    *)
(***************************************************************************)
EXTENDS Integers, Sequences, FiniteSets, FiniteSetsExt, SequencesExt

Never == -1
NoRule == 0

\* odd_a of the thresholds file, by _load_thresholds' defaults.
Thresholds == [monitor |-> 1500, plan |-> 720, soft |-> 2778, hard |-> 1852]

MinFreeApproach == 60
MinWarning == 60
MinReturn == 300
ShortTcpa == 900

Square(n) == n * n
NotBefore0(n) == IF n > 0 THEN n ELSE 0
-----------------------------------------------------------------------------
(* The encounter sector.                                                    *)

\* Degrees off the bow on either side, in half degrees: 0..360.
OffBow(rel) == LET r == rel % 720 IN IF r <= 360 THEN r ELSE 720 - r

ClassifySector(off) == IF off <= 12 THEN 14 ELSE IF off < 225 THEN 15 ELSE 13

\* Distance to the nearer of the two junctions.
BoundaryMargin(off) == Min({Max({off - 12, 12 - off}), Max({off - 225, 225 - off})})

\* _heading_diff_deg, without its sign.
HeadingDiff(a, b) == OffBow(a - b)

\* The dynamic override: a slower ship ahead on nearly the same course is overtaken.
CompiledRule(g) ==
    LET off == OffBow(g.rel)
    IN IF g.ownSpeed > g.tgtSpeed /\ HeadingDiff(g.ownCourse, g.tgtCourse) <= 60 /\ off < 180
       THEN 13 ELSE ClassifySector(off)

Interior(off) == BoundaryMargin(off) >= 10

\* _normalize_declared_rule: Rule 17 is a role and names no sector.
DeclaredRule(rule) == IF rule \in {13, 14, 15} THEN rule ELSE NoRule
-----------------------------------------------------------------------------
(* The windows.                                                             *)

\* Mutant: the time is not cut at the start (one less, to tell it from Never).
TriggerTimeUncut(g, limit, cpa) ==
    IF g.dcpa >= cpa \/ g.tcpa < 0 THEN Never
    ELSE IF g.tcpa - limit < 0 THEN g.tcpa - limit - 1 ELSE g.tcpa - limit

\* _trigger_time: when TCPA will have come down to the limit.
TriggerTime(g, limit, cpa) ==
    IF g.dcpa >= cpa \/ g.tcpa < 0 THEN Never ELSE NotBefore0(g.tcpa - limit)

MonitorTime(g) == TriggerTime(g, Thresholds.monitor, Thresholds.soft)
ActiveTime(g)  == TriggerTime(g, Thresholds.plan, Thresholds.hard)

InitialBucket(g) ==
    CASE ActiveTime(g) = 0      -> "ACTIVE"
      [] MonitorTime(g) = 0     -> "PREPLAN"
      [] MonitorTime(g) # Never -> "FREE_APPROACH"
      [] OTHER                  -> "OUTSIDE_COLREG_WINDOW"

\* The range at which TCPA is the limit, squared.
RequiredRange2(g, limit) == Square(g.dcpa) + Square(g.speed * limit)

PhaseWindows(d) ==
    LET g == d.g IN
    [ bucket  |-> InitialBucket(g),
      free    |-> IF MonitorTime(g) # Never THEN MonitorTime(g) ELSE NotBefore0(d.total),
      warning |-> IF MonitorTime(g) # Never /\ ActiveTime(g) # Never
                  THEN NotBefore0(ActiveTime(g) - MonitorTime(g)) ELSE Never,
      \* no window when the scenario gives no total time
      post    |-> IF d.total > 0 THEN {d.total - g.tcpa} ELSE {} ]

\* _stage_coverage: what of the five stages the scenario can show.
StageCoverage(d) ==
    [ approach  |-> d.route /\ d.target,
      trigger   |-> d.rules /\ d.g.tcpa > 0,
      avoidance |-> d.action \in {"turn_starboard", "turn_port"} \/ d.delta # 0 \/ d.policy,
      release   |-> d.compliance /\ d.floor > 0,
      return    |-> d.returnStated /\ (d.returnRequired \/ d.overtakeRequired \/ d.corridor) ]

\* CPA_PROFILE_CONTRACTS in units of 90 m: acceptance, onset, release, emergency.
Contracts ==
    [p \in {"close_start_4L", "overtake_4L", "crossing_20L", "boundary_6L", "standon_4L", "overtake_6L"} |->
        CASE p = "crossing_20L" -> <<10, 10, 10, 2>>
          [] p \in {"boundary_6L", "overtake_6L"} -> <<3, 3, 3, 2>>
          [] OTHER -> <<2, 2, 2, 2>>]

CpaContract(d) ==
    CASE d.profile \notin DOMAIN Contracts       -> "unknown_profile"
      [] d.contract = <<>>                       -> "missing"
      [] d.contract # Contracts[d.profile]       -> "mismatch"
      [] OTHER                                   -> "ok"
-----------------------------------------------------------------------------
(* Findings, intent and recommendations.                                    *)

BeyondVisibility(d, limit) == d.visibility > 0 /\ RequiredRange2(d.g, limit) > Square(d.visibility)

Findings(d) ==
    LET g == d.g
        w == PhaseWindows(d)
        when(cond, code) == IF cond THEN {code} ELSE {}
    IN  when(d.labelShort /\ g.tcpa > ShortTcpa, "SHORT_TCPA_LABEL_GEOMETRY_MISMATCH")
        \cup when(d.labelNear /\ g.range > 1200, "INSIDE_1KM_LABEL_GEOMETRY_MISMATCH")
        \cup when(w.bucket = "ACTIVE", "IMMEDIATE_ACTIVE_WINDOW")
        \cup when(w.bucket = "ACTIVE" /\ w.free < MinFreeApproach, "NO_REVIEWABLE_FREE_APPROACH_WINDOW")
        \cup when(w.warning # Never /\ w.warning < MinWarning, "COMPRESSED_WARNING_TO_ACTIVE_WINDOW")
        \cup when(w.bucket # "PREPLAN" /\ BeyondVisibility(d, Thresholds.monitor),
                  "MONITOR_THRESHOLD_BEYOND_VISIBILITY")
        \cup when(BeyondVisibility(d, Thresholds.plan), "ACTIVE_THRESHOLD_BEYOND_VISIBILITY")
        \cup when(CpaContract(d) = "missing", "CPA_CONTRACT_MISSING")
        \cup when(CpaContract(d) = "mismatch", "CPA_CONTRACT_MISMATCH")
        \cup when(d.returnRequired /\ \E p \in w.post : p < MinReturn, "SHORT_POST_CPA_RETURN_WINDOW")
        \cup when(DeclaredRule(d.rule) \notin {NoRule, CompiledRule(g)}, "SCENARIO_ENCOUNTER_MISMATCH")
        \cup when(~Interior(OffBow(g.rel)), "BOUNDARY_SCENARIO")

IntentName(d) ==
    CASE d.suffix = "cs-2"                       -> "short_window"
      [] d.suffix \in {"cs-edge", "ot-boundary"} -> "classification_boundary"
      [] d.rule = 17                             -> "stand_on_late_action"
      [] d.rule = 13                             -> "overtake_completion"
      [] OTHER                                   -> "reviewable_long_approach"

IntentVerdict(d) ==
    LET name == IntentName(d) IN
    CASE "ACTIVE_THRESHOLD_BEYOND_VISIBILITY" \in Findings(d) /\ name = "classification_boundary"
                                                    -> "threshold_profile_conflict"
      [] "IMMEDIATE_ACTIVE_WINDOW" \in Findings(d)  -> "needs_yaml_or_threshold_review"
      [] name = "short_window" /\ d.g.tcpa > ShortTcpa -> "needs_yaml_geometry_repair"
      [] name = "stand_on_late_action" /\ d.action # "maintain" -> "needs_yaml_contract_review"
      [] OTHER                                      -> "reviewable"

Recommendations(d) ==
    LET found  == Findings(d)
        name   == IntentName(d)
        atOnce == "IMMEDIATE_ACTIVE_WINDOW" \in found
        beyond == "ACTIVE_THRESHOLD_BEYOND_VISIBILITY" \in found
        when(cond, code) == IF cond THEN {code} ELSE {}
    IN  when("INSIDE_1KM_LABEL_GEOMETRY_MISMATCH" \in found, "repair_metadata_geometry_label")
        \cup when("SHORT_TCPA_LABEL_GEOMETRY_MISMATCH" \in found
                    \/ (name = "short_window" /\ d.g.tcpa > ShortTcpa), "repair_short_window_geometry")
        \cup when(name = "reviewable_long_approach" /\ atOnce, "increase_initial_range_or_reduce_closing_speed")
        \cup when(name = "short_window" /\ atOnce, "keep_short_but_nonzero_pre_active_window")
        \cup when(name = "classification_boundary" /\ beyond, "review_threshold_profile_for_high_speed_boundary")
        \cup when(name = "classification_boundary" /\ ~beyond /\ atOnce, "add_boundary_pre_active_lead_in")
        \cup when(d.suffix = "ot-boundary" /\ d.action = "turn_starboard" /\ beyond,
                  "review_slow_down_seamanship_contract")
        \cup when(name = "stand_on_late_action" /\ (atOnce \/ ActiveTime(d.g) < 240), "ensure_pre_action_hold_window")
        \cup when(name = "overtake_completion" /\ atOnce, "add_overtake_approach_before_active")
        \cup when(found \cap {"CPA_CONTRACT_MISSING", "CPA_CONTRACT_MISMATCH"} # {}, "declare_profile_cpa_contract")

\* audit_scenario_file and the counts over a suite.
Audit(d) ==
    [ windows |-> PhaseWindows(d), findings |-> Findings(d), verdict |-> IntentVerdict(d),
      recommendations |-> Recommendations(d),
      complete |-> \A s \in DOMAIN StageCoverage(d) : StageCoverage(d)[s] ]

AuditSuite(ds) ==
    LET audits == {Audit(d) : d \in ds} IN
    [ complete  |-> \A a \in audits : a.complete,
      immediate |-> {d \in ds : PhaseWindows(d).bucket = "ACTIVE"},
      free      |-> {d \in ds : PhaseWindows(d).free >= MinFreeApproach},
      warned    |-> {d \in ds : PhaseWindows(d).warning >= MinWarning} ]
-----------------------------------------------------------------------------

\* _trigger_time and initial_fsm_bucket: on the straight line the DCPA stays and the TCPA
\* runs down, so the audit of the scenario as it stands t seconds later says ACTIVE
\* exactly from the foretold time on, and monitors exactly from its own; the monitor
\* window opens no later than the active one, and the range that is asked for to stay
\* out of ACTIVE is the range at which that is so.
TriggersAsForetold(g, times) ==
    /\ \A t \in times : t <= g.tcpa =>
        LET then == [g EXCEPT !.tcpa = @ - t] IN
        /\ InitialBucket(then) = "ACTIVE" <=> ActiveTime(g) # Never /\ t >= ActiveTime(g)
        /\ InitialBucket(then) \in {"ACTIVE", "PREPLAN"} <=> MonitorTime(g) # Never /\ t >= MonitorTime(g)
        /\ g.dcpa < Thresholds.hard /\ g.speed > 0 =>
            ( InitialBucket(then) = "ACTIVE" <=>
                Square(g.dcpa) + Square(g.speed * then.tcpa) <= RequiredRange2(g, Thresholds.plan) )
    /\ ActiveTime(g) # Never => MonitorTime(g) # Never /\ MonitorTime(g) <= ActiveTime(g)

\* _boundary_margin: the rule of an interior bearing does not change when the bearing is
\* off by less than the margin, on either side and across the bow or the stern.
InteriorIsStable(rel) ==
    Interior(OffBow(rel)) => \A e \in -9..9 : ClassifySector(OffBow(rel + e)) = ClassifySector(OffBow(rel))

\* A scenario that starts inside the active window is never called reviewable and is told
\* what to change, whatever its intent, and no summary counts it as an approach that can
\* be reviewed.
ImmediateIsAnswered(d) ==
    LET audit == Audit(d)
        suite == AuditSuite({d})
    IN audit.windows.bucket = "ACTIVE" =>
        /\ audit.verdict # "reviewable"
        /\ audit.recommendations \ {"declare_profile_cpa_contract", "repair_metadata_geometry_label"} # {}
        /\ suite.immediate \cap (suite.free \cup suite.warned) = {}

-----------------------------------------------------------------------------
(* What configuring a scenario sets on the simulation nodes.  ROS parameters *)
(* stay set until they are set again: a scenario that does not state a field *)
(* leaves the value of an earlier one.                                      *)
(*                                                                          *)
(* A scenario is a record of the fields of its file; a field is the set of   *)
(* at most one value, {} when it is not stated.  One coordinate stands for   *)
(* latitude and longitude, headings are degrees, speeds knots in the file    *)
(* and 0.1 mm/s in the parameters.  A node's parameters are a set of pairs.  *)

Nodes == {"ship", "target", "env", "sensor", "fault", "manager"}

Seeded == {"target", "sensor", "env", "fault"}

\* Mutant: the offset is only set when the scenario has an origin of its own.
PositionOffsetIfOrigin(y) ==
    UNION {IF y.origin = {} THEN {<<"origin", p>>}
           ELSE UNION {{<<"origin", o>>, <<"offset", p - o>>} : o \in y.origin} : p \in y.pos}

\* The origin is the stated one or else the ship's place; the start is an offset from it.
PositionParams(y) ==
    UNION {UNION {{<<"origin", o>>, <<"offset", p - o>>} : o \in IF y.origin = {} THEN {p} ELSE y.origin}
              : p \in y.pos}

ShipParams(y) ==
    PositionParams(y)
    \cup {<<"psi0", 90 - h>> : h \in IF y.heading = {} THEN y.cog ELSE y.heading}
    \cup {<<"u0", 5144 * v>> : v \in y.sog}
    \cup {<<"n_rps_initial", n>> : n \in y.rps}

WithSeed(params, y) ==
    [n \in Nodes |-> params[n] \cup IF n \in Seeded THEN {<<"root_seed", s>> : s \in y.seed} ELSE {}]

\* _extract_injection_params
ExtractInjectionParams(y) ==
    WithSeed([n \in Nodes |->
        CASE n = "ship"    -> ShipParams(y)
          [] n = "target"  -> {<<"default_targets_json", t>> : t \in y.targets}
          [] n = "env"     -> {<<"wind_dir_deg", w>> : w \in y.windDir} \cup {<<"wind_speed_mps", w>> : w \in y.wind}
          [] n = "manager" -> {<<"scenario_id", i>> : i \in y.id}
          [] OTHER         -> {}], y)

\* _filter_injection_params_for_runtime_profile
ForProfile(params, profile) ==
    IF profile = "gnc" THEN [params EXCEPT !["ship"] = {}] ELSE params

\* _inject_params_to_node, for every node
SetParams(old, new) ==
    [n \in Nodes |-> {p \in old[n] : \A q \in new[n] : q[1] # p[1]} \cup new[n]]

\* The parameters after the scenarios of ys were configured one after the other.
Configured(ys, profile) ==
    FoldLeft(LAMBDA params, y : SetParams(params, ForProfile(ExtractInjectionParams(y), profile)),
             [n \in Nodes |-> {}], ys)

\* _build_ship_reset: what the GNC plant is reset to.
ShipReset(y) ==
    {[pos |-> p, heading |-> IF y.heading = {} THEN 0 ELSE CHOOSE h \in y.heading : TRUE,
      sog |-> IF y.sog = {} THEN 0 ELSE CHOOSE v \in y.sog : TRUE] : p \in y.pos}

\* Where ship_dynamics starts with its parameters.
Value(params, name) == {p[2] : p \in {q \in params : q[1] = name}}
-----------------------------------------------------------------------------

\* Whatever was configured before, a scenario that states place, heading and speed starts
\* the own ship there, in the simulator's own dynamics as in the GNC plant.
SameStart(ys) ==
    LET y == Last(ys)
        ship == Configured(ys, "sil")["ship"] IN
    ys # <<>> /\ y.heading # {} /\ y.sog # {} =>
        \A reset \in ShipReset(y) :
            /\ {o + x : o \in Value(ship, "origin"), x \in Value(ship, "offset")} = {reset.pos}
            /\ Value(ship, "psi0") = {90 - reset.heading}
            /\ Value(ship, "u0") = {5144 * reset.sog}

\* The nodes that draw at random are always seeded alike.
SeedIsShared(ys) ==
    \A profile \in {"sil", "gnc"}, m, n \in Seeded :
        Value(Configured(ys, profile)[m], "root_seed") = Value(Configured(ys, profile)[n], "root_seed")
=============================================================================
