-------------------------- MODULE OddEnvelopeManager --------------------------
(***************************************************************************)
(* M1: the ROS node OddEnvelopeManagerNode.  Its callbacks only store what  *)
(* the other modules sent; its 4 Hz main loop scores the situation, steps   *)
(* the envelope state machine, forces it to MrCPrep when the time left to   *)
(* decide (TDL) no longer covers the operator's take-over time (TMR), and   *)
(* publishes the ODD state, the mode command and the take-over request.     *)
(*                                                                          *)
(* One unit of time is one period of the main loop.  Ages of messages are   *)
(* counted by the main loop and stop at AgeCap, beyond every timeout.       *)
(* The node never assigns current_zone_ after construction: it is zone A.   *)
(***************************************************************************)
EXTENDS Integers

(* M1: the envelope state machine (class OddStateMachine).  The class keeps *)
(* one piece of state that matters, current_, owned by the M1 node; this    *)
(* module gives the transition function the node applies to it.             *)
(*                                                                          *)
(* Scores are whole percents (the code's doubles in [0, 1] times 100); NaN  *)
(* is a value of its own.  The code multiplies the score by up to three     *)
(* factors; to stay in the integers the product is kept scaled by 100^3 and *)
(* compared with thresholds scaled alike.                                   *)

CONSTANTS InToEdge,     \* thresholds_.in_to_edge, percent
          EdgeToOut,    \* thresholds_.edge_to_out, percent
          StaleFactor,  \* thresholds_.stale_degradation_factor, percent
          NaN           \* the score that is not a number

\* What OddStateMachine::create accepts.
ASSUME ThresholdsAssumption ==
    /\ InToEdge \in Nat /\ EdgeToOut \in Nat /\ StaleFactor \in Nat
    /\ EdgeToOut < InToEdge
    /\ 0 < StaleFactor /\ StaleFactor <= 100
    /\ NaN \notin 0..100

EnvelopeState == {"In", "Edge", "Out", "MrCPrep", "MrCActive", "Overridden"}

OddZone == {"A", "B", "C", "D"}

SystemHealth == {"Full", "Degraded", "Critical"}

Score == 0..100

EventFlags == [override_active : BOOLEAN, reflex_activation : BOOLEAN,
               m7_safety_critical : BOOLEAN, m7_safety_mrc_required : BOOLEAN,
               m2_input_stale : BOOLEAN, m7_input_stale : BOOLEAN]

M7HeartbeatLostFactor == 70

ZoneCFloor == 60

Scale == 1000000

-----------------------------------------------------------------------------

(* The handlers of the single states: eff is the scaled effective score,    *)
(* out the scaled edge_to_out in force, late says tdl_s <= tmr_s.           *)
HandleIn(eff, out) ==
    IF eff <= 0 \/ eff < out         THEN "Out"
    ELSE IF eff < InToEdge * Scale   THEN "Edge"
    ELSE "In"

HandleEdge(eff, out, late) ==
    IF eff >= InToEdge * Scale THEN "In"
    ELSE IF eff < out          THEN "Out"
    ELSE IF late               THEN "MrCPrep"
    ELSE "Edge"

\* Mutant: MrCPrep is never left.
HandleMrcPrepForGood(eff, out, late, ev) ==
    IF ev.m7_safety_mrc_required THEN "MrCActive" ELSE "MrCPrep"

HandleMrcPrep(eff, out, late, ev) ==
    LET mayLeave == ~ev.m7_safety_critical /\ ~late
    IN  IF ev.m7_safety_mrc_required             THEN "MrCActive"
        ELSE IF mayLeave /\ eff >= InToEdge * Scale THEN "In"
        ELSE IF mayLeave /\ eff >= out              THEN "Edge"
        ELSE "MrCPrep"

HandleMrcActive(eff, ev) ==
    IF ~ev.m7_safety_critical /\ eff >= InToEdge * Scale
    THEN "In" ELSE "MrCActive"

HandleOut(eff, out) ==
    IF eff >= InToEdge * Scale THEN "In"
    ELSE IF eff >= out         THEN "Edge"
    ELSE "Out"

(* Zone C raises the threshold below which the envelope is left. *)
EdgeToOutIn(zone) ==
    Scale * (IF zone = "C" /\ EdgeToOut < ZoneCFloor THEN ZoneCFloor ELSE EdgeToOut)

ComputeNext(current, eff, late, ev, zone) ==
    LET out == EdgeToOutIn(zone)
    IN  IF current = "In"             THEN HandleIn(eff, out)
        ELSE IF current = "Edge"      THEN HandleEdge(eff, out, late)
        ELSE IF current = "MrCPrep"   THEN HandleMrcPrep(eff, out, late, ev)
        ELSE IF current = "MrCActive" THEN HandleMrcActive(eff, ev)
        ELSE HandleOut(eff, out)      \* Out, and a released override

(* Degraded health, a stale M2 input and a lost M7 each cost a factor. *)
EffectiveScore(score, health, ev) ==
    score * (IF health = "Degraded" THEN StaleFactor ELSE 100)
          * (IF ev.m2_input_stale THEN StaleFactor ELSE 100)
          * (IF ev.m7_input_stale THEN M7HeartbeatLostFactor ELSE 100)

\* Mutants: half of M7's veto is forgotten, or the override comes after it.
StepOnMrcOnly(current, score, late, ev, zone, health) ==
    IF ev.override_active \/ ev.reflex_activation THEN "Overridden"
    ELSE IF score = NaN THEN "Out"
    ELSE IF ev.m7_safety_mrc_required THEN "MrCPrep"
    ELSE IF health = "Critical" THEN "MrCPrep"
    ELSE ComputeNext(current, EffectiveScore(score, health, ev), late, ev, zone)

StepVetoFirst(current, score, late, ev, zone, health) ==
    IF ev.m7_safety_critical \/ ev.m7_safety_mrc_required THEN "MrCPrep"
    ELSE IF ev.override_active \/ ev.reflex_activation THEN "Overridden"
    ELSE IF score = NaN THEN "Out"
    ELSE IF health = "Critical" THEN "MrCPrep"
    ELSE ComputeNext(current, EffectiveScore(score, health, ev), late, ev, zone)

(* step(): override, NaN, M7's veto and critical health are decided before  *)
(* the score is looked at, in this order.                                   *)
Step(current, score, late, ev, zone, health) ==
    IF ev.override_active \/ ev.reflex_activation THEN "Overridden"
    ELSE IF score = NaN THEN "Out"
    ELSE IF ev.m7_safety_critical \/ ev.m7_safety_mrc_required THEN "MrCPrep"
    ELSE IF health = "Critical" THEN "MrCPrep"
    ELSE ComputeNext(current, EffectiveScore(score, health, ev), late, ev, zone)

-----------------------------------------------------------------------------
(* M1: ConformanceScoreCalculator.  Three axes (environment, task, human)   *)
(* are scored in steps, weighted, and smoothed by an exponential moving     *)
(* average.  All scores are whole percents.                                 *)
(*                                                                          *)
(* Visibility and sea state enter only through the configured thresholds,   *)
(* so each is the band it falls in: 3 = full, 2 = degraded, 1 = marginal,   *)
(* 0 = beyond marginal (NaN compares false with everything: band 0).        *)

CONSTANT TauTicks   \* ema.tau_s / the main loop period

ASSUME TauAssumption == TauTicks \in Nat \ {0}

Band == 0..3

\* diag is the diagnostics' part of the input, which the M1 node fills in.
ScoringInputs == [visibility : Band, sea_state : Band, gnss_quality_good : BOOLEAN,
                  radar_health_ok : BOOLEAN, comm_ok : BOOLEAN, comm_delay_ok : BOOLEAN,
                  any_sensor_critical : BOOLEAN, tmr_available : BOOLEAN]

(* Full and degraded conformance need both measures, marginal only one. *)
EvaluateEScore(in) ==
    IF in.visibility >= 3 /\ in.sea_state >= 3 THEN 100
    ELSE IF in.visibility >= 2 /\ in.sea_state >= 2 THEN 70
    ELSE IF in.visibility >= 1 \/ in.sea_state >= 1 THEN 40
    ELSE 0

EvaluateTScore(in) ==
    IF in.any_sensor_critical \/ ~in.comm_delay_ok THEN 30
    ELSE IF in.gnss_quality_good /\ in.radar_health_ok /\ in.comm_ok THEN 100
    ELSE 60

EvaluateHScore(in) == IF in.tmr_available /\ in.comm_ok THEN 100 ELSE 50

(* The weighted sum; every term is a multiple of 100, so nothing is rounded. *)
Compute(in) ==
    (40 * EvaluateEScore(in) + 30 * EvaluateTScore(in) + 30 * EvaluateHScore(in)) \div 100

\* Mutant: only the old value is weighted.
ComputeWithEmaUnweighted(filtered, in) ==
    Compute(in) + ((TauTicks - 1) * filtered) \div TauTicks

(* alpha = dt / tau = 1 / TauTicks; rounded down to a whole percent.         *)
ComputeWithEma(filtered, in) ==
    (Compute(in) + (TauTicks - 1) * filtered) \div TauTicks

-----------------------------------------------------------------------------
(* M1: TmrTdlEstimator.  TDL is how long the automation can still decide,   *)
(* TMR how long the operator needs to take over; M1 compares the two.  All  *)
(* times are in periods of M1's main loop (0.25 s).                         *)

CONSTANTS TmrMin, TmrMax,   \* tmr_min_s, tmr_max_s
          TdlMin, TdlMax,   \* tdl_min_s, tdl_max_s
          TorMatrix,        \* operator state -> tmr_s (tor_matrix)
          TmrBaseline       \* tmr_baseline_s

\* What TmrTdlEstimator::create accepts, on whole periods.
ASSUME TmrTdlAssumption ==
    /\ TmrMin \in Nat /\ TmrMax \in Nat /\ TmrMin < TmrMax
    /\ TdlMin \in Nat /\ TdlMax \in Nat /\ TdlMin < TdlMax
    /\ TmrBaseline \in Nat \ {0}
    /\ \A o \in DOMAIN TorMatrix : TorMatrix[o] \in Nat

OperatorState == DOMAIN TorMatrix

\* Periods of the main loop per second.
Hz == 4

Clamp(x, lo, hi) == IF x < lo THEN lo ELSE IF x > hi THEN hi ELSE x

\* M1 always passes a round-trip time of zero: the best communication window.
CommWindowBest == 300 * Hz

EstimateTSysHealth(mttf, faults, redundancy) ==
    IF ~redundancy THEN 30 * Hz
    ELSE IF faults > 0 THEN 60 * Hz
    ELSE IF mttf > 3600 * Hz
         THEN IF mttf \div 10 > 300 * Hz THEN 300 * Hz ELSE mttf \div 10
    ELSE 120 * Hz

(* A table entry that is zero falls back to the baseline. *)
LookupTorTmr(op) == IF TorMatrix[op] > 0 THEN TorMatrix[op] ELSE TmrBaseline

ComputeTmr(op) == Clamp(LookupTorTmr(op), TmrMin, TmrMax)

Lesser(a, b) == IF a <= b THEN a ELSE b

(* tcpa * 0.6, the communication window, the system's health and, once one   *)
(* has been estimated, the mean time to failure bound the time left.         *)
ComputeTdl(tcpa, mttf, faults, redundancy) ==
    LET bound == Lesser((tcpa * 6) \div 10,
                        Lesser(CommWindowBest, EstimateTSysHealth(mttf, faults, redundancy)))
    IN  Clamp(IF mttf > 0 THEN Lesser(bound, mttf) ELSE bound, TdlMin, TdlMax)
-----------------------------------------------------------------------------
(* The node.                                                               *)

CONSTANTS ScoringCases,     \* what environment, own ship and diagnostics can say
          Alerts,           \* severities M7 can alert with
          Tcpas,            \* smallest non-negative TCPA a world state can hold
          Operators,        \* operator states M8 can report
          Goals,            \* mission goals M3 can publish
          AlertTimeout,     \* kM7AlertTimeoutS
          WorldTimeout,     \* kWorldStateTimeoutS
          HeartbeatTimeout, \* M7_HEARTBEAT_TIMEOUT
          AgeCap,           \* bound: ages are not counted beyond it
          Uptime,           \* age of the clock's epoch when M1 starts
          StaleThreshold,   \* m3_route_stale_threshold_s
          DurationCap,      \* bound: m3_active_duration_s_ is not counted beyond it
          Redundancy        \* redundancy_enabled

Severity == {"INFO", "WARNING", "CRITICAL", "MRC_REQUIRED"}

MissionGoal == [active : BOOLEAN, valid : BOOLEAN]

ASSUME NodeAssumption ==
    /\ ScoringCases \subseteq ScoringInputs
    /\ Alerts \subseteq Severity
    /\ Tcpas \subseteq Nat
    /\ Operators \subseteq OperatorState /\ "Bridge_OnDuty" \in OperatorState
    /\ Goals \subseteq MissionGoal
    /\ AlertTimeout \in Nat /\ WorldTimeout \in Nat /\ HeartbeatTimeout \in Nat
    /\ AgeCap \in Nat /\ Uptime \in Nat
    /\ AlertTimeout < AgeCap /\ WorldTimeout < AgeCap /\ HeartbeatTimeout < AgeCap
    /\ StaleThreshold \in Nat /\ DurationCap \in Nat /\ StaleThreshold < DurationCap
    /\ Redundancy \in BOOLEAN

Never == -1   \* the age of a message that has not come

None == "none"

NoGoal == [active |-> FALSE, valid |-> FALSE]

NoTcpa == 9999 * Hz

VARIABLES current,          \* state_machine_->current()
          ema,              \* conformance_ema_.filtered_value
          scoring,          \* last_env_state_, last_own_ship_, last_diagnostics_
          alert,            \* last_safety_alert_->severity
          alertAge,         \* now - last_safety_alert_received_
          tcpa,             \* compute_min_tcpa() of last_world_state_
          worldAge,         \* now - last_world_state_received_
          hbAge,            \* now - last_m7_heartbeat_
          prevHbAge,        \* now - prev_m7_heartbeat_
          hasPrev,          \* has_prev_m7_heartbeat_
          mttf,             \* mttf_rolling_avg_s_
          override_active,  \* override_active_
          reflex_active,    \* reflex_active_
          operator,         \* current_operator_state_
          goal,             \* last_mission_goal_
          m3Duration,       \* m3_active_duration_s_
          concernEmitted,   \* watchdog_concern_emitted_
          lastTdl, lastTmr, \* last_tmr_tdl_
          odd,              \* envelope_state last published on /l3/m1/odd_state
          mode,             \* mode last published on /l3/m1/mode_cmd
          tor,              \* the last main loop published a take-over request
          concern           \* the last main loop published a safety concern

inputs == <<scoring, alert, tcpa, override_active, reflex_active, operator, goal>>
clocks == <<alertAge, worldAge, hbAge, prevHbAge, hasPrev, mttf>>
fsm    == <<current, ema, lastTdl, lastTmr>>
watch  == <<m3Duration, concernEmitted>>
output == <<odd, mode, tor, concern>>
vars   == <<inputs, clocks, fsm, watch, output>>

Init ==
    /\ current = "In" /\ ema = 100
    /\ scoring = [visibility |-> 3, sea_state |-> 3, gnss_quality_good |-> FALSE,
                  radar_health_ok |-> FALSE, comm_ok |-> FALSE, comm_delay_ok |-> FALSE,
                  any_sensor_critical |-> TRUE, tmr_available |-> FALSE]
    /\ alert = None /\ alertAge = Never
    /\ tcpa = NoTcpa /\ worldAge = Never
    /\ hbAge = Never /\ prevHbAge = Never /\ hasPrev = FALSE /\ mttf = 0
    /\ override_active = FALSE /\ reflex_active = FALSE
    /\ operator = "Bridge_OnDuty"
    /\ goal = NoGoal /\ m3Duration = 0 /\ concernEmitted = FALSE
    /\ lastTdl = 0 /\ lastTmr = 0
    /\ odd = None /\ mode = None /\ tor = FALSE /\ concern = FALSE
-----------------------------------------------------------------------------

(* Subscriber callbacks.  An alert counts as a sign of life of M7. *)
OnSafetyAlert(severity) ==
    /\ alert' = severity
    /\ alertAge' = 0
    /\ hbAge' = 0
    /\ UNCHANGED <<scoring, tcpa, override_active, reflex_active, operator, goal,
                   worldAge, prevHbAge, hasPrev, mttf, fsm, watch, output>>

\* The code's clock starts at an epoch of its own: an unset time lies Uptime back.
Elapsed(age) == IF age = Never THEN Uptime ELSE age

(* The interval is taken from the beat before the last one. *)
OnM7Heartbeat ==
    /\ mttf' = IF hasPrev THEN (Elapsed(prevHbAge) + 4 * mttf) \div 5 ELSE mttf
    /\ prevHbAge' = hbAge
    /\ hasPrev' = TRUE
    /\ hbAge' = 0
    /\ UNCHANGED <<inputs, alertAge, worldAge, fsm, watch, output>>

OnReflexActivation(freeze) ==
    /\ reflex_active' = freeze
    /\ UNCHANGED <<scoring, alert, tcpa, override_active, operator, goal,
                   clocks, fsm, watch, output>>

OnOverrideSignal(active) ==
    /\ override_active' = active
    /\ UNCHANGED <<scoring, alert, tcpa, reflex_active, operator, goal,
                   clocks, fsm, watch, output>>

(* The environment, own-ship and diagnostics callbacks. *)
OnScoringInputs(s) ==
    /\ scoring' = s
    /\ UNCHANGED <<alert, tcpa, override_active, reflex_active, operator, goal,
                   clocks, fsm, watch, output>>

OnWorldState(t) ==
    /\ tcpa' = t
    /\ worldAge' = 0
    /\ UNCHANGED <<scoring, alert, override_active, reflex_active, operator, goal,
                   alertAge, hbAge, prevHbAge, hasPrev, mttf, fsm, watch, output>>

OnOperatorState(o) ==
    /\ operator' = o
    /\ UNCHANGED <<scoring, alert, tcpa, override_active, reflex_active, goal,
                   clocks, fsm, watch, output>>

\* Mutants: the flag survives a valid goal; every goal restarts the watchdog.
OnMissionGoalKeepingFlag(g) ==
    /\ goal' = g
    /\ m3Duration' = IF g.valid THEN 0 ELSE m3Duration
    /\ UNCHANGED <<scoring, alert, tcpa, override_active, reflex_active, operator,
                   concernEmitted, clocks, fsm, output>>

OnMissionGoalRestarting(g) ==
    /\ goal' = g
    /\ m3Duration' = 0 /\ concernEmitted' = FALSE
    /\ UNCHANGED <<scoring, alert, tcpa, override_active, reflex_active, operator,
                   clocks, fsm, output>>

OnMissionGoal(g) ==
    /\ goal' = g
    /\ IF g.valid THEN m3Duration' = 0 /\ concernEmitted' = FALSE
                  ELSE UNCHANGED watch
    /\ UNCHANGED <<scoring, alert, tcpa, override_active, reflex_active, operator,
                   clocks, fsm, output>>
-----------------------------------------------------------------------------

(* The main loop. *)
ScoreToHealth(score) ==
    IF score >= 70 THEN "Full" ELSE IF score >= 30 THEN "Degraded" ELSE "Critical"

EnvelopeToMode(state) ==
    IF state \in {"In", "Edge"}   THEN "NORMAL"
    ELSE IF state = "Out"         THEN "LIMITED"
    ELSE IF state = "MrCPrep"     THEN "DEGRADED"
    ELSE "EMERGENCY"              \* MrCActive and Overridden

M7Critical == alert = "CRITICAL"

\* M7's verdict replaces what the diagnostics say about critical sensors.
BuildScoringInputs == [scoring EXCEPT !.any_sensor_critical = M7Critical]

(* M7 counts as stale when its last alert is old or its heartbeat is. *)
BuildEventFlags ==
    [override_active        |-> override_active,
     reflex_activation      |-> reflex_active,
     m7_safety_critical     |-> M7Critical,
     m7_safety_mrc_required |-> alert = "MRC_REQUIRED",
     m2_input_stale         |-> worldAge > WorldTimeout,
     m7_input_stale         |-> \/ alertAge > AlertTimeout
                                \/ Elapsed(hbAge) > HeartbeatTimeout]

ForcedFlags ==
    [override_active |-> FALSE, reflex_activation |-> FALSE,
     m7_safety_critical |-> FALSE, m7_safety_mrc_required |-> TRUE,
     m2_input_stale |-> FALSE, m7_input_stale |-> FALSE]

M3ActiveAndNotValid == goal.active /\ ~goal.valid

(* The watchdog on M3: one concern per episode of an active, invalid goal. *)
WatchM3 ==
    LET grown == IF m3Duration < DurationCap THEN m3Duration + 1 ELSE m3Duration
        emit  == M3ActiveAndNotValid /\ grown > StaleThreshold /\ ~concernEmitted
    IN  /\ m3Duration' = IF M3ActiveAndNotValid THEN grown ELSE 0
        /\ concernEmitted' = IF M3ActiveAndNotValid
                             THEN concernEmitted \/ emit
                             ELSE concernEmitted /\ m3Duration = 0
        /\ concern' = emit

Older(age) == IF age = Never \/ age = AgeCap THEN age ELSE age + 1

AgeInputs ==
    /\ alertAge' = Older(alertAge)
    /\ worldAge' = Older(worldAge)
    /\ hbAge' = Older(hbAge)
    /\ prevHbAge' = Older(prevHbAge)
    /\ UNCHANGED <<hasPrev, mttf>>

(* stepped: what the state machine makes of the inputs.  forced: the node    *)
(* steps it once more, because TDL no longer covers TMR.                     *)
Stepped(score, late) ==
    Step(current, score, late, BuildEventFlags, "A", ScoreToHealth(score))

\* Mutant: a ship outside its envelope is left alone.
TorTriggerInside(stepped, late) ==
    late /\ stepped \notin {"Out", "MrCPrep", "MrCActive", "Overridden"}

TorTrigger(stepped, late) ==
    late /\ stepped \notin {"MrCPrep", "MrCActive", "Overridden"}

\* Mutant: the second step repeats the flags of the first.
ForcedSameFlags(stepped, score, late) ==
    IF TorTrigger(stepped, late)
    THEN Step(stepped, score, late, BuildEventFlags, "A", ScoreToHealth(score))
    ELSE stepped

Forced(stepped, score, late) ==
    IF TorTrigger(stepped, late)
    THEN Step(stepped, score, late, ForcedFlags, "A", ScoreToHealth(score))
    ELSE stepped

\* Mutant: the forced change of state is not published.
HandleStateChangeOnce(stepped, final) ==
    IF stepped # current
    THEN odd' = stepped /\ mode' = EnvelopeToMode(stepped)
    ELSE UNCHANGED <<odd, mode>>

(* Every change of state publishes the state and the mode that goes with it. *)
HandleStateChange(stepped, final) ==
    IF stepped # current \/ final # stepped
    THEN odd' = final /\ mode' = EnvelopeToMode(final)
    ELSE UNCHANGED <<odd, mode>>

OnMainLoopTick ==
    LET score   == ComputeWithEma(ema, BuildScoringInputs)
        tdl     == ComputeTdl(tcpa, mttf, IF M7Critical THEN 1 ELSE 0, Redundancy)
        tmr     == ComputeTmr(operator)
        late    == tdl <= tmr
        stepped == Stepped(score, late)
        final   == Forced(stepped, score, late)
    IN  /\ ema' = score
        /\ lastTdl' = tdl /\ lastTmr' = tmr
        /\ WatchM3
        /\ current' = final
        /\ HandleStateChange(stepped, final)
        /\ tor' = TorTrigger(stepped, late)
        /\ AgeInputs
        /\ UNCHANGED inputs

(* The 1 Hz publication of the ODD state. *)
OnOddStatePublishTick ==
    /\ odd' = current
    /\ UNCHANGED <<inputs, clocks, fsm, watch, mode, tor, concern>>
-----------------------------------------------------------------------------

Next ==
    \/ \E a \in Alerts : OnSafetyAlert(a)
    \/ OnM7Heartbeat
    \/ \E b \in BOOLEAN : OnReflexActivation(b) \/ OnOverrideSignal(b)
    \/ \E s \in ScoringCases : OnScoringInputs(s)
    \/ \E t \in Tcpas : OnWorldState(t)
    \/ \E o \in Operators : OnOperatorState(o)
    \/ \E g \in Goals : OnMissionGoal(g)
    \/ OnMainLoopTick
    \/ OnOddStatePublishTick

\* The timers of the executor keep firing.
Fairness == WF_vars(OnMainLoopTick) /\ WF_vars(OnOddStatePublishTick)

Spec == Init /\ [][Next]_vars /\ Fairness
-----------------------------------------------------------------------------

Age == {Never} \cup 0..AgeCap

\* Type invariant of the node's state.
TypeOK ==
    /\ current \in EnvelopeState
    /\ ema \in Score
    /\ scoring \in ScoringInputs
    /\ alert \in Alerts \cup {None}
    /\ alertAge \in Age /\ worldAge \in Age /\ hbAge \in Age /\ prevHbAge \in Age
    /\ tcpa \in Nat /\ mttf \in Nat /\ hasPrev \in BOOLEAN
    /\ override_active \in BOOLEAN /\ reflex_active \in BOOLEAN
    /\ operator \in OperatorState
    /\ goal \in MissionGoal
    /\ m3Duration \in 0..DurationCap /\ concernEmitted \in BOOLEAN
    /\ lastTdl \in Nat /\ lastTmr \in Nat
    /\ odd \in EnvelopeState \cup {None}
    /\ mode \in {None, "NORMAL", "LIMITED", "DEGRADED", "EMERGENCY"}
    /\ tor \in BOOLEAN /\ concern \in BOOLEAN

Ticked == lastTmr > 0

(* Whatever order alerts, overrides and scores came in: when the last main   *)
(* loop saw TDL <= TMR, the envelope is neither In, Edge nor Out (the state  *)
(* machine alone lets In, Out and a released override pass; the forced step  *)
(* of on_main_loop_tick must catch them).                                    *)
DeadlineHeld ==
    Ticked /\ lastTdl <= lastTmr => current \in {"MrCPrep", "MrCActive", "Overridden"}

(* What M1 last told the others is the state it is in: no change of state,   *)
(* the forced one included, goes without an ODD state and a mode command.    *)
PublishedAgrees ==
    /\ odd \in {None, current}
    /\ IF mode = None THEN current = "In" ELSE mode = EnvelopeToMode(current)

(* A take-over request is only ever published together with MrCPrep.         *)
TorMeansMrcPrep == tor => current = "MrCPrep"

(* The watchdog on M3 has reported exactly the episodes that outlast the     *)
(* threshold: the flag cannot survive a reset of the duration, which would   *)
(* silence the next episode, nor be lost while the episode lasts, which      *)
(* would report it twice.                                                    *)
ConcernOncePerEpisode == concernEmitted <=> m3Duration > StaleThreshold

(* "From MRC_Prep, m7_safety_mrc_required -> MRC_Active"                     *)
(* (test_odd_state_machine.cpp:169): in MrCPrep, with MRC_REQUIRED standing  *)
(* and nobody overriding, a main loop activates the MRC.                     *)
MrcRequiredActivates ==
    [][ (OnMainLoopTick /\ current = "MrCPrep" /\ alert = "MRC_REQUIRED"
          /\ ~override_active /\ ~reflex_active) => current' = "MrCActive" ]_vars

(* What refutes it: step() answers every MRC_REQUIRED with MrCPrep before    *)
(* handle_mrc_prep_state can activate the MRC, so the sixth state is dead.   *)
MrcActiveUnreached == current # "MrCActive"

(* With M7's veto standing and nobody overriding, a main loop can only end   *)
(* in MrCPrep, however good the score and the time left.                     *)
VetoHolds ==
    [][ (OnMainLoopTick /\ alert \in {"CRITICAL", "MRC_REQUIRED"})
          => current' \in {"MrCPrep", "Overridden"} ]_vars

(* A mission goal that stays active and invalid is reported, and stays so.   *)
StaleGoalReported == <>[]M3ActiveAndNotValid => <>[]concernEmitted

(* An override or a reflex that lasts reaches the envelope state.            *)
OverrideReaches ==
    <>[](override_active \/ reflex_active) => <>[](current = "Overridden" /\ odd = "Overridden")

(* Once M7's alert stands at WARNING or below, M7 beats, the inputs are      *)
(* fresh and good and TDL covers TMR for good, M1 returns to In.             *)
Clear == /\ alert \in {None, "INFO", "WARNING"}
         /\ ~override_active /\ ~reflex_active
         /\ ~BuildEventFlags.m7_input_stale /\ ~BuildEventFlags.m2_input_stale
         /\ Compute(BuildScoringInputs) = 100
         /\ ComputeTdl(tcpa, mttf, 0, Redundancy) > ComputeTmr(operator)

Recovers == <>[]Clear => <>[](current = "In")
=============================================================================
