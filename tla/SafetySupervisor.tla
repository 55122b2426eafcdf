--------------------------- MODULE SafetySupervisor ---------------------------
(***************************************************************************)
(* M7: SafetySupervisorNode.  One action per subscription and one for the   *)
(* main loop timer; time goes by with the main loop, one period a tick.     *)
(* Handlers are atomic here: the overlap of the events group with the main  *)
(* loop is in CheckerVetoCounter.                                           *)
(*                                                                          *)
(* Left out: the heartbeat, SAT and ASDR publications, which carry nothing  *)
(* of the state below; VetoHandler, whose rate nothing reads;               *)
(* on_safety_concern, which only logs.  Whether the CPA trend of the        *)
(* performance monitor is degrading is a free choice at every tick.         *)
(***************************************************************************)
EXTENDS Integers, FiniteSets, SlidingWindow15s

(* M7: iec61508::WatchdogMonitor.  For each monitored module the monitor    *)
(* keeps whether it was ever heard, how long ago, and how many evaluations  *)
(* in a row found it overdue.  Ages are in periods of M7's main loop.       *)

CONSTANTS Modules,     \* MonitoredModule
          Timeout,     \* cfg_.timeout_ms, per module, in periods
          Tolerance,   \* cfg_.tolerance_count, per module
          SilenceCap,  \* bound: ages are not counted beyond it
          LossCap      \* bound: losses are not counted beyond it

ASSUME WatchdogAssumption ==
    /\ IsFiniteSet(Modules)
    /\ Timeout \in [Modules -> Nat] /\ Tolerance \in [Modules -> Nat]
    /\ SilenceCap \in Nat /\ LossCap \in Nat
    /\ \A m \in Modules : Timeout[m] < SilenceCap /\ Tolerance[m] < LossCap

Watch == [heard : BOOLEAN, age : 0..SilenceCap, loss : 0..LossCap]

Unwatched == [m \in Modules |-> [heard |-> FALSE, age |-> 0, loss |-> 0]]

\* Mutant: a message does not end the row of losses.
OnMessageReceivedKeepingLoss(wd, m) ==
    [n \in Modules |-> IF n = m THEN [heard |-> TRUE, age |-> 0, loss |-> wd[m].loss] ELSE wd[n]]

OnMessageReceived(wd, m) ==
    [n \in Modules |-> IF n = m THEN [heard |-> TRUE, age |-> 0, loss |-> 0] ELSE wd[n]]

\* One period of the main loop goes by.
Waited(wd) ==
    [m \in Modules |-> [wd[m] EXCEPT !.age = IF @ < SilenceCap THEN @ + 1 ELSE @]]

Overdue(wd, m) == wd[m].heard /\ wd[m].age > Timeout[m]

\* Mutant: a loss is noted, not counted.
EvaluateFlagging(wd) ==
    [m \in Modules |-> [wd[m] EXCEPT !.loss = IF Overdue(wd, m) THEN 1 ELSE 0]]

(* evaluate() counts: two calls in the same period count twice. *)
Evaluate(wd) ==
    [m \in Modules |->
        [wd[m] EXCEPT !.loss = IF ~Overdue(wd, m) THEN 0
                               ELSE IF @ < LossCap THEN @ + 1 ELSE @]]

CriticalModules(wd) == {m \in Modules : wd[m].loss > Tolerance[m]}

-----------------------------------------------------------------------------
(* M7: sotif::AssumptionMonitor, the seven assumptions of safe operation.   *)
(* The communication link (the fifth) is always reported perfect by the     *)
(* node and never violated.  Times are in periods of M7's main loop.        *)

CONSTANTS AisDuration,     \* cfg_.ais_radar_duration_threshold
          MotionWindow,    \* cfg_.motion_window
          ColregsFailures, \* cfg_.colregs_consecutive_failure_count
          NlpFailures      \* cfg_.nlp_consecutive_failure_count

ASSUME AssumptionConfig ==
    /\ AisDuration \in Nat /\ MotionWindow \in Nat
    /\ ColregsFailures \in Nat \ {0} /\ NlpFailures \in Nat \ {0}

Untracked == -1

\* ..._low_since_ is kept as the time since then, counted up to its threshold;
\* the failure counters are counted up to theirs.
Monitor == [aisLow : Untracked..AisDuration, motionLow : Untracked..MotionWindow,
            colregsFails : 0..ColregsFailures, nlpFails : 0..NlpFailures,
            nlpActive : BOOLEAN]

MonitorReset == [aisLow |-> Untracked, motionLow |-> Untracked, colregsFails |-> 0,
                 nlpFails |-> 0, nlpActive |-> FALSE]

UpTo(bound, n) == IF n < bound THEN n ELSE bound

Later(bound, since) == IF since = Untracked THEN Untracked ELSE UpTo(bound, since + 1)

MonitorWaited(am) ==
    [am EXCEPT !.aisLow = Later(AisDuration, @), !.motionLow = Later(MotionWindow, @)]

Tracked(low, since) == IF ~low THEN Untracked ELSE IF since = Untracked THEN 0 ELSE since

(* world.confidence in three bands: below fusion_confidence_low it is low or *)
(* poor, below the motion proxy it is poor.                                  *)
Confidence == {"good", "low", "poor"}

CheckAisRadar(am, confidence) == Tracked(confidence # "good", am.aisLow)

CheckMotionPredictability(am, confidence) == Tracked(confidence = "poor", am.motionLow)

CheckColregsSolvability(am, solvable) ==
    IF solvable THEN 0 ELSE UpTo(ColregsFailures, am.colregsFails + 1)

\* Mutant: a converged plan does not end the violation.
CheckNlpConvergenceLatched(am, nlp) ==
    IF nlp = "converged" THEN [am EXCEPT !.nlpFails = 0]
    ELSE LET fails == IF nlp = "tail_gate" THEN NlpFailures
                      ELSE UpTo(NlpFailures, am.nlpFails + 1)
         IN  [am EXCEPT !.nlpFails = fails, !.nlpActive = fails >= NlpFailures]

(* Runs with every avoidance plan: a failed tail gate counts as all failures. *)
CheckNlpConvergence(am, nlp) ==
    LET fails == IF nlp = "converged" THEN 0
                 ELSE IF nlp = "tail_gate" THEN NlpFailures
                 ELSE UpTo(NlpFailures, am.nlpFails + 1)
    IN  [am EXCEPT !.nlpFails = fails, !.nlpActive = fails >= NlpFailures]

EvaluateMonitor(am, confidence, solvable) ==
    [am EXCEPT !.aisLow       = CheckAisRadar(am, confidence),
               !.motionLow    = CheckMotionPredictability(am, confidence),
               !.colregsFails = CheckColregsSolvability(am, solvable)]

(* total_violation_count of an evaluated monitor. *)
Violations(am, covered, vetoed) ==
    Cardinality({a \in {"ais", "motion", "coverage", "colregs", "veto", "nlp"} :
                    \/ a = "ais"      /\ am.aisLow >= AisDuration
                    \/ a = "motion"   /\ am.motionLow >= MotionWindow
                    \/ a = "coverage" /\ ~covered
                    \/ a = "colregs"  /\ am.colregsFails >= ColregsFailures
                    \/ a = "veto"     /\ vetoed
                    \/ a = "nlp"      /\ am.nlpActive})

-----------------------------------------------------------------------------
(* M7: mrm::MrmSelector.  A decision table over the monitors' results, and  *)
(* a lockout that keeps the last manoeuvre for a while once one is chosen.  *)

CONSTANT Lockout   \* cfg_.change_lockout, in periods of the main loop

ASSUME LockoutAssumption == Lockout \in Nat

MrmId == {"None", "MRM-01", "MRM-02", "MRM-03", "MRM-04"}

(* ScenarioContext, as far as it is used: violated assumptions, critical     *)
(* modules, and the two findings of the performance monitor.                 *)
ScenarioContext == [violations : Nat, critical : Nat,
                    crowded : BOOLEAN, degrading : BOOLEAN]

\* sel.last is last_id_, sel.since the time since last_change_ (up to Lockout).
SelectorReset == [last |-> "None", since |-> Lockout]

\* Mutant: one silent module calls for no manoeuvre.
RawSelectWatchdogLate(ctx) ==
    IF ctx.critical >= 3 THEN "MRM-02" ELSE IF ctx.critical >= 2 THEN "MRM-01" ELSE "None"

RawSelectWatchdog(ctx) ==
    IF ctx.critical >= 3 THEN "MRM-02" ELSE IF ctx.critical >= 1 THEN "MRM-01" ELSE "None"

RawSelect(ctx, harbour) ==
    IF harbour /\ ctx.violations >= 2           THEN "MRM-04"
    ELSE IF ctx.crowded                         THEN "MRM-03"
    ELSE IF ctx.violations >= 3 \/ ctx.degrading THEN "MRM-02"
    ELSE IF RawSelectWatchdog(ctx) # "None"     THEN RawSelectWatchdog(ctx)
    ELSE IF ctx.violations >= 2                 THEN "MRM-02"
    ELSE IF ctx.violations >= 1                 THEN "MRM-01"
    ELSE "None"

\* Mutant: every call restarts the lockout.
SelectRestarting(sel, candidate) ==
    IF candidate = sel.last \/ (sel.since < Lockout /\ sel.last # "None")
    THEN [sel EXCEPT !.since = 0]
    ELSE [last |-> candidate, since |-> 0]

(* select(): the manoeuvre in force after a call; sel.last is the decision.  *)
Select(sel, candidate) ==
    IF candidate = sel.last \/ (sel.since < Lockout /\ sel.last # "None")
    THEN sel
    ELSE [last |-> candidate, since |-> 0]

SelectorWaited(sel) == [sel EXCEPT !.since = IF @ < Lockout THEN @ + 1 ELSE @]

-----------------------------------------------------------------------------
(* M7's two sources of alerts, as functions of what the monitors report:    *)
(* arbitrator::SafetyArbitrator for the main loop, and the hard-constraint  *)
(* checks of core/ for every avoidance plan.                                *)
(*                                                                          *)
(* Of an alert its severity and its recommended MRM are kept; type,         *)
(* confidence and texts are left out.                                       *)

Severe == {"CRITICAL", "MRC_REQUIRED"}

Severity == {"INFO", "WARNING"} \cup Severe

Alert == [severity : Severity, mrm : MrmId]

\* Alerts of severity INFO are not published.
NoAlert == [severity |-> "INFO", mrm |-> "None"]

(* ODDState, WorldState, COLREGsConstraint and AvoidancePlan, as far as M7   *)
(* looks at them.  A rule of 0 stands for no active rule; headings are       *)
(* changes of course in degrees, to starboard positive.                      *)
OddState == [harbour : BOOLEAN, valid : BOOLEAN]

WorldState ==
    {w \in [confidence : {"good", "low", "poor"}, covered : BOOLEAN, targets : BOOLEAN,
            negative : BOOLEAN, belowFloor : BOOLEAN, crowded : BOOLEAN] :
        w.targets \/ (w.covered /\ ~w.negative /\ ~w.belowFloor /\ ~w.crowded)}

COLREGsConstraint == [solvable : BOOLEAN, rule : Nat, standOn : BOOLEAN]

AvoidancePlan == [nlp : {"converged", "failed", "tail_gate"}, heading : Int,
                  speedOk : BOOLEAN, rotOk : BOOLEAN]

(* FaultMonitor::run: is any of the three validity checks failed?            *)
DiagnosticFault(odd, world, colregs) ==
    ~odd.valid \/ world.negative \/ (colregs.rule # 0 /\ ~world.targets)

\* TriggeringConditionDetector::detect
ExtremeScenario(ctx) == ctx.violations >= 3

CollectIec61508Candidates(ctx, fault) ==
    {s \in Severity : \/ s = "WARNING"      /\ fault
                      \/ s = "CRITICAL"     /\ ctx.critical = 1
                      \/ s = "MRC_REQUIRED" /\ ctx.critical >= 2}

CollectSotifCandidates(ctx) ==
    {s \in Severity : \/ s = "WARNING"      /\ ctx.violations = 1
                      \/ s = "CRITICAL"     /\ ctx.violations = 2
                      \/ s = "MRC_REQUIRED" /\ ExtremeScenario(ctx)}

CollectPerfCandidates(ctx) ==
    {s \in Severity : s = "WARNING" /\ (ctx.degrading \/ ctx.crowded)}

CollectCandidates(ctx, fault) ==
    CollectIec61508Candidates(ctx, fault) \cup CollectSotifCandidates(ctx)
        \cup CollectPerfCandidates(ctx)

(* The severity is that of the worst candidate, the MRM the selector's: the  *)
(* candidate's own recommendation is dropped.                                *)
Arbitrate(ctx, fault, mrm) ==
    LET pool == CollectCandidates(ctx, fault)
    IN  IF "MRC_REQUIRED" \in pool THEN [severity |-> "MRC_REQUIRED", mrm |-> mrm]
        ELSE IF "CRITICAL" \in pool THEN [severity |-> "CRITICAL", mrm |-> mrm]
        ELSE IF "WARNING" \in pool THEN [severity |-> "WARNING", mrm |-> mrm]
        ELSE NoAlert

(* The rule HC-2 checks: the first active rule of M6's message; a crossing   *)
(* is told apart by its phase.                                               *)
ColregsRule(colregs) ==
    IF colregs.rule \notin 13..17 THEN "unknown"
    ELSE IF colregs.rule = 13 THEN "overtaking"
    ELSE IF colregs.rule = 14 THEN "head_on"
    ELSE IF colregs.rule = 15 THEN IF colregs.standOn THEN "stand_on" ELSE "crossing"
    ELSE IF colregs.rule = 16 THEN "give_way"
    ELSE "stand_on"

SmallTurnDeg == 5
LargeTurnDeg == 15

CheckColregsGeometry(rule, heading) ==
    /\ rule \in {"overtaking", "stand_on"} => heading \in (-SmallTurnDeg + 1)..(SmallTurnDeg - 1)
    /\ rule \in {"head_on", "crossing"} => heading > SmallTurnDeg
    /\ rule = "give_way" => heading > LargeTurnDeg \/ heading < -LargeTurnDeg

(* HC-1 compares the world's CPA with itself, so that only the floor can     *)
(* fail; HC-4, the diagnostic coverage, is always reported complete.         *)
HardConstraintAlert(world, colregs, plan, critical) ==
    IF critical >= 2 THEN [severity |-> "MRC_REQUIRED", mrm |-> "MRM-02"]
    ELSE IF world.belowFloor THEN [severity |-> "CRITICAL", mrm |-> "MRM-03"]
    ELSE IF ~CheckColregsGeometry(ColregsRule(colregs), plan.heading)
         THEN [severity |-> "CRITICAL", mrm |-> "MRM-01"]
    ELSE IF ~plan.speedOk THEN [severity |-> "MRC_REQUIRED", mrm |-> "MRM-01"]
    ELSE IF ~plan.rotOk THEN [severity |-> "MRC_REQUIRED", mrm |-> "MRM-03"]
    ELSE IF critical = 1 THEN [severity |-> "MRC_REQUIRED", mrm |-> "MRM-01"]
    ELSE NoAlert
-----------------------------------------------------------------------------
(* The node.                                                               *)

\* What can arrive: the messages of each topic, and the findings of the trend.
CONSTANTS OddStates, WorldStates, ColregsConstraints, AvoidancePlans, Trends,
          Layers, Freezes, Overrides

ASSUME InputAssumption ==
    /\ OddStates \subseteq OddState /\ WorldStates \subseteq WorldState
    /\ ColregsConstraints \subseteq COLREGsConstraint
    /\ AvoidancePlans \subseteq AvoidancePlan
    /\ Trends \subseteq BOOLEAN /\ Freezes \subseteq BOOLEAN /\ Overrides \subseteq BOOLEAN

VARIABLES wd,         \* watchdog_
          am,         \* assumption_monitor_
          sel,        \* mrm_selector_
          degrading,  \* performance_monitor_: cpa_trend_degrading
          odd, world, colregs, plan,    \* last_odd_ ... last_avoidance_
          veto_occurred_this_cycle,     \* checker_veto_counter_, with its window
          override_active, reflex_freeze_required,
          resume,     \* resume_handler_: state_
          alert       \* the SafetyAlert the last step published, or NoAlert

inputs   == <<odd, world, colregs, plan>>
veto     == <<window, veto_occurred_this_cycle>>
takeover == <<override_active, reflex_freeze_required, resume>>
vars     == <<wd, am, sel, degrading, inputs, veto, takeover, alert>>

ResumeState == {"Idle", "OverrideActive", "PreResumeCheck"}

(* The snapshots are default-constructed messages: confidence is 0 until M2  *)
(* and M6 are heard.                                                         *)
Init ==
    /\ wd = Unwatched /\ am = MonitorReset /\ sel = SelectorReset /\ degrading = FALSE
    /\ odd = [harbour |-> FALSE, valid |-> TRUE]
    /\ world = [confidence |-> "poor", covered |-> TRUE, targets |-> FALSE,
                negative |-> FALSE, belowFloor |-> FALSE, crowded |-> FALSE]
    /\ colregs = [solvable |-> FALSE, rule |-> 0, standOn |-> FALSE]
    /\ plan = [nlp |-> "converged", heading |-> 0, speedOk |-> TRUE, rotOk |-> TRUE]
    /\ WindowInit /\ veto_occurred_this_cycle = FALSE
    /\ override_active = FALSE /\ reflex_freeze_required = FALSE /\ resume = "Idle"
    /\ alert = NoAlert
-----------------------------------------------------------------------------

OnOddState(msg) ==
    /\ wd' = OnMessageReceived(wd, "M1")
    /\ odd' = msg
    /\ alert' = NoAlert
    /\ UNCHANGED <<am, sel, degrading, world, colregs, plan, veto, takeover>>

OnWorldState(msg) ==
    /\ wd' = OnMessageReceived(wd, "M2")
    /\ world' = msg
    /\ alert' = NoAlert
    /\ UNCHANGED <<am, sel, degrading, odd, colregs, plan, veto, takeover>>

OnBehaviorPlan ==
    /\ wd' = OnMessageReceived(wd, "M4")
    /\ alert' = NoAlert
    /\ UNCHANGED <<am, sel, degrading, inputs, veto, takeover>>

OnColregsConstraint(msg) ==
    /\ wd' = OnMessageReceived(wd, "M6")
    /\ colregs' = msg
    /\ alert' = NoAlert
    /\ UNCHANGED <<am, sel, degrading, odd, world, plan, veto, takeover>>

(* The watchdog is evaluated, and counts, with every plan that is checked.   *)
OnAvoidancePlan(msg) ==
    LET heard   == OnMessageReceived(wd, "M5")
        checked == Evaluate(heard)
    IN  /\ plan' = msg
        /\ am' = CheckNlpConvergence(am, msg.nlp)
        /\ IF override_active \/ reflex_freeze_required
           THEN wd' = heard /\ alert' = NoAlert
           ELSE /\ wd' = checked
                /\ alert' = HardConstraintAlert(world, colregs, msg,
                                                Cardinality(CriticalModules(checked)))
        /\ UNCHANGED <<sel, degrading, odd, world, colregs, veto, takeover>>

\* ReactiveOverrideCmd, taken for a sign of life of M3.
OnOverrideCmd ==
    /\ wd' = OnMessageReceived(wd, "M3")
    /\ alert' = NoAlert
    /\ UNCHANGED <<am, sel, degrading, inputs, veto, takeover>>

OnCheckerVeto(layer) ==
    /\ veto_occurred_this_cycle' = IF layer = "L3" THEN TRUE ELSE veto_occurred_this_cycle
    /\ alert' = NoAlert
    /\ UNCHANGED <<wd, am, sel, degrading, inputs, window, takeover>>

OnReflexActivation(freeze) ==
    /\ reflex_freeze_required' = freeze
    /\ alert' = NoAlert
    /\ UNCHANGED <<wd, am, sel, degrading, inputs, veto, override_active, resume>>

(* The end of an override resets the selector and also ends a reflex freeze. *)
(* Of the resume handler the node calls only these two operations.           *)
OnOverrideSignal(active) ==
    /\ override_active' = active
    /\ IF active
       THEN resume' = "OverrideActive" /\ UNCHANGED <<sel, reflex_freeze_required>>
       ELSE /\ resume' = "PreResumeCheck"
            /\ sel' = SelectorReset
            /\ reflex_freeze_required' = FALSE
    /\ alert' = NoAlert
    /\ UNCHANGED <<wd, am, degrading, inputs, veto>>
-----------------------------------------------------------------------------

CheckerVetoRate == 20   \* checker_veto_rate_threshold, in percent

Context == [violations |-> Violations(am, world.covered, RateAtLeast(CheckerVetoRate)),
            critical   |-> Cardinality(CriticalModules(wd)),
            crowded    |-> world.crowded,
            degrading  |-> degrading]

Candidate == RawSelect(Context, odd.harbour)

(* All monitors first, then the selector and the arbitrator on their results. *)
RunMonitorEvaluation ==
    /\ wd' = Evaluate(Waited(wd))
    /\ am' = EvaluateMonitor(MonitorWaited(am), world.confidence, colregs.solvable)
    /\ degrading' \in Trends
    /\ sel' = Select(SelectorWaited(sel), Candidate')
    /\ alert' = Arbitrate(Context', DiagnosticFault(odd, world, colregs), sel'.last)

\* A reflex freeze: nothing is evaluated, time goes by all the same.
Frozen ==
    /\ wd' = Waited(wd) /\ am' = MonitorWaited(am) /\ sel' = SelectorWaited(sel)
    /\ alert' = NoAlert
    /\ UNCHANGED degrading

OnMainLoopTick ==
    /\ UNCHANGED <<inputs, takeover>>
    /\ Push(veto_occurred_this_cycle) /\ veto_occurred_this_cycle' = FALSE
    /\ IF reflex_freeze_required THEN Frozen ELSE RunMonitorEvaluation

\* A message of any of the subscribed topics.
Receive ==
    \/ \E msg \in OddStates : OnOddState(msg)
    \/ \E msg \in WorldStates : OnWorldState(msg)
    \/ OnBehaviorPlan
    \/ \E msg \in ColregsConstraints : OnColregsConstraint(msg)
    \/ \E msg \in AvoidancePlans : OnAvoidancePlan(msg)
    \/ OnOverrideCmd
    \/ \E layer \in Layers : OnCheckerVeto(layer)
    \/ \E freeze \in Freezes : OnReflexActivation(freeze)
    \/ \E active \in Overrides : OnOverrideSignal(active)

Next == Receive \/ OnMainLoopTick

\* The main loop is a timer: it keeps firing.
Spec == Init /\ [][Next]_vars /\ WF_vars(OnMainLoopTick)
-----------------------------------------------------------------------------

\* Type invariant of the node: every timer and counter within its bound.
TypeOK ==
    /\ wd \in [Modules -> Watch] /\ am \in Monitor
    /\ sel \in [last : MrmId, since : 0..Lockout] /\ degrading \in BOOLEAN
    /\ odd \in OddState /\ world \in WorldState
    /\ colregs \in COLREGsConstraint /\ plan \in AvoidancePlan
    /\ WindowType /\ veto_occurred_this_cycle \in BOOLEAN
    /\ override_active \in BOOLEAN /\ reflex_freeze_required \in BOOLEAN
    /\ resume \in ResumeState /\ alert \in Alert

(* A module is held against the others only for silence: whatever mix of     *)
(* ticks and plans evaluated the watchdog, a loss is on record only for a    *)
(* module that was heard once and is overdue now (watchdog_monitor.cpp).     *)
LossMeansSilence == \A m \in Modules : wd[m].loss > 0 => Overdue(wd, m)

(* An alert that makes M1 leave its envelope names a manoeuvre: the table of *)
(* the selector, its lockout and the table of the arbitrator, written apart, *)
(* never combine to CRITICAL or MRC_REQUIRED without an MRM.                 *)
CriticalNamesMrm == alert.severity \in Severe => alert.mrm # "None"

(* A module that falls silent for good is reported as critical again and     *)
(* again, whatever plans, overrides and reflexes come, unless a reflex       *)
(* freezes M7 again and again.                                               *)
SilentReported ==
    \A m \in Modules :
        <>[](Overdue(wd, m) /\ ~reflex_freeze_required) => []<>(alert.severity \in Severe)

(* The lockout delays a change of manoeuvre and never prevents it: when the  *)
(* monitors keep calling for c, c is selected.                               *)
SelectionCatchesUp ==
    \A c \in MrmId :
        <>[](Candidate = c /\ ~reflex_freeze_required) => []<>(sel.last = c)

Nominal ==
    /\ \A m \in Modules : ~Overdue(wd, m)
    /\ ~DiagnosticFault(odd, world, colregs)
    /\ HardConstraintAlert(world, colregs, plan, 0) = NoAlert
    /\ world.confidence = "good" /\ world.covered /\ ~world.crowded /\ ~degrading
    /\ colregs.solvable /\ plan.nlp = "converged" /\ ~veto_occurred_this_cycle

(* Every alarm ends with its cause: once all modules speak and report        *)
(* nothing wrong, M7 falls silent; no counter, timer or window keeps an old  *)
(* violation alive.                                                          *)
QuietAgain == <>[]Nominal => <>[](alert = NoAlert)
=============================================================================
