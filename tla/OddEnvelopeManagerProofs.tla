----------------------- MODULE OddEnvelopeManagerProofs -----------------------
(***************************************************************************)
(* Proofs about the M1 node, for every choice of thresholds, timeouts,      *)
(* take-over matrix and inputs.                                             *)
(***************************************************************************)
EXTENDS OddEnvelopeManager, TLAPS

(* The smoothed score stays a percentage: compute_with_ema averages two.     *)
LEMMA EmaBounds ==
    ASSUME NEW f \in Score, NEW in \in ScoringInputs
    PROVE  ComputeWithEma(f, in) \in Score
<1> DEFINE c == Compute(in)
<1>1. EvaluateEScore(in) \in {0, 40, 70, 100}
  BY DEF EvaluateEScore
<1>2. EvaluateTScore(in) \in {30, 60, 100}
  BY DEF EvaluateTScore
<1>3. EvaluateHScore(in) \in {50, 100}
  BY DEF EvaluateHScore
<1>4. c \in 0..100
  BY <1>1, <1>2, <1>3 DEF Compute
<1> HIDE DEF c
<1>5. TauTicks \in Nat /\ TauTicks >= 1
  BY TauAssumption
<1> DEFINE x == c + (TauTicks - 1) * f
<1>6. x \in Int /\ 0 <= x /\ x <= 100 * TauTicks
  <2>1. f \in Int /\ 0 <= f /\ f <= 100
    BY DEF Score
  <2>2. (TauTicks - 1) * f \in Int /\ 0 <= (TauTicks - 1) * f
    BY <1>5, <2>1
  <2>3. (TauTicks - 1) * f <= (TauTicks - 1) * 100
    BY <1>5, <2>1
  <2>4. QED
    BY <1>4, <1>5, <2>2, <2>3
<1>7. x \div TauTicks \in 0..100
  <2> HIDE DEF x
  <2>1. QED
    BY <1>5, <1>6
<1>8. QED
  BY <1>7 DEF ComputeWithEma, c, Score

(* TDL and TMR are whole, non-negative times, and TMR is never zero.         *)
LEMMA TmrTdlTypes ==
    ASSUME NEW t \in Nat, NEW m \in Nat, NEW n \in Nat, NEW r \in BOOLEAN,
           NEW o \in OperatorState
    PROVE  /\ ComputeTdl(t, m, n, r) \in Nat
           /\ ComputeTmr(o) \in Nat
           /\ ComputeTmr(o) > 0
<1>1. EstimateTSysHealth(m, n, r) \in Nat
  BY DEF EstimateTSysHealth, Hz
<1>2. (t * 6) \div 10 \in Nat
  OBVIOUS
<1>3. ComputeTdl(t, m, n, r) \in Nat
  BY <1>1, <1>2, TmrTdlAssumption DEF ComputeTdl, Lesser, Clamp, CommWindowBest, Hz
<1>4. ComputeTmr(o) \in Nat /\ ComputeTmr(o) > 0
  BY TmrTdlAssumption DEF ComputeTmr, LookupTorTmr, Clamp, OperatorState
<1>5. QED
  BY <1>3, <1>4

(* step() answers with a state of the envelope, and never with MrCActive     *)
(* unless it was there.                                                      *)
LEMMA StepType ==
    ASSUME NEW s \in EnvelopeState, NEW score, NEW late \in BOOLEAN,
           NEW ev \in EventFlags, NEW zone, NEW health
    PROVE  /\ Step(s, score, late, ev, zone, health) \in EnvelopeState
           /\ s # "MrCActive" => Step(s, score, late, ev, zone, health) # "MrCActive"
BY DEF Step, ComputeNext, HandleIn, HandleEdge, HandleMrcPrep, HandleMrcActive,
       HandleOut, EnvelopeState, EventFlags

(* The flags the node builds, and the ones it forces MrCPrep with, are typed. *)
LEMMA FlagsType ==
    ASSUME TypeOK
    PROVE  BuildEventFlags \in EventFlags /\ ForcedFlags \in EventFlags
BY DEF TypeOK, BuildEventFlags, ForcedFlags, EventFlags, M7Critical

-----------------------------------------------------------------------------
(* What one main loop does to the state machine: the new state is a state of *)
(* the envelope, it is not MrCActive, a deadline that is missed ends in      *)
(* MrCPrep or under an override, and the forced step reaches MrCPrep.        *)
LEMMA TickOutcome ==
    ASSUME TypeOK, current # "MrCActive",
           NEW score \in Score, NEW late \in BOOLEAN
    PROVE  LET stepped == Stepped(score, late)
               final   == Forced(stepped, score, late)
           IN  /\ stepped \in EnvelopeState /\ stepped # "MrCActive"
               /\ final \in EnvelopeState /\ final # "MrCActive"
               /\ late => final \in {"MrCPrep", "MrCActive", "Overridden"}
               /\ TorTrigger(stepped, late) => final = "MrCPrep"
<1> DEFINE stepped == Stepped(score, late)
           final   == Forced(stepped, score, late)
<1>1. stepped \in EnvelopeState /\ stepped # "MrCActive"
  BY FlagsType, StepType DEF TypeOK, Stepped
<1>2. Step(stepped, score, late, ForcedFlags, "A", ScoreToHealth(score)) = "MrCPrep"
  BY ThresholdsAssumption DEF Step, ForcedFlags, Score
<1> HIDE DEF stepped
<1>3. QED
  BY <1>1, <1>2 DEF Forced, TorTrigger, EnvelopeState, stepped

\* The conjunction that the steps of the node preserve together.
Inv == /\ TypeOK
       /\ MrcActiveUnreached
       /\ DeadlineHeld
       /\ PublishedAgrees
       /\ TorMeansMrcPrep
       /\ ConcernOncePerEpisode

(* The node starts with the invariant: nothing heard, nothing published.     *)
LEMMA InitInv == Init => Inv
<1> SUFFICES ASSUME Init PROVE Inv
  OBVIOUS
<1>1. TypeOK
  <2>1. scoring \in ScoringInputs
    BY DEF Init, ScoringInputs, Band
  <2>2. goal \in MissionGoal
    BY DEF Init, NoGoal, MissionGoal
  <2>3. tcpa \in Nat
    BY DEF Init, NoTcpa, Hz
  <2>4. operator \in OperatorState /\ m3Duration \in 0..DurationCap
    BY NodeAssumption DEF Init
  <2>5. QED
    <3>1. current \in EnvelopeState /\ ema \in Score /\ lastTdl \in Nat /\ lastTmr \in Nat
      BY DEF Init, EnvelopeState, Score
    <3>2. /\ alertAge \in Age /\ worldAge \in Age /\ hbAge \in Age /\ prevHbAge \in Age
          /\ mttf \in Nat
      BY DEF Init, Age
    <3>3. QED
      BY <2>1, <2>2, <2>3, <2>4, <3>1, <3>2, Zenon DEF Init, TypeOK
<1>2. MrcActiveUnreached /\ DeadlineHeld /\ PublishedAgrees /\ TorMeansMrcPrep
  BY DEF Init, MrcActiveUnreached, DeadlineHeld, Ticked, PublishedAgrees, TorMeansMrcPrep
<1>3. ConcernOncePerEpisode
  <2>1. ~(0 > StaleThreshold)
    BY NodeAssumption
  <2>2. QED
    BY <2>1, Zenon DEF Init, ConcernOncePerEpisode
<1>4. QED
  BY <1>1, <1>2, <1>3 DEF Inv

(* Ages stay ages. *)
LEMMA OlderType == ASSUME NEW a \in Age PROVE Older(a) \in Age
BY NodeAssumption DEF Age, Older, Never

(* The score the main loop steps on is a percentage, never NaN. *)
LEMMA TickScore == TypeOK => ComputeWithEma(ema, BuildScoringInputs) \in Score
<1> SUFFICES ASSUME TypeOK PROVE ComputeWithEma(ema, BuildScoringInputs) \in Score
  OBVIOUS
<1>1. BuildScoringInputs \in ScoringInputs
  BY DEF TypeOK, BuildScoringInputs, ScoringInputs, M7Critical
<1>2. QED
  BY <1>1, EmaBounds DEF TypeOK

(* The main loop keeps the invariant. *)
LEMMA TickInv == Inv /\ OnMainLoopTick => Inv'
<1> SUFFICES ASSUME Inv, OnMainLoopTick PROVE Inv'
  OBVIOUS
<1> DEFINE score   == ComputeWithEma(ema, BuildScoringInputs)
           tdl     == ComputeTdl(tcpa, mttf, IF M7Critical THEN 1 ELSE 0, Redundancy)
           tmr     == ComputeTmr(operator)
           late    == tdl <= tmr
           stepped == Stepped(score, late)
           final   == Forced(stepped, score, late)
<1>1. score \in Score
  BY TickScore DEF Inv
<1>2. tdl \in Nat /\ tmr \in Nat /\ tmr > 0
  BY ZenonT(60), TmrTdlTypes, NodeAssumption DEF Inv, TypeOK
<1>3. /\ ema' = score /\ lastTdl' = tdl /\ lastTmr' = tmr /\ current' = final
      /\ HandleStateChange(stepped, final)
      /\ tor' = TorTrigger(stepped, late)
      /\ WatchM3 /\ AgeInputs /\ UNCHANGED inputs
  BY DEF OnMainLoopTick
<1>4. late \in BOOLEAN
  OBVIOUS
<1> HIDE DEF score, tdl, tmr, late
<1>5. /\ stepped \in EnvelopeState /\ stepped # "MrCActive"
      /\ final \in EnvelopeState /\ final # "MrCActive"
      /\ late => final \in {"MrCPrep", "MrCActive", "Overridden"}
      /\ TorTrigger(stepped, late) => final = "MrCPrep"
  BY <1>1, <1>4, TickOutcome DEF Inv, MrcActiveUnreached
<1>6. TorTrigger(stepped, late) \in BOOLEAN
  BY <1>4 DEF TorTrigger
<1> HIDE DEF stepped, final
<1>7. PublishedAgrees'
  BY <1>3, <1>5 DEF Inv, PublishedAgrees, HandleStateChange, EnvelopeToMode, None, EnvelopeState
<1>8. ConcernOncePerEpisode' /\ m3Duration' \in 0..DurationCap /\ concernEmitted' \in BOOLEAN
      /\ concern' \in BOOLEAN
  <2> DEFINE grown == IF m3Duration < DurationCap THEN m3Duration + 1 ELSE m3Duration
             stale == M3ActiveAndNotValid
             over  == grown > StaleThreshold
  <2>1. /\ m3Duration' = IF stale THEN grown ELSE 0
        /\ concernEmitted' = IF stale THEN concernEmitted \/ (stale /\ over /\ ~concernEmitted)
                                      ELSE concernEmitted /\ m3Duration = 0
        /\ concern' = (stale /\ over /\ ~concernEmitted)
    BY <1>3 DEF WatchM3
  <2>2. /\ concernEmitted \in BOOLEAN
        /\ concernEmitted <=> m3Duration > StaleThreshold
        /\ m3Duration \in 0..DurationCap
    BY DEF Inv, TypeOK, ConcernOncePerEpisode
  <2>3. /\ grown \in 0..DurationCap
        /\ m3Duration > StaleThreshold => over
        /\ m3Duration = 0 => ~(m3Duration > StaleThreshold)
        /\ ~(0 > StaleThreshold) /\ 0 \in 0..DurationCap
    BY <2>2, NodeAssumption
  <2>4. stale \in BOOLEAN /\ over \in BOOLEAN
    BY DEF M3ActiveAndNotValid
  <2> HIDE DEF grown, stale
  <2>5. CASE stale
    <3>1. m3Duration' = grown /\ (concernEmitted' <=> (concernEmitted \/ over))
      BY <2>1, <2>5, Zenon
    <3>2. QED
      BY <2>1, <2>2, <2>3, <2>4, <2>5, <3>1, Zenon DEF ConcernOncePerEpisode
  <2>6. CASE ~stale
    <3>1. m3Duration' = 0 /\ ~concernEmitted' /\ concernEmitted' \in BOOLEAN
      BY <2>1, <2>2, <2>3, <2>6, Zenon
    <3>2. QED
      BY <2>1, <2>2, <2>3, <2>6, <3>1, Zenon DEF ConcernOncePerEpisode
  <2>7. QED
    BY <2>5, <2>6
<1>9. MrcActiveUnreached' /\ TorMeansMrcPrep'
  BY <1>3, <1>5 DEF MrcActiveUnreached, TorMeansMrcPrep
<1>10. DeadlineHeld'
  BY <1>2, <1>3, <1>5 DEF DeadlineHeld, Ticked, late
<1>11. TypeOK'
  <2>1. /\ alertAge' \in Age /\ worldAge' \in Age /\ hbAge' \in Age /\ prevHbAge' \in Age
        /\ mttf' \in Nat /\ hasPrev' \in BOOLEAN
    BY <1>3, OlderType DEF Inv, TypeOK, AgeInputs
  <2>2. odd' \in EnvelopeState \cup {None}
        /\ mode' \in {None, "NORMAL", "LIMITED", "DEGRADED", "EMERGENCY"}
    BY <1>3, <1>5 DEF Inv, TypeOK, HandleStateChange, EnvelopeToMode
  <2>3. /\ scoring' \in ScoringInputs /\ alert' \in Alerts \cup {None} /\ tcpa' \in Nat
        /\ override_active' \in BOOLEAN /\ reflex_active' \in BOOLEAN
        /\ operator' \in OperatorState /\ goal' \in MissionGoal
    BY <1>3 DEF Inv, TypeOK, inputs
  <2>4. /\ current' \in EnvelopeState /\ ema' \in Score /\ lastTdl' \in Nat
        /\ lastTmr' \in Nat /\ tor' \in BOOLEAN
    BY <1>1, <1>2, <1>3, <1>5, <1>6
  <2>5. QED
    BY <1>8, <2>1, <2>2, <2>3, <2>4 DEF TypeOK
<1>12. QED
  BY <1>7, <1>8, <1>9, <1>10, <1>11 DEF Inv

\* The invariants that the callbacks leave alone read only these.
CallbackFrame == UNCHANGED <<fsm, output>>

(* A callback stores its message and publishes nothing. *)
LEMMA CallbackInv ==
    ASSUME Inv, CallbackFrame
    PROVE  /\ MrcActiveUnreached' /\ DeadlineHeld' /\ PublishedAgrees' /\ TorMeansMrcPrep'
           /\ current' \in EnvelopeState /\ ema' \in Score
           /\ lastTdl' \in Nat /\ lastTmr' \in Nat
           /\ odd' \in EnvelopeState \cup {None}
           /\ mode' \in {None, "NORMAL", "LIMITED", "DEGRADED", "EMERGENCY"}
           /\ tor' \in BOOLEAN /\ concern' \in BOOLEAN
BY DEF CallbackFrame, Inv, TypeOK, MrcActiveUnreached, DeadlineHeld, Ticked, PublishedAgrees,
       TorMeansMrcPrep, EnvelopeToMode, fsm, output

(* Every callback and both timers keep the invariant.                        *)
LEMMA NextInv == Inv /\ [Next]_vars => Inv'
<1> SUFFICES ASSUME Inv, [Next]_vars PROVE Inv'
  OBVIOUS
<1> USE DEF Never, Age
<1>1. ASSUME NEW a \in Alerts, OnSafetyAlert(a) PROVE Inv'
  BY <1>1, CallbackInv, NodeAssumption
     DEF OnSafetyAlert, CallbackFrame, Inv, TypeOK, ConcernOncePerEpisode, watch
<1>2. CASE OnM7Heartbeat
  <2>1. Elapsed(prevHbAge) \in Nat
    BY NodeAssumption DEF Elapsed, Inv, TypeOK
  <2>2. mttf' \in Nat
    BY <1>2, <2>1 DEF OnM7Heartbeat, Inv, TypeOK
  <2>3. QED
    BY <1>2, <2>2, CallbackInv, NodeAssumption
       DEF OnM7Heartbeat, CallbackFrame, Inv, TypeOK, ConcernOncePerEpisode, watch, inputs
<1>3. ASSUME NEW b \in BOOLEAN, OnReflexActivation(b) \/ OnOverrideSignal(b) PROVE Inv'
  BY <1>3, CallbackInv
     DEF OnReflexActivation, OnOverrideSignal, CallbackFrame, Inv, TypeOK,
         ConcernOncePerEpisode, watch, clocks
<1>4. ASSUME NEW s \in ScoringCases, OnScoringInputs(s) PROVE Inv'
  BY <1>4, CallbackInv, NodeAssumption
     DEF OnScoringInputs, CallbackFrame, Inv, TypeOK, ConcernOncePerEpisode, watch, clocks
<1>5. ASSUME NEW t \in Tcpas, OnWorldState(t) PROVE Inv'
  BY <1>5, CallbackInv, NodeAssumption
     DEF OnWorldState, CallbackFrame, Inv, TypeOK, ConcernOncePerEpisode, watch
<1>6. ASSUME NEW o \in Operators, OnOperatorState(o) PROVE Inv'
  BY <1>6, CallbackInv, NodeAssumption
     DEF OnOperatorState, CallbackFrame, Inv, TypeOK, ConcernOncePerEpisode, watch, clocks
<1>7. ASSUME NEW g \in Goals, OnMissionGoal(g) PROVE Inv'
  <2>1. goal' \in MissionGoal
    BY <1>7, NodeAssumption DEF OnMissionGoal
  <2>2. m3Duration' \in 0..DurationCap /\ concernEmitted' \in BOOLEAN /\ ConcernOncePerEpisode'
    <3>1. CASE g.valid
      <4>1. m3Duration' = 0 /\ concernEmitted' = FALSE
        BY <1>7, <3>1 DEF OnMissionGoal
      <4>2. ~(0 > StaleThreshold) /\ 0 \in 0..DurationCap
        BY NodeAssumption
      <4>3. QED
        BY <4>1, <4>2, Zenon DEF ConcernOncePerEpisode
    <3>2. CASE ~g.valid
      BY <1>7, <3>2 DEF OnMissionGoal, ConcernOncePerEpisode, watch, Inv, TypeOK
    <3>3. QED
      BY <3>1, <3>2
  <2>3. CallbackFrame /\ UNCHANGED <<scoring, alert, tcpa, override_active, reflex_active,
                                     operator, clocks>>
    BY <1>7 DEF OnMissionGoal, CallbackFrame
  <2>4. QED
    BY <2>1, <2>2, <2>3, CallbackInv DEF Inv, TypeOK, clocks
<1>8. CASE OnMainLoopTick
  BY <1>8, TickInv
<1>9. CASE OnOddStatePublishTick
  BY <1>9 DEF OnOddStatePublishTick, Inv, TypeOK, MrcActiveUnreached, DeadlineHeld, Ticked,
              PublishedAgrees, TorMeansMrcPrep, ConcernOncePerEpisode, EnvelopeToMode,
              inputs, clocks, fsm, watch
<1>10. CASE UNCHANGED vars
  BY <1>10 DEF vars, inputs, clocks, fsm, watch, output, Inv, TypeOK, MrcActiveUnreached,
               DeadlineHeld, Ticked, PublishedAgrees, TorMeansMrcPrep,
               ConcernOncePerEpisode, EnvelopeToMode
<1>11. QED
  BY <1>1, <1>2, <1>3, <1>4, <1>5, <1>6, <1>7, <1>8, <1>9, <1>10 DEF Next

(* Type correctness of the M1 node, for every configuration create() accepts. *)
THEOREM TypeCorrect == Spec => []TypeOK
<1>1. Spec => []Inv
  BY InitInv, NextInv, PTL DEF Spec
<1>2. Inv => TypeOK
  BY DEF Inv
<1>3. QED
  BY <1>1, <1>2, PTL

(* on_main_loop_tick leaves no state but MrCPrep or an override standing     *)
(* while TDL <= TMR, for every threshold, matrix and sequence of messages.   *)
THEOREM DeadlineSafe == Spec => []DeadlineHeld
<1>1. Spec => []Inv
  BY InitInv, NextInv, PTL DEF Spec
<1>2. Inv => DeadlineHeld
  BY DEF Inv
<1>3. QED
  BY <1>1, <1>2, PTL

(* M1's published state and mode never lag behind its state machine.         *)
THEOREM PublishedSafe == Spec => []PublishedAgrees
<1>1. Spec => []Inv
  BY InitInv, NextInv, PTL DEF Spec
<1>2. Inv => PublishedAgrees
  BY DEF Inv
<1>3. QED
  BY <1>1, <1>2, PTL

(* A take-over request always announces MrCPrep.                             *)
THEOREM TorSafe == Spec => []TorMeansMrcPrep
<1>1. Spec => []Inv
  BY InitInv, NextInv, PTL DEF Spec
<1>2. Inv => TorMeansMrcPrep
  BY DEF Inv
<1>3. QED
  BY <1>1, <1>2, PTL

(* The M3 watchdog's flag and its timer never come apart.                    *)
THEOREM ConcernSafe == Spec => []ConcernOncePerEpisode
<1>1. Spec => []Inv
  BY InitInv, NextInv, PTL DEF Spec
<1>2. Inv => ConcernOncePerEpisode
  BY DEF Inv
<1>3. QED
  BY <1>1, <1>2, PTL

(* No configuration and no sequence of messages activates an MRC: the state  *)
(* MrCActive of the enumeration is dead.                                     *)
THEOREM MrcActiveDead == Spec => []MrcActiveUnreached
<1>1. Spec => []Inv
  BY InitInv, NextInv, PTL DEF Spec
<1>2. Inv => MrcActiveUnreached
  BY DEF Inv
<1>3. QED
  BY <1>1, <1>2, PTL

(* M7's veto outranks every score, deadline and state: a main loop that finds *)
(* CRITICAL or MRC_REQUIRED standing ends in MrCPrep or under an override.   *)
THEOREM VetoSafe == Spec => VetoHolds
<1> DEFINE Held == (OnMainLoopTick /\ alert \in {"CRITICAL", "MRC_REQUIRED"})
                     => current' \in {"MrCPrep", "Overridden"}
<1>1. Spec => []Inv
  BY InitInv, NextInv, PTL DEF Spec
<1>2. Inv => Held
  <2> SUFFICES ASSUME Inv, OnMainLoopTick, alert \in {"CRITICAL", "MRC_REQUIRED"}
               PROVE  current' \in {"MrCPrep", "Overridden"}
    OBVIOUS
  <2> DEFINE score   == ComputeWithEma(ema, BuildScoringInputs)
             late    == ComputeTdl(tcpa, mttf, IF M7Critical THEN 1 ELSE 0, Redundancy)
                          <= ComputeTmr(operator)
             stepped == Stepped(score, late)
  <2>1. score # NaN
    BY TickScore, ThresholdsAssumption DEF Inv, Score
  <2>2. BuildEventFlags.m7_safety_critical \/ BuildEventFlags.m7_safety_mrc_required
    BY DEF BuildEventFlags, M7Critical
  <2>3. stepped \in {"MrCPrep", "Overridden"}
    BY <2>1, <2>2 DEF Stepped, Step
  <2>4. current' = Forced(stepped, score, late)
    BY DEF OnMainLoopTick
  <2> HIDE DEF stepped, score, late
  <2>5. QED
    BY <2>3, <2>4 DEF Forced, TorTrigger
<1>3. QED
  BY <1>1, <1>2, PTL DEF Spec, VetoHolds
=============================================================================
