------------------------------ MODULE SafetyLoop ------------------------------
(***************************************************************************)
(* M7 and M1 together: the alerts M7 publishes on /l3/m7/safety_alert reach *)
(* M1 through a topic that keeps the last Depth of them, and M7's heartbeat *)
(* reaches M1 directly.  Each node has its own main loop; the two are not   *)
(* synchronised.  Overrides and reflexes, which reach both nodes, and M1's   *)
(* inputs from other modules are left to the modules of the two nodes.      *)
(***************************************************************************)
EXTENDS Integers, Sequences

\* Of M7.
CONSTANTS Lockout, Modules, Timeout, Tolerance, SilenceCap, LossCap,
          AisDuration, MotionWindow, ColregsFailures, NlpFailures, kCapacity,
          OddStates, WorldStates, ColregsConstraints, AvoidancePlans, Trends,
          Layers, Freezes, Overrides
\* Of M1.
CONSTANTS InToEdge, EdgeToOut, StaleFactor, NaN, TauTicks, TmrMin, TmrMax, TdlMin, TdlMax,
          TmrBaseline, TorMatrix, ScoringCases, Alerts, Tcpas, Operators, Goals,
          AlertTimeout, WorldTimeout, HeartbeatTimeout, AgeCap, Uptime,
          StaleThreshold, DurationCap, Redundancy

CONSTANT Depth   \* KeepLast of the topic

ASSUME DepthAssumption == Depth \in Nat \ {0}

VARIABLES wd, am, sel, degrading, m7odd, world, colregs, plan, veto_occurred_this_cycle,
          buffer, head, size, running_total, m7override, reflex_freeze_required, resume, m7alert

VARIABLES current, ema, scoring, alert, alertAge, tcpa, worldAge, hbAge, prevHbAge, hasPrev,
          mttf, override_active, reflex_active, operator, goal, m3Duration, concernEmitted,
          lastTdl, lastTmr, odd, mode, tor, concern

VARIABLE topic   \* severities published and not yet taken by M1

M7 == INSTANCE SafetySupervisor
          WITH odd <- m7odd, alert <- m7alert, override_active <- m7override

M1 == INSTANCE OddEnvelopeManager

m7 == <<wd, am, sel, degrading, m7odd, world, colregs, plan, veto_occurred_this_cycle,
        buffer, head, size, running_total, m7override, reflex_freeze_required, resume, m7alert>>
m1 == <<current, ema, scoring, alert, alertAge, tcpa, worldAge, hbAge, prevHbAge, hasPrev,
        mttf, override_active, reflex_active, operator, goal, m3Duration, concernEmitted,
        lastTdl, lastTmr, odd, mode, tor, concern>>
loop == <<m7, m1, topic>>

Nominal == [visibility |-> 3, sea_state |-> 3, gnss_quality_good |-> TRUE,
            radar_health_ok |-> TRUE, comm_ok |-> TRUE, comm_delay_ok |-> TRUE,
            any_sensor_critical |-> FALSE, tmr_available |-> TRUE]

Init == M7!Init /\ M1!Init /\ topic = <<>>

Kept(s) == IF Len(s) > Depth THEN Tail(s) ELSE s

\* A step of M7 alone: what it publishes enters the topic.
M7Does(A) ==
    /\ A
    /\ topic' = IF m7alert' = M7!NoAlert THEN topic
                ELSE Kept(Append(topic, m7alert'.severity))
    /\ UNCHANGED m1

Deliver ==
    /\ topic # <<>>
    /\ M1!OnSafetyAlert(Head(topic))
    /\ topic' = Tail(topic)
    /\ UNCHANGED m7

M1Does(A) == A /\ UNCHANGED <<m7, topic>>

Next ==
    \/ M7Does(M7!Receive)
    \/ M7Does(M7!OnMainLoopTick)
    \/ Deliver
    \/ M1Does(M1!OnM7Heartbeat)
    \/ M1Does(M1!OnMainLoopTick)
    \/ \E s \in ScoringCases : M1Does(M1!OnScoringInputs(s))

(* Timers keep firing and the topic is reliable. *)
Fairness ==
    /\ WF_loop(M7Does(M7!OnMainLoopTick))
    /\ WF_loop(Deliver)
    /\ WF_loop(M1Does(M1!OnMainLoopTick))

Spec == Init /\ [][Next]_loop /\ Fairness
-----------------------------------------------------------------------------

(* A module that M7 hears no more closes the envelope: whatever M7 publishes *)
(* meanwhile and however late it reaches M1, M1 prepares the minimum risk    *)
(* condition and stays there.                                                *)
SilenceClosesEnvelope ==
    \A m \in Modules :
        <>[]M7!Overdue(wd, m) => <>[](current = "MrCPrep")
-----------------------------------------------------------------------------
(* The instance for TLC: one monitored module, which may fall silent.          *)

Clear == [confidence |-> "good", covered |-> TRUE, targets |-> TRUE,
          negative |-> FALSE, belowFloor |-> FALSE, crowded |-> FALSE]
ClearWorlds == {Clear}
FreeWater   == {[solvable |-> TRUE, rule |-> 0, standOn |-> FALSE]}
GoodPlans   == {[nlp |-> "converged", heading |-> 20, speedOk |-> TRUE, rotOk |-> TRUE]}
Sailing     == {Nominal}
MCTimeout   == [m \in Modules |-> 1]
MCTolerance == [m \in Modules |-> 1]
MCTorMatrix == [o \in {"Bridge_OnDuty", "Bridge_Nearby", "Cabin_Sleep"} |-> 120]
=============================================================================
