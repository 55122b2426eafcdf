------------------------- MODULE MCOddEnvelopeManager -------------------------
(* Instances of the M1 node for TLC. *)
EXTENDS OddEnvelopeManager

Nominal == [visibility |-> 3, sea_state |-> 3, gnss_quality_good |-> TRUE,
            radar_health_ok |-> TRUE, comm_ok |-> TRUE, comm_delay_ok |-> TRUE,
            any_sensor_critical |-> FALSE, tmr_available |-> TRUE]

\* Raw score 79: the Edge band.
Marginal == [Nominal EXCEPT !.visibility = 2, !.gnss_quality_good = FALSE]

\* Raw score 24, the lowest the weights allow.
Worst == [Nominal EXCEPT !.visibility = 0, !.sea_state = 0, !.comm_delay_ok = FALSE,
                         !.comm_ok = FALSE, !.tmr_available = FALSE]

AllCases == {Nominal, Marginal, Worst}
OnlyNominal == {Nominal}

MCTorMatrix == [o \in {"Bridge_OnDuty", "Bridge_Nearby", "Cabin_Sleep"} |->
                  CASE o = "Bridge_OnDuty" -> 120
                    [] o = "Bridge_Nearby" -> 240
                    [] o = "Cabin_Sleep"   -> 480]

VetoAlerts == {"WARNING", "CRITICAL", "MRC_REQUIRED"}
TwoOps     == {"Bridge_OnDuty", "Bridge_Nearby"}
NearAndFar == {400, 9999 * 4}   \* 100 s: TDL is exactly the 60 s of Bridge_Nearby
MCGoals    == MissionGoal \ {[active |-> FALSE, valid |-> TRUE]}
=============================================================================
