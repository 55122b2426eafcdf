----------------------------- MODULE FsmAggregator -----------------------------
(***************************************************************************)
(* The FSM aggregator: the last messages of M1, M4, M5 and M7 are folded     *)
(* into the state the HMI shows, ten times a second.  Nothing in it ages:    *)
(* the last alert holds until another one comes.  A tick is one unit of time *)
(* and OutLimit is the five seconds of ENVELOPE_OUT.                         *)
(***************************************************************************)
EXTENDS Naturals

CONSTANTS OutLimit, MaxTicks  \* MaxTicks: bound on the ticks

Envelopes  == {"none", "IN", "EDGE", "OUT", "MRC_PREP"}
Behaviors  == {"none", "TRANSIT", "COLREG_AVOID", "RECOVERY"}
Plans      == {"none", "empty", "waypoints"}
Alerts     == {"none", "INFO", "CRITICAL", "IEC61508_CRITICAL", "MRC_REQUIRED"}

VARIABLES odd, behavior, avoid, safety, outSince, now, shown,
          seen  \* history: the alert the last tick saw, and how many ticks in a row saw OUT

vars == <<odd, behavior, avoid, safety, outSince, now, shown, seen>>

\* Unset; the first tick is 1.
NotOut == 0

Init ==
    /\ odd = "none" /\ behavior = "none" /\ avoid = "none" /\ safety = "none"
    /\ outSince = NotOut /\ now = 0 /\ shown = "none" /\ seen = [safety |-> "none", out |-> 0]

\* The callbacks only remember.
OnOdd      == odd' \in Envelopes \ {"none"} /\ UNCHANGED <<behavior, avoid, safety, outSince, now, shown, seen>>
OnBehavior == behavior' \in Behaviors \ {"none"} /\ UNCHANGED <<odd, avoid, safety, outSince, now, shown, seen>>
OnAvoid    == avoid' \in Plans \ {"none"} /\ UNCHANGED <<odd, behavior, safety, outSince, now, shown, seen>>
OnSafety   == safety' \in Alerts \ {"none"} /\ UNCHANGED <<odd, behavior, avoid, outSince, now, shown, seen>>

OutSince == IF odd # "OUT" THEN NotOut ELSE IF outSince = NotOut THEN now' ELSE outSince

\* Avoidance and recovery are both shown as avoidance, or as handback once M5's plan is empty.
Avoiding == IF avoid = "empty" THEN "HANDBACK" ELSE "COLREG_AVOIDANCE"

\* _on_timer: the envelope, then the alert, then the behaviour.
OnTimer ==
    /\ now < MaxTicks /\ now' = now + 1
    /\ outSince' = OutSince
    /\ shown' = IF odd = "OUT" /\ now' - outSince' > OutLimit THEN "MRC"
                ELSE IF safety = "MRC_REQUIRED" THEN "MRC"
                ELSE IF safety = "CRITICAL" THEN "TOR"
                ELSE IF behavior \in {"COLREG_AVOID", "RECOVERY"} THEN Avoiding
                ELSE "TRANSIT"
    /\ seen' = [safety |-> safety, out |-> IF odd = "OUT" THEN seen.out + 1 ELSE 0]
    /\ UNCHANGED <<odd, behavior, avoid, safety>>

Next == OnOdd \/ OnBehavior \/ OnAvoid \/ OnSafety \/ OnTimer

Spec == Init /\ [][Next]_vars
-----------------------------------------------------------------------------

\* MRC is shown exactly when it has a cause: M7 demands it, or the ticks of more than
\* OutLimit in a row, up to this one, saw M1 out of the envelope - not when M1 was in between back
\* inside, however often it leaves.
MrcHasCause ==
    now > 0 => (shown = "MRC" <=> seen.safety = "MRC_REQUIRED" \/ seen.out > OutLimit + 1)
=============================================================================
