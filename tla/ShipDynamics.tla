----------------------------- MODULE ShipDynamics -----------------------------
(***************************************************************************)
(* The ship-dynamics node of the SIL: its lifecycle, the commands and plans  *)
(* it remembers, and the stepping of the model by the simulated clock, which *)
(* runs unevenly, may jump several steps between two timer callbacks and     *)
(* starts again from zero.  Dt is the model's step and Period the publishing *)
(* period, in units of the clock; Period is a multiple of Dt.  What one step *)
(* of the model computes is left out.                                       *)
(***************************************************************************)
EXTENDS Integers

CONSTANTS Dt, Period,
          MaxClock, MaxRuns  \* bounds

None == -1

VARIABLES node, model, clock, run,
          lastSim,   \* _last_sim_time
          lastPub,   \* _last_publish_sim_ns
          cmd,       \* run the actuator command is of, None for none
          override,  \* run the avoidance heading is of, None for none
          subs,      \* subscriptions to M5's plans (2 stands for more)
          first, steps, gaps  \* history: first clock read, steps taken, gaps between publications

vars == <<node, model, clock, run, lastSim, lastPub, cmd, override, subs, first, steps, gaps>>

Init ==
    /\ node = "unconfigured" /\ model = FALSE /\ clock = 0 /\ run = 0
    /\ lastSim = None /\ lastPub = None /\ cmd = None /\ override = None /\ subs = 0
    /\ first = None /\ steps = 0 /\ gaps = {}
-----------------------------------------------------------------------------
(* Lifecycle.                                                               *)

\* Coefficients that cannot be loaded are a failure.
OnConfigure ==
    /\ node = "unconfigured" /\ run < MaxRuns /\ run' = run + 1
    /\ \/ model' = TRUE /\ node' = "inactive"
       \/ UNCHANGED <<model, node>>
    /\ clock' = 0
    /\ UNCHANGED <<lastSim, lastPub, cmd, override, subs, first, steps, gaps>>

\* Another subscription to the plans each time; only the others are destroyed later.
OnActivate ==
    /\ node = "inactive" /\ model /\ node' = "active"
    /\ subs' = (IF subs < 2 THEN subs + 1 ELSE 2) /\ first' = None /\ steps' = 0 /\ gaps' = {}
    /\ UNCHANGED <<model, clock, run, lastSim, lastPub, cmd, override>>

OnDeactivate ==
    /\ node = "active" /\ node' = "inactive"
    /\ lastSim' = None /\ lastPub' = None
    /\ UNCHANGED <<model, clock, run, cmd, override, subs, first, steps, gaps>>

\* Commands and environment are cleared; the heading and speed of M5's plan are not.
OnCleanup ==
    /\ node = "inactive" /\ node' = "unconfigured" /\ model' = FALSE
    /\ lastSim' = None /\ lastPub' = None /\ cmd' = None
    /\ UNCHANGED <<clock, run, override, subs, first, steps, gaps>>
-----------------------------------------------------------------------------
(* Messages.                                                                *)

ActuatorCallback ==
    /\ node = "active" /\ cmd' = run
    /\ UNCHANGED <<node, model, clock, run, lastSim, lastPub, override, subs, first, steps, gaps>>

\* A plan with a waypoint further than a metre sets the override, one with near ones
\* only clears it, an empty one changes nothing.
OnAvoidancePlan(plan) ==
    /\ subs > 0
    /\ override' = CASE plan = "far" -> run [] plan = "near" -> None [] OTHER -> override
    /\ UNCHANGED <<node, model, clock, run, lastSim, lastPub, cmd, subs, first, steps, gaps>>
-----------------------------------------------------------------------------
(* _step_callback                                                           *)

\* Mutant: the step starts from the clock and forgets the remainder.
SteppedToNow(n) == clock

Stepped(n) == lastSim + n * Dt

\* _should_publish_state at every step of the loop: the stamps published.
Published(n) ==
    LET from == IF lastPub = None THEN lastSim + Dt ELSE lastPub + Period IN
    {t \in (lastSim + 1)..(lastSim + n * Dt) : t >= from /\ (t - lastSim) % Dt = 0 /\ (t - from) % Period = 0}

Latest(S) == CHOOSE t \in S : \A u \in S : u <= t

StepCallback ==
    /\ node = "active" /\ model
    /\ IF lastSim = None
       THEN lastSim' = clock /\ first' = clock /\ UNCHANGED <<lastPub, steps, gaps>>
       ELSE /\ clock - lastSim >= Dt
            /\ LET n == (clock - lastSim) \div Dt
                   pub == Published(n) IN
               /\ lastSim' = Stepped(n) /\ steps' = steps + n
               /\ lastPub' = IF pub = {} THEN lastPub ELSE Latest(pub)
               /\ gaps' = gaps \cup {u - Latest({t \in pub \cup {lastPub} : t < u /\ t # None}) :
                                       u \in {v \in pub : \E t \in pub \cup {lastPub} : t < v /\ t # None}}
            /\ UNCHANGED first
    /\ UNCHANGED <<node, model, clock, run, cmd, override, subs>>

\* The simulated clock runs ahead by one or more units.
ClockRuns ==
    /\ \E k \in 1..(2 * Period) : clock + k <= MaxClock /\ clock' = clock + k
    /\ UNCHANGED <<node, model, run, lastSim, lastPub, cmd, override, subs, first, steps, gaps>>

Next ==
    \/ OnConfigure \/ OnActivate \/ OnDeactivate \/ OnCleanup \/ ActuatorCallback \/ StepCallback \/ ClockRuns
    \/ \E plan \in {"far", "near", "empty"} : OnAvoidancePlan(plan)

Spec == Init /\ [][Next]_vars
-----------------------------------------------------------------------------

\* Every step of simulated time is integrated once, however late and unevenly the
\* callbacks come: no remainder is lost, none is counted twice, and the model is never
\* ahead of the clock - not after a new run has set the clock back either.
TimeIntegrated ==
    node = "active" /\ lastSim # None /\ first # None =>
        lastSim = first + steps * Dt /\ lastSim <= clock

\* Publications are a period of simulated time apart, also when one callback catches
\* up on many steps.
EvenCadence == gaps \subseteq {Period}
=============================================================================
