---------------------------- MODULE EnvDisturbance ----------------------------
(***************************************************************************)
(* env_disturbance: wind as a process that starts from a parameter and takes *)
(* two draws of a seeded generator a second, current as a constant.  A wind  *)
(* is the value it started from and the draws it took since; Winds are the   *)
(* values a scenario may give, 0 is calm and Default the constructor's.      *)
(***************************************************************************)
EXTENDS Integers, Sequences

CONSTANTS Winds, Default, MaxSteps, MaxRuns

VARIABLES node,     \* unconfigured, inactive, active
          param,    \* wind_speed_mps as injected for the run
          wind,     \* _prev_wind_speed
          rng,      \* draws taken from the generator since its reset
          steps,    \* published since the activation
          fresh,    \* history: configured since the last deactivation
          runs      \* activations

vars == <<node, param, wind, rng, steps, fresh, runs>>

Started(w) == [from |-> w, draws |-> <<>>]

Init ==
    /\ node = "unconfigured" /\ param = Default /\ wind = Started(Default)
    /\ rng = 0 /\ steps = 0 /\ fresh = FALSE /\ runs = 0

\* The bridge injects the scenario's wind; on_configure derives the generator again.
OnConfigure ==
    /\ node = "unconfigured"
    /\ param' \in Winds
    /\ node' = "inactive" /\ rng' = 0 /\ fresh' = TRUE
    /\ UNCHANGED <<wind, steps, runs>>

ActivatedWind == Started(param)

OnActivate ==
    /\ node = "inactive" /\ runs < MaxRuns
    /\ node' = "active" /\ wind' = ActivatedWind /\ steps' = 0 /\ runs' = runs + 1
    /\ UNCHANGED <<param, rng, fresh>>

OnDeactivate ==
    /\ node = "active"
    /\ node' = "inactive" /\ fresh' = FALSE
    /\ UNCHANGED <<param, wind, rng, steps, runs>>

OnCleanup ==
    /\ node = "inactive"
    /\ node' = "unconfigured" /\ wind' = Started(Default) /\ rng' = 0
    /\ UNCHANGED <<param, steps, fresh, runs>>

\* _step_callback: a calm scenario stays calm and draws nothing.
StepCallback ==
    /\ node = "active" /\ steps < MaxSteps
    /\ steps' = steps + 1
    /\ IF param = 0
       THEN wind' = Started(0) /\ UNCHANGED rng
       ELSE /\ wind' = [wind EXCEPT !.draws = Append(@, rng)]
            /\ rng' = rng + 2
    /\ UNCHANGED <<node, param, fresh, runs>>

Next == OnConfigure \/ OnActivate \/ OnDeactivate \/ OnCleanup \/ StepCallback

Spec == Init /\ [][Next]_vars
-----------------------------------------------------------------------------

\* A scenario run again sees the same wind second by second: from its configure on, what
\* is published depends on its parameter and the second alone, whatever ran before.
WindReplays ==
    node = "active" /\ fresh =>
        wind = [from |-> param, draws |-> IF param = 0 THEN <<>> ELSE [k \in 1..steps |-> 2 * (k - 1)]]
=============================================================================
