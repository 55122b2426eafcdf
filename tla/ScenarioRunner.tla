----------------------------- MODULE ScenarioRunner -----------------------------
(***************************************************************************)
(* The batch runner of the COLREGs scenarios: for each scenario, clean up,   *)
(* configure (with retries), activate, poll the simulation until one of six  *)
(* reasons to stop, clean up again, judge the trace, archive.  Any HTTP call *)
(* may raise, which skips the scenario.                                     *)
(*                                                                          *)
(* The simulator is the environment: its clock runs, stands still, runs past *)
(* the horizon, and its status may be unreadable, which the runner reads as  *)
(* time 0.  One unit of simulated time is the failure check's interval.      *)
(***************************************************************************)
EXTENDS Integers, Sequences, SequencesExt, FiniteSets

CONSTANTS Batch,       \* the scenarios, a sequence
          ReturnRequired, \* the scenarios that must return to the route
          TotalTime,   \* estimate_sim_horizon's total_time
          WallLimit,   \* polls until hard_stop / rate + 60 s
          StuckLimit,  \* polls without progress tolerated (40 in the code)
          Attempts     \* CONFIGURE_RETRY_ATTEMPTS

HardStop == 2 * TotalTime

VARIABLES pc, at,      \* at: position in Batch
          tries, sim,  \* sim: "off" or "on"
          simT, lastT, lastCheck, stuck, wall,
          early,       \* early_stop_reason: "failed" or "none"
          outcome      \* outcome[k]: "none", "skipped", "judged" or "judged_early"

vars == <<pc, at, tries, sim, simT, lastT, lastCheck, stuck, wall, early, outcome>>

Never == -10

Init ==
    /\ pc = "cleanup" /\ at = 1 /\ tries = 0 /\ sim \in {"off", "on"}
    /\ simT = 0 /\ lastT = -1 /\ lastCheck = Never /\ stuck = 0 /\ wall = 0
    /\ early = "none" /\ outcome = [k \in DOMAIN Batch |-> "none"]

\* main's loop: the next scenario, or the summary.
Leave(o) ==
    /\ outcome' = [outcome EXCEPT ![at] = o]
    /\ IF at < Len(Batch) THEN at' = at + 1 /\ pc' = "cleanup" ELSE at' = at /\ pc' = "summary"
    /\ tries' = 0 /\ simT' = 0 /\ lastT' = -1 /\ lastCheck' = Never /\ stuck' = 0 /\ wall' = 0
    /\ early' = "none"

\* req raises: main prints and goes on with the next scenario.
Raises ==
    /\ pc \in {"cleanup", "configure", "activate", "rate", "cleanup_after"}
    /\ Leave("skipped") /\ UNCHANGED sim

\* The answer of the cleanup is not looked at.
Cleanup ==
    /\ pc \in {"cleanup", "cleanup_after"} /\ sim' \in {sim, "off"}
    /\ pc' = IF pc = "cleanup" THEN "configure" ELSE "judge"
    /\ UNCHANGED <<at, tries, simT, lastT, lastCheck, stuck, wall, early, outcome>>

\* configure_scenario, one attempt.  The bridge stops what still runs.
ConfigureSucceeds ==
    /\ pc = "configure" /\ pc' = "activate" /\ sim' = "off"
    /\ UNCHANGED <<at, tries, simT, lastT, lastCheck, stuck, wall, early, outcome>>

ConfigureRefused ==
    /\ pc = "configure" /\ UNCHANGED sim
    /\ IF tries + 1 < Attempts
       THEN tries' = tries + 1
            /\ UNCHANGED <<pc, at, simT, lastT, lastCheck, stuck, wall, early, outcome>>
       ELSE Leave("skipped")

Activate ==
    /\ pc = "activate"
    /\ \/ sim' = "on" /\ pc' = "rate"
          /\ UNCHANGED <<at, tries, simT, lastT, lastCheck, stuck, wall, early, outcome>>
       \/ Leave("skipped") /\ UNCHANGED sim

SetRate ==
    /\ pc = "rate" /\ pc' = "poll"
    /\ UNCHANGED <<at, tries, sim, simT, lastT, lastCheck, stuck, wall, early, outcome>>

\* should_stop_at_declared_horizon
DeclaredHorizon(t) == Batch[at] \notin ReturnRequired /\ t >= TotalTime

CheckDue(t) == t - lastCheck >= 1

StopPolling(reason, t) ==
    /\ pc' = "cleanup_after" /\ early' = reason
    /\ lastCheck' = IF CheckDue(t) THEN t ELSE lastCheck
    /\ UNCHANGED <<at, tries, sim, lastT, stuck, wall, outcome>>

Stuck(t) == IF t = lastT THEN stuck + 1 ELSE 0

\* Mutant: only the simulated clock ends the polling.
ContinueUnlimited(t) ==
    /\ ~DeclaredHorizon(t) /\ t < HardStop /\ Stuck(t) <= StuckLimit
    /\ wall' = IF wall < WallLimit THEN wall + 1 ELSE wall
    /\ stuck' = Stuck(t) /\ lastT' = t /\ lastCheck' = IF CheckDue(t) THEN t ELSE lastCheck
    /\ UNCHANGED <<pc, at, tries, sim, early, outcome>>

\* None of the reasons to stop: the counters move, the runner sleeps.
Continue(t) ==
    /\ ~DeclaredHorizon(t) /\ t < HardStop /\ wall < WallLimit /\ Stuck(t) <= StuckLimit
    /\ wall' = wall + 1
    /\ stuck' = Stuck(t) /\ lastT' = t /\ lastCheck' = IF CheckDue(t) THEN t ELSE lastCheck
    /\ UNCHANGED <<pc, at, tries, sim, early, outcome>>

\* One round: get_sim_time (0 when unreadable), success, failure, horizon, hard
\* stop, wall limit, stuck - in this order.  Meanwhile the clock ran or did not.
Poll ==
    /\ pc = "poll"
    /\ simT' \in {simT, simT + 1} /\ simT' <= HardStop
    /\ \E t \in {simT', 0} :
          \/ Batch[at] \in ReturnRequired /\ StopPolling("none", t)   \* released, returned, in the corridor
          \/ CheckDue(t) /\ StopPolling("failed", t)                  \* assess_encounter_failure
          \/ /\ DeclaredHorizon(t) \/ t >= HardStop \/ wall >= WallLimit \/ Stuck(t) > StuckLimit
             /\ StopPolling("none", t)
          \/ Continue(t)

\* The trace is judged and archived; without telemetry there is no result, and
\* writing the reports may raise.
Judge ==
    /\ pc = "judge" /\ UNCHANGED sim
    /\ \/ Leave("skipped")
       \/ Leave(IF early = "failed" THEN "judged_early" ELSE "judged")

\* The summaries are written and the session finalized.
Summary ==
    /\ pc = "summary" /\ pc' = "done"
    /\ UNCHANGED <<at, tries, sim, simT, lastT, lastCheck, stuck, wall, early, outcome>>

Next ==
    \/ Raises \/ Cleanup \/ ConfigureSucceeds \/ ConfigureRefused \/ Activate \/ SetRate
    \/ Poll \/ Judge \/ Summary

\* The runner's own steps are taken; nothing is assumed of the simulator.
Spec == Init /\ [][Next]_vars /\ WF_vars(Next)
-----------------------------------------------------------------------------

\* The batch ends whatever the simulator does - stands still, is unreadable in
\* every second poll (which resets the stuck counter), or never returns.
BatchEnds == <>(pc = "done")
=============================================================================
