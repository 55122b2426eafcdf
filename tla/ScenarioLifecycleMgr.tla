------------------------- MODULE ScenarioLifecycleMgr -------------------------
(***************************************************************************)
(* The pure lifecycle machine of sil_lifecycle: one operator per method,    *)
(* from a machine to the machine the method leaves behind.  A method that   *)
(* returns False leaves it alone.  Time is in ticks of tick_hz, the wall    *)
(* clock in the same unit; a scenario stands for its id and its hash.       *)
(***************************************************************************)
EXTENDS Naturals

CONSTANTS Scenarios,   \* scenario ids a run can be configured with
          NoScenario   \* the empty id

States     == {"UNCONFIGURED", "INACTIVE", "ACTIVE"}
ClockModes == {"realtime", "free_run"}
DynModes   == {"internal", "fmi"}

Machine == [state: States, scenario: Scenarios \cup {NoScenario}, simTime: Nat,
            simRate: Nat, anchorWall: Nat, anchorSim: Nat,
            clockMode: ClockModes, dynMode: DynModes]

NewMachine ==
    [state |-> "UNCONFIGURED", scenario |-> NoScenario, simTime |-> 0,
     simRate |-> 1, anchorWall |-> 0, anchorSim |-> 0,
     clockMode |-> "realtime", dynMode |-> "internal"]

Configure(m, scenario, dynMode, clockMode) ==
    IF m.state = "UNCONFIGURED" /\ dynMode \in DynModes /\ clockMode \in ClockModes
    THEN [m EXCEPT !.state = "INACTIVE", !.scenario = scenario, !.simTime = 0,
                   !.simRate = 1, !.dynMode = dynMode, !.clockMode = clockMode]
    ELSE m

\* Resuming a stopped run goes on from its sim_time: only the anchors move.
Activate(m, now) ==
    IF m.state = "INACTIVE"
    THEN [m EXCEPT !.state = "ACTIVE", !.anchorWall = now, !.anchorSim = m.simTime]
    ELSE m

Deactivate(m) == IF m.state = "ACTIVE" THEN [m EXCEPT !.state = "INACTIVE"] ELSE m

\* FINALIZED, the other state cleanup accepts, is entered by no method.
Cleanup(m) ==
    IF m.state = "INACTIVE"
    THEN [m EXCEPT !.state = "UNCONFIGURED", !.scenario = NoScenario, !.simTime = 0]
    ELSE m

\* Mutant: the new rate counts from the old anchor.
SetSimRateUnanchored(m, rate, now) == [m EXCEPT !.simRate = rate]

\* An unchanged rate keeps its anchor; a new one starts from here and now.
SetSimRate(m, rate, now) ==
    IF rate = m.simRate THEN m
    ELSE [m EXCEPT !.anchorWall = now, !.anchorSim = m.simTime, !.simRate = rate]

Tick(m) == IF m.state = "ACTIVE" THEN [m EXCEPT !.simTime = @ + 1] ELSE m

\* Where the anchors put sim_time at this wall time.
TargetSim(m, now) == m.anchorSim + (now - m.anchorWall) * m.simRate

StatusDict(m) == [state |-> m.state, scenario |-> m.scenario, simTime |-> m.simTime,
                  simRate |-> m.simRate]
=============================================================================
