------------------------------- MODULE MCMachines -------------------------------
(***************************************************************************)
(* The parts of the workbench that promise safety only and keep a state:     *)
(* thirteen small machines.  They do not interact, so a behaviour is one of  *)
(* a single part, chosen at the start, and the states of the parts add       *)
(* instead of multiplying.                                                  *)
(*                                                                          *)
(* The machines share the variables s1, s2, ...: what each stands for is     *)
(* said by the WITH of its instance, and a property looks at them only in    *)
(* its own part.                                                            *)
(***************************************************************************)
EXTENDS Integers, FiniteSets

CONSTANTS
    Streams, NoStream, MaxFailed, GateRuns,                     \* the self-check
    Roles, Plugins, Core, RoleOf, ProfileRoles, MaxCommands,    \* the runtime console
    StoreIds, Contents, Baseline, InitFiles, MaxWrites,         \* the scenario store
    BagRows, MaxBag, Tasks,                                     \* the export
    Owners, SessionScenarios, MaxSuffix, MaxArchives,           \* the evidence sessions
    Threads, InlineEvery, MaxBuf, RotateSize, MaxRecords, WriterRuns, MaxFaults,  \* the trace writer
    OutLimit, DisplayTicks,                                     \* the display
    MockScenarios, NoScenario, Kind, Labelled, FirstFile, MaxStamp, MockMessages,  \* the mock L2
    Dt, Period, MaxClock, ShipRuns,                             \* the ship dynamics
    Winds, DefaultWind, WindSteps, WindRuns,                    \* the wind
    Distances, RuleStates, MaxTargets, KeepTargets, BatchSize, MaxScores,  \* the scoring node
    Bands, Headings, AvoidRate, RouteRate, WaypointRudder, StaleTicks, PilotTicks, MaxReleases,  \* the autopilot
    Modules, StaleSteps, KeepLast, MaxCalls, MaxExits, MaxMessages  \* shell B

VARIABLES part, s1, s2, s3, s4, s5, s6, s7, s8, s9, s10, s11, s12

slots == <<s1, s2, s3, s4, s5, s6, s7, s8, s9, s10, s11, s12>>
-----------------------------------------------------------------------------
(* The machines and the constants of their instances.                       *)

Gate == INSTANCE SelfCheck WITH MaxRuns <- GateRuns,
    gate <- s1, clear <- s2, verdict <- s3, staged <- s4, archived <- s5, unfit <- s6, others <- s7, sealed <- s8,
    failed <- s9, runs <- s10

Console == INSTANCE RuntimeConsole WITH MaxSteps <- MaxCommands,
    running <- s1, late <- s2, override <- s3, timedOut <- s4, verdict <- s5, steps <- s6

Store == INSTANCE ScenarioStore WITH Ids <- StoreIds,
    files <- s1, writes <- s2, answer <- s3

Export == INSTANCE MarzipExport WITH Rows <- BagRows, MaxRows <- MaxBag,
    bag <- s1, present <- s2, status <- s3, task <- s4, scored <- s5, archive <- s6

Session == INSTANCE EvidenceSession WITH Scenarios <- SessionScenarios, SuffixSet <- 0..MaxSuffix,
    dirs <- s1, entries <- s2, picked <- s3, session <- s4, everValid <- s5, trace <- s6, archives <- s7

Writer == INSTANCE TraceWriter WITH MaxRuns <- WriterRuns,
    sim <- s1, anchor <- s2, prev <- s3, thr <- s4, buf <- s5, file <- s6, open <- s7, archive <- s8,
    timer <- s9, appended <- s10, lost <- s11, faults <- s12

Display == INSTANCE FsmAggregator WITH MaxTicks <- DisplayTicks,
    odd <- s1, behavior <- s2, avoid <- s3, safety <- s4, outSince <- s5, now <- s6, shown <- s7, seen <- s8

Mock == INSTANCE MockL2 WITH Scenarios <- MockScenarios, MaxMessages <- MockMessages,
    mock <- s1, ingest <- s2, status <- s3, received <- s4, replies <- s5, messages <- s6

Ship == INSTANCE ShipDynamics WITH MaxRuns <- ShipRuns,
    node <- s1, model <- s2, clock <- s3, run <- s4, lastSim <- s5, lastPub <- s6, cmd <- s7,
    override <- s8, subs <- s9, first <- s10, steps <- s11, gaps <- s12

Wind == INSTANCE EnvDisturbance WITH Default <- DefaultWind, MaxSteps <- WindSteps, MaxRuns <- WindRuns,
    node <- s1, param <- s2, wind <- s3, rng <- s4, steps <- s5, fresh <- s6, runs <- s7

Scorer == INSTANCE ScoringNode WITH MaxRows <- MaxScores,
    node <- s1, own <- s2, targets <- s3, rules <- s4, writer <- s5, file <- s6, rows <- s7, last <- s8,
    messages <- s9

Pilot == INSTANCE LockstepAutopilot WITH MaxTicks <- PilotTicks,
    plan <- s1, avoiding <- s2, course <- s3, onset <- s4, enabled <- s5, allowed <- s6, validAt <- s7, now <- s8,
    ctl <- s9, tick <- s10, call <- s11, out <- s12

ShellB == INSTANCE ShellBSimulator WITH
    proc <- s1, backlog <- s2, clients <- s3, todo <- s4, lines <- s5, at <- s6, task <- s7, sim <- s8,
    inbox <- s9, ctl <- s10, used <- s11
-----------------------------------------------------------------------------
(* What the code and its configuration say of the constants.                *)

\* A plugin's manifest names its role, and a service that is none of CORE_SERVICES.
ASSUME ConsoleAssumption ==
    RoleOf \in [Plugins -> Roles] /\ Core \cap Plugins = {} /\ "none" \notin Plugins

\* No two of the scenario files that are shipped share a stem, and no baseline folder
\* is called "root".
ASSUME StoreAssumption ==
    /\ \A f \in InitFiles : f = Store!File(f.dir, f.id, f.text)
    /\ \A f, g \in InitFiles : f.id = g.id => f = g
    /\ "root" \notin Baseline

\* Scores and numbers are numbers, and a flush is due only when there is something to write.
ASSUME EvidenceAssumption ==
    /\ \A row \in BagRows : row.safety \in Int
    /\ MaxSuffix \in Nat /\ InlineEvery \in Nat \ {0}

\* Delays, stamps, steps and sizes are numbers; an empty directory has no scenario to read;
\* the publishing period is a multiple of the model's step; no more messages are kept than
\* the list holds when one is dropped.
ASSUME NodesAssumption ==
    /\ OutLimit \in Nat /\ MaxStamp \in Nat
    /\ NoScenario \notin MockScenarios /\ Labelled \subseteq MockScenarios /\ FirstFile \in MockScenarios \cup {NoScenario}
    /\ FirstFile = NoScenario => \A s \in MockScenarios : Kind[s] = "unreadable"
    /\ Dt \in Nat \ {0} /\ Period \in Nat \ {0} /\ Period % Dt = 0
    /\ KeepTargets \in Nat \ {0} /\ MaxTargets \in Nat /\ KeepTargets <= MaxTargets + 1

\* The ends of a band of M4 are less than a turn apart, or the whole circle; the rudder of a
\* way point is within the stops.
ASSUME PilotAssumption ==
    /\ \A b \in Bands : b[1] \in Int /\ b[2] \in Int /\ b[2] - b[1] \in -360..360
    /\ Headings \subseteq Int /\ AvoidRate \in Nat /\ RouteRate \in Nat /\ WaypointRudder \in -35..35

\* The harness starts a fixed list of processes.
ASSUME ShellBAssumption == IsFiniteSet(Modules)
-----------------------------------------------------------------------------
(* Values of the constants for TLC.                                         *)

MCRoleOf       == [p \in {"p1", "p2", "g1"} |-> IF p = "g1" THEN "gnc" ELSE "planner"]
MCProfileRoles == [r \in {"planner"} |-> "p1"]

MCInitFiles ==
    {[dir |-> <<"imazu">>, id |-> 1, text |-> "x"],
     [dir |-> <<"imazu", "variants">>, id |-> 2, text |-> "x"],
     [dir |-> <<"own">>, id |-> 3, text |-> "x"]}

MCBagRows ==
    {[total |-> 90, safety |-> 90], [total |-> 90, safety |-> 60], [total |-> 30, safety |-> 90]}

MCKind == [s \in {"n", "d", "u"} |-> CASE s = "n" -> "nominal" [] s = "d" -> "no_route" [] s = "u" -> "unreadable"]

\* Until the first message there are no rules.
MCRuleStates == {{<<14, "partial">>}}

\* Across north, and M4's standby plan.
MCBands == {<<350, 20>>, <<0, 360>>}
-----------------------------------------------------------------------------
(* One part runs; the variables it does not use stay as they are.           *)

After3 == <<s4, s5, s6, s7, s8, s9, s10, s11, s12>>
After6 == <<s7, s8, s9, s10, s11, s12>>
After7 == <<s8, s9, s10, s11, s12>>
After8 == <<s9, s10, s11, s12>>
After9 == <<s10, s11, s12>>
After10 == <<s11, s12>>

MachineInit ==
    \/ /\ part = "gate" /\ Gate!Init
       /\ s11 = 0 /\ s12 = 0
    \/ /\ part = "console" /\ Console!Init
       /\ s7 = 0 /\ s8 = 0 /\ s9 = 0 /\ s10 = 0 /\ s11 = 0 /\ s12 = 0
    \/ /\ part = "store" /\ Store!Init
       /\ s4 = 0 /\ s5 = 0 /\ s6 = 0 /\ s7 = 0 /\ s8 = 0 /\ s9 = 0 /\ s10 = 0 /\ s11 = 0 /\ s12 = 0
    \/ /\ part = "export" /\ Export!Init
       /\ s7 = 0 /\ s8 = 0 /\ s9 = 0 /\ s10 = 0 /\ s11 = 0 /\ s12 = 0
    \/ /\ part = "session" /\ Session!Init
       /\ s8 = 0 /\ s9 = 0 /\ s10 = 0 /\ s11 = 0 /\ s12 = 0
    \/ part = "writer" /\ Writer!Init
    \/ /\ part = "display" /\ Display!Init
       /\ s9 = 0 /\ s10 = 0 /\ s11 = 0 /\ s12 = 0
    \/ /\ part = "mock" /\ Mock!Init
       /\ s7 = 0 /\ s8 = 0 /\ s9 = 0 /\ s10 = 0 /\ s11 = 0 /\ s12 = 0
    \/ part = "ship" /\ Ship!Init
    \/ /\ part = "wind" /\ Wind!Init
       /\ s8 = 0 /\ s9 = 0 /\ s10 = 0 /\ s11 = 0 /\ s12 = 0
    \/ /\ part = "scoring" /\ Scorer!Init
       /\ s10 = 0 /\ s11 = 0 /\ s12 = 0
    \/ part = "pilot" /\ Pilot!Init
    \/ part = "shellb" /\ ShellB!Init /\ s12 = 0

MachineNext ==
    \/ part = "gate" /\ Gate!Next /\ UNCHANGED After10
    \/ part = "console" /\ Console!Next /\ UNCHANGED After6
    \/ part = "store" /\ Store!Next /\ UNCHANGED After3
    \/ part = "export" /\ Export!Next /\ UNCHANGED After6
    \/ part = "session" /\ Session!Next /\ UNCHANGED After7
    \/ part = "writer" /\ Writer!Next
    \/ part = "display" /\ Display!Next /\ UNCHANGED After8
    \/ part = "mock" /\ Mock!Next /\ UNCHANGED After6
    \/ part = "ship" /\ Ship!Next
    \/ part = "wind" /\ Wind!Next /\ UNCHANGED After7
    \/ part = "scoring" /\ Scorer!Next /\ UNCHANGED After9
    \/ part = "pilot" /\ Pilot!Next
    \/ part = "shellb" /\ ShellB!Next /\ UNCHANGED s12
-----------------------------------------------------------------------------
(* The properties.                                                          *)

\* The orchestrator's permission to run is earned.  The self-check never says GO over a
\* gate that crashed or saw what forbids a run, whatever other self-checks run beside it,
\* and what one that ran alone leaves is its own and agrees with its verdict.  Two plugins
\* of one role never run together, unless a start that was given up on was carried out
\* later, and no probe says GO over two.  No request changes, removes or hides a scenario
\* below a baseline folder.
GoIsEarned ==
    /\ part = "gate" => Gate!GoMeansFit /\ Gate!EvidenceIsWhole
    /\ part = "console" => Console!OnePluginPerRole /\ Console!GoMeansSingle
    /\ part = "store" => Store!BaselinesUntouched

\* What a run leaves behind can be relied on.  A pack that says PASS was made from rows
\* of which none was unsafe; two sessions never share a directory and a kept one held
\* valid evidence; flushes of several threads, the timer and rotations lose and double no
\* record of the trace, and outside a callback less than an inline flush's worth is
\* unwritten.
EvidenceHolds ==
    /\ part = "export" => Export!PassMeansSafe
    /\ part = "session" => Session!OwnDirectory /\ Session!KeptWasValid
    /\ part = "writer" => Writer!NothingLost /\ Writer!TailIsShort

\* The simulation nodes give every scenario its own run.  The display shows MRC exactly
\* when it has a cause; the mock L2 is active while the last status was ACTIVE, what it
\* publishes is the route of the scenario it follows, or the configured one under that
\* route's id, and the newest matching one is ingested; every step of
\* simulated time is integrated once and published a period apart; a scenario run again
\* sees the same wind; no score overlooks one of the newest target messages and
\* scoring.arrow holds every row of the activation, once.
NodesReplayFaithfully ==
    /\ part = "display" => Display!MrcHasCause
    /\ part = "mock" => Mock!ActiveFollows /\ Mock!RouteOfScenario /\ Mock!NewestMatching
    /\ part = "ship" => Ship!TimeIntegrated /\ Ship!EvenCadence
    /\ part = "wind" => Wind!WindReplays
    /\ part = "scoring" => Scorer!NewestScored /\ Scorer!ArrowIsWhole

\* The lock-step ships steer by what they were told in this run.  Between callbacks an
\* avoidance has a course, in the band it began with, the rudder moves by its rate under
\* one law, and a tick is lost only to a release.  In shell B, when step() has returned,
\* every accepted client has executed exactly that step of that episode, whatever exited
\* or failed before; after a cold reset only the processes it started are believed; and
\* the ship never avoids without a course.
SteersByItsOwnRun ==
    /\ part = "pilot" => Pilot!AvoidingHasCourse /\ Pilot!RudderSlews /\ Pilot!TicksLostToRelease
    /\ part = "shellb" => ShellB!InLockstep /\ ShellB!ColdEpisodeClean /\ ShellB!AvoidsByCourse
=============================================================================
