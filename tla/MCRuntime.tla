------------------------------- MODULE MCRuntime -------------------------------
(***************************************************************************)
(* The parts that must get something done, checked in one run: the scenario *)
(* runner, the simulated remote operator, the forwarding of routes, the      *)
(* target vessel, the chain of its tracks, and M7's counter of checker       *)
(* vetoes.  They do not interact, so a behaviour is one of a single part,    *)
(* chosen at the start, and the states of the parts add instead of           *)
(* multiplying.  The parts share the variables s1, s2, ...: what each stands *)
(* for is said by the WITH of its instance, and a property looks at them     *)
(* only in its own part.                                                     *)
(***************************************************************************)
EXTENDS Integers, Sequences, FiniteSets

CONSTANTS
    MaxTor,                                       \* the operator
    Routes, NoRoute, MaxPlans, MaxChanges,        \* the routes
    ReactionDelay, ClearDwell, Turn, MaxTargets,  \* the target vessel
    Targets, MaxAge, AisPeriod, MaxRuns,          \* its tracks
    VetoCapacity, Layers                          \* the counter of vetoes

ASSUME RuntimeAssumption ==
    /\ MaxTor \in Nat /\ ReactionDelay \in Nat /\ ClearDwell \in Nat /\ Turn \in Nat
    /\ NoRoute \notin Routes /\ VetoCapacity \in Nat \ {0}

VARIABLES part, s1, s2, s3, s4, s5, s6, s7, s8, s9, s10, s11, s12

vars == <<part, s1, s2, s3, s4, s5, s6, s7, s8, s9, s10, s11, s12>>

-----------------------------------------------------------------------------
(* The parts and the bounds of their instances.                             *)

Runner == INSTANCE ScenarioRunner WITH
    Batch <- <<"a", "b">>, ReturnRequired <- {"a"}, TotalTime <- 2, WallLimit <- 6, StuckLimit <- 1,
    Attempts <- 2,
    pc <- s1, at <- s2, tries <- s3, sim <- s4, simT <- s5, lastT <- s6, lastCheck <- s7, stuck <- s8,
    wall <- s9, early <- s10, outcome <- s11

Roc == INSTANCE RocOperator WITH
    tor <- s1, response <- s2, timer <- s3, armed <- s4, firing <- s5, outbox <- s6, answers <- s7

Route == INSTANCE L2RouteAdaptor WITH
    active <- s1, last <- s2, pending <- s3, seen <- s4, alive <- s5, up <- s6, wire <- s7, planned <- s8,
    newest <- s9, seed <- s10, plans <- s11, changes <- s12

Target == INSTANCE TargetVessel WITH
    node <- s1, targets <- s2, fsm <- s3, heading <- s4, own <- s5, facing <- s6, sinceEnc <- s7, encFor <- s8

Chain == INSTANCE TrackChain WITH
    node <- s1, stage <- s2, run <- s3, live <- s4, sensed <- s5, wire <- s6, held <- s7, out <- s8

Counter == INSTANCE CheckerVetoCounter WITH
    kCapacity <- VetoCapacity,
    buffer <- s1, head <- s2, size <- s3, running_total <- s4, veto_occurred_this_cycle <- s5, tick <- s6
-----------------------------------------------------------------------------
(* One part runs; the variables it does not use stay as they are.           *)

After6 == <<s7, s8, s9, s10, s11, s12>>
After7 == <<s8, s9, s10, s11, s12>>
After8 == <<s9, s10, s11, s12>>

Init ==
    \/ /\ part = "runner" /\ Runner!Init
       /\ s12 = 0
    \/ /\ part = "roc" /\ Roc!Init
       /\ s8 = 0 /\ s9 = 0 /\ s10 = 0 /\ s11 = 0 /\ s12 = 0
    \/ part = "route" /\ Route!Init
    \/ /\ part = "target" /\ Target!Init
       /\ s9 = 0 /\ s10 = 0 /\ s11 = 0 /\ s12 = 0
    \/ /\ part = "chain" /\ Chain!Init
       /\ s9 = 0 /\ s10 = 0 /\ s11 = 0 /\ s12 = 0
    \/ /\ part = "counter" /\ Counter!Init
       /\ s7 = 0 /\ s8 = 0 /\ s9 = 0 /\ s10 = 0 /\ s11 = 0 /\ s12 = 0

Next ==
    /\ UNCHANGED part
    /\ \/ part = "runner" /\ Runner!Next /\ UNCHANGED s12
       \/ part = "roc" /\ Roc!Next /\ UNCHANGED After7
       \/ part = "route" /\ Route!Next
       \/ part = "target" /\ Target!Next /\ UNCHANGED After8
       \/ part = "chain" /\ Chain!Next /\ UNCHANGED After8
       \/ part = "counter" /\ Counter!Next /\ UNCHANGED After6

\* The fairness of each part's specification, said of its steps here.
RunnerSteps == WF_vars(part = "runner" /\ UNCHANGED <<part, s12>> /\ Runner!Next)

RocTimers == \A k \in 1..MaxTor :
    /\ WF_vars(part = "roc" /\ UNCHANGED <<part, After7>> /\ Roc!TimerRunsOut(k))
    /\ WF_vars(part = "roc" /\ UNCHANGED <<part, After7>> /\ Roc!AutoAccept(k))

RouteRetries ==
    /\ WF_vars(part = "route" /\ UNCHANGED part /\ Route!OnRetryTimer)
    /\ WF_vars(part = "route" /\ UNCHANGED part /\ Route!HandlePayload)

TargetSteps == WF_vars(part = "target" /\ UNCHANGED <<part, After8>> /\ Target!Step)

ChainTimers ==
    /\ WF_vars(part = "chain" /\ UNCHANGED <<part, After8>> /\ Chain!Tick)
    /\ WF_vars(part = "chain" /\ UNCHANGED <<part, After8>> /\ Chain!TrackCallback)
    /\ WF_vars(part = "chain" /\ UNCHANGED <<part, After8>> /\ Chain!AisCallback)
    /\ WF_vars(part = "chain" /\ UNCHANGED <<part, After8>> /\ \E m \in s6 : Chain!AisArrives(m))
    /\ \A t \in Targets : SF_vars(part = "chain" /\ UNCHANGED <<part, After8>> /\ Chain!Sends(t))

CounterTicks ==
    /\ WF_vars(part = "counter" /\ UNCHANGED <<part, After6>> /\ Counter!OnCycleTickPush)
    /\ WF_vars(part = "counter" /\ UNCHANGED <<part, After6>> /\ Counter!OnCycleTickClear)

Spec == /\ Init /\ [][Next]_vars
        /\ RunnerSteps /\ RocTimers /\ RouteRetries /\ TargetSteps /\ ChainTimers
        /\ CounterTicks
-----------------------------------------------------------------------------
(* The properties.                                                          *)

\* What races cannot break.  No take-over request is answered twice; the newest valid
\* route plan is the one forwarded last or the one waiting; at most one target obeys the
\* rules by its own machine; what the tracker publishes was heard in the scenario it is
\* published in.
NothingStale ==
    /\ part = "roc" => Roc!OneAnswer
    /\ part = "route" => Route!NewestKept
    /\ part = "target" => Target!OneFsmTarget
    /\ part = "chain" => Chain!RunIsolated

\* A target vessel turns away only after a whole reaction delay of encounter, and
\* returns to its course only after a whole dwell without one.
TargetTakesItsTime ==
    [][part = "target" => Target!ReturnsAfterDwell /\ Target!ReactsAfterDelay]_vars

\* What must get done is done.  The batch ends whatever the simulator does; in automatic
\* mode every take-over request is answered unless a newer one replaces it; once the
\* simulation stays ACTIVE and the ingress reachable, the newest valid plan is the one
\* forwarded; when the encounter stays away and the own ship is heard, the target ends up
\* on its nominal course; a target the sensor has heard of is tracked again and again
\* while the nodes are active.
EverythingGetsDone ==
    /\ <>(part = "runner" => s1 = "done")
    /\ \A k \in 1..MaxTor : (part = "roc" /\ s1 = k) ~> (part = "roc" => Roc!Answered(k))
    /\ <>[](part = "route" /\ Route!Reachable) => <>[](part = "route" => Route!Forwarded)
    /\ <>[](part = "target" /\ Target!Undisturbed) => <>[](part = "target" => Target!OnCourse)
    /\ \A t \in Targets :
          <>[](part = "chain" /\ Chain!Known(t)) => []<>(part = "chain" => Chain!Tracked(t))

\* M7's ring of samples, with its lazy head, its running total and the samples a reset
\* leaves behind, implements a memory of the last samples and of how many of them were
\* vetoes (RecentEvents), over wraps, resets and vetoes between the halves of a tick.
WindowImplements ==
    /\ part = "counter" => Counter!Abstract!Init
    /\ [][part = "counter" => [Counter!Abstract!Next]_<<Counter!Samples, s4>>]_vars

\* A rate that demands escalation goes away again once the vetoes stop: no sample
\* survives as many ticks as the ring has slots.
QuietWindowDrains ==
    <>[](part = "counter" /\ ~s5) => <>[](part = "counter" => s4 = 0)
=============================================================================
