------------------------------ MODULE TrackChain ------------------------------
(***************************************************************************)
(* From the simulated targets to the tracks M2 sees: sensor_mock hears the   *)
(* state of own ship and targets and sends AIS every AisPeriod, dropping     *)
(* some; tracker_mock keeps the last report of each target for MaxAge and    *)
(* publishes tracks.  The lifecycle bridge takes both, and the ships (the    *)
(* world), through a transition before it sends the next; each node takes it *)
(* in its own time.                                                         *)
(*                                                                          *)
(* First the geometry of two ships: the arithmetic of the tracker, and the    *)
(* velocity obstacle of the coverage runner.  Then the nodes.                *)
(*                                                                          *)
(* A report is the run it is of.  Time passes in steps of 2.5 s (AIS every   *)
(* 10 s is 4, an age of 5 s is 2), and callbacks that are due run within a   *)
(* step.                                                                    *)
(***************************************************************************)
EXTENDS Integers, FiniteSets, FiniteSetsExt, Functions

(* The arithmetic of the tracker: the closest approach of two ships on       *)
(* straight courses, the encounter sector of a bearing, and what the "god"   *)
(* and the "kf" tracker make of an AIS report.                               *)
(*                                                                          *)
(* Positions and velocities are integer vectors on the tangent plane, so     *)
(* that a time is a pair <<num, den>> and a squared distance is taken times  *)
(* den^2.  Bearings are in half degrees, 0..719.                             *)

Dot(a, b)   == a.x * b.x + a.y * b.y
Minus(a, b) == [x |-> a.x - b.x, y |-> a.y - b.y]
AtLeast0(n) == IF n > 0 THEN n ELSE 0

RelativeVelocity(own, tgt) == Minus(tgt.vel, own.vel)

\* compute_cpa_tcpa: the time, not before now, and what is left of the distance.
\* Ships without relative motion are closest now.
Tcpa(own, tgt) ==
    LET d == Minus(tgt.pos, own.pos)
        v == RelativeVelocity(own, tgt)
    IN << AtLeast0(-Dot(d, v)), IF Dot(v, v) = 0 THEN 1 ELSE Dot(v, v) >>

CpaSquared(own, tgt) ==
    LET d == Minus(tgt.pos, own.pos)
        v == RelativeVelocity(own, tgt)
        t == Tcpa(own, tgt)
        r == [x |-> d.x * t[2] + v.x * t[1], y |-> d.y * t[2] + v.y * t[1]]
    IN << Dot(r, r), t[2] * t[2] >>

RelativeBearing(cog, bearing)   == (bearing - cog) % 720
AspectAngle(cog, bearingFrom)   == (cog - bearingFrom - 360) % 720

\* classify_encounter: 1 abaft the beam, 2 ahead, 3 starboard (own ship gives way),
\* 4 port; 0 when the target opens or passes far off.
ClassifyEncounter(rb, near, closing) ==
    LET r == rb % 720 IN
    CASE ~closing \/ ~near      -> 0
      [] 225 <= r /\ r <= 495   -> 1
      [] r < 45 \/ r >= 675     -> 2
      [] 45 <= r /\ r < 225     -> 3
      [] OTHER                  -> 4

GiveWay(type) == type = 3

\* TrackerMockCore.track: the filter starts at rest and an update overwrites the
\* position only, so a filtered track stays at rest; a god track is the report.
Track(type, mmsi, report) ==
    [mmsi |-> mmsi, report |-> report, moving |-> type = "god"]
-----------------------------------------------------------------------------

\* compute_cpa_tcpa: no later moment brings the ships closer than the CPA, and each ship
\* reckons the same CPA and TCPA of the other.
CpaIsLeast(own, tgt, times) ==
    LET d == Minus(tgt.pos, own.pos)
        v == Minus(tgt.vel, own.vel)
        c == CpaSquared(own, tgt)
    IN /\ \A t \in times :
            LET r == [x |-> d.x + v.x * t, y |-> d.y + v.y * t] IN c[1] <= Dot(r, r) * c[2]
       /\ CpaSquared(tgt, own) = c /\ Tcpa(tgt, own) = Tcpa(own, tgt)

\* classify_encounter: of two ships on a collision course one sees the other to starboard
\* and is seen to port, or both see it ahead or astern; so never do both give way and
\* never do both stand on in a crossing.  The aspect published is the supplement of the
\* bearing the target sees own ship on.
OneGivesWay(cog, bearing, tgtCog) ==
    LET back  == (bearing + 360) % 720
        rb    == RelativeBearing(cog, bearing)
        tgtRb == RelativeBearing(tgtCog, back)
        own   == ClassifyEncounter(rb, TRUE, TRUE)
        tgt   == ClassifyEncounter(tgtRb, TRUE, TRUE)
    IN /\ (rb \in 1..359 /\ tgtRb \in 361..719) \/ (rb \in 361..719 /\ tgtRb \in 1..359) =>
            ~(GiveWay(own) /\ GiveWay(tgt)) /\ ~(own = 4 /\ tgt = 4)
       /\ (AspectAngle(tgtCog, back) + tgtRb) % 720 = 360

-----------------------------------------------------------------------------
(* The velocity obstacle by which the coverage runner steers a give-way      *)
(* ship.  Headings are in steps of five degrees, a velocity is hundredths    *)
(* of the speed; the angle between relative velocity and line of sight is    *)
(* compared with the cone's through their sines, so all is exact.            *)

\* The sine of 5 * n degrees, in hundredths.
Sine(n) ==
    LET quarter == <<0, 9, 17, 26, 34, 42, 50, 57, 64, 71, 77, 82, 87, 91, 94, 97, 98, 100, 100>>
        m == n % 72
    IN CASE m <= 18 -> quarter[m + 1]
         [] m <= 36 -> quarter[37 - m]
         [] m <= 54 -> -quarter[m - 35]
         [] OTHER   -> -quarter[73 - m]

Velocity(heading, speed) == [x |-> speed * Sine(heading), y |-> speed * Sine(heading + 18)]

Cross(a, b) == a.x * b.y - a.y * b.x

\* _in_cone: own at the origin, the other at d, safety radius r.
InCone(v, w, d, r) ==
    LET rel == Minus(v, w) IN
    \/ Dot(d, d) <= r * r
    \/ Dot(rel, d) > 0 /\ Cross(rel, d) * Cross(rel, d) < r * r * Dot(rel, rel)

\* range(30, 181, 5) in steps of five degrees.
Turns == 6..36

Clears(own, other, d, r, turn) ==
    ~InCone(Velocity(own.heading + turn, own.speed), Velocity(other.heading, other.speed), d, r)

\* get_avoidance_velocity: the heading; 175 degrees when no candidate clears the cone.
Avoidance(own, other, d, r) ==
    LET free == {t \in Turns : Clears(own, other, d, r, t)} IN
    IF Clears(own, other, d, r, 0) THEN own.heading
    ELSE IF free = {} THEN (own.heading + 35) % 72
    ELSE (own.heading + Min(free)) % 72

\* Whoever steers the heading that was returned comes no nearer than the radius, at no
\* time to come, when any course could: the cone, the radius and the sampled turns agree
\* with where the two ships go.
AvoidanceClears(own, other, d, r, times) ==
    LET heading == Avoidance(own, other, d, r)
        rel     == Minus(Velocity(heading, own.speed), Velocity(other.heading, other.speed))
        apart(t) == [x |-> 100 * d.x - rel.x * t, y |-> 100 * d.y - rel.y * t]
    IN (\E t \in Turns \cup {0} : Clears(own, other, d, r, t)) =>
        \A t \in times : Dot(apart(t), apart(t)) >= 10000 * r * r
-----------------------------------------------------------------------------
(* The nodes.                                                               *)

CONSTANTS Targets, MaxAge, AisPeriod, MaxRuns

VARIABLES node,    \* the last transition each node took
          stage,   \* the transition the bridge sent last
          run,     \* scenarios configured so far
          live,    \* the targets of this run and the type of its tracker
          sensed,  \* sensor_mock: own-ship state, target states, time to the next AIS
          wire,    \* AIS on its way
          held,    \* tracker_mock: AIS, own-ship state, radar, core, and done this step
          out      \* what the last track callback published

vars == <<node, stage, run, live, sensed, wire, held, out>>

Members   == {"world", "sensor", "tracker"}
Active(m) == node[m] = "activate"
Empty     == [t \in {} |-> 0]
NoCore    == "none"

Follows == [configure |-> {"activate", "cleanup"}, activate |-> {"deactivate"},
            deactivate |-> {"activate", "cleanup"}, cleanup |-> {"configure"}]

Init ==
    /\ node = [m \in Members |-> "cleanup"] /\ stage = "cleanup"
    /\ run = 0 /\ live = [targets |-> {}, type |-> "god"]
    /\ sensed = [own |-> 0, states |-> Empty, due |-> AisPeriod]
    /\ wire = {}
    /\ held = [ais |-> Empty, own |-> 0, radar |-> 0, core |-> NoCore, done |-> TRUE]
    /\ out = {}
-----------------------------------------------------------------------------
(* Lifecycle.                                                               *)

\* The bridge: a configure brings a scenario with its targets and its tracker.
Broadcast ==
    /\ \A m \in Members : node[m] = stage
    /\ stage' \in Follows[stage]
    /\ IF stage' = "configure"
       THEN /\ run < MaxRuns /\ run' = run + 1
            /\ live' \in [targets : SUBSET Targets, type : {"god", "kf"}]
       ELSE UNCHANGED <<run, live>>
    /\ UNCHANGED <<node, sensed, wire, held, out>>

Takes(m) == node[m] # stage /\ node' = [node EXCEPT ![m] = stage]

WorldTransition == Takes("world") /\ UNCHANGED <<stage, run, live, sensed, wire, held, out>>

\* Mutant: the states heard survive the cleanup.
SensorCleanupKeepsStates == [sensed EXCEPT !.own = 0]

\* on_cleanup of sensor_mock forgets what was heard; on_deactivate does not.
SensorCleanup == [sensed EXCEPT !.own = 0, !.states = Empty]

SensorTransition ==
    /\ Takes("sensor")
    /\ sensed' = CASE stage = "activate" -> [sensed EXCEPT !.due = AisPeriod]
                   [] stage = "cleanup"  -> SensorCleanup
                   [] OTHER              -> sensed
    /\ UNCHANGED <<stage, run, live, wire, held, out>>

\* on_deactivate of tracker_mock forgets at once; its subscriptions go as well, and
\* with them what was on the way.
TrackerTransition ==
    /\ Takes("tracker")
    /\ held' = CASE stage = "activate"   -> [held EXCEPT !.core = live.type, !.done = FALSE]
                 [] stage = "deactivate" -> [held EXCEPT !.ais = Empty, !.own = 0, !.radar = 0]
                 [] stage = "cleanup"    -> [held EXCEPT !.core = NoCore]
                 [] OTHER                -> held
    /\ wire' = IF stage = "deactivate" THEN {} ELSE wire
    /\ UNCHANGED <<stage, run, live, sensed, out>>
-----------------------------------------------------------------------------
(* Callbacks.                                                               *)

\* /sil/own_ship_state is best effort: any of its subscribers may miss one.
OwnState ==
    /\ Active("world")
    /\ \E sensor, tracker \in BOOLEAN :
        /\ sensed' = IF sensor /\ Active("sensor") THEN [sensed EXCEPT !.own = run] ELSE sensed
        /\ held' = IF tracker /\ Active("tracker") THEN [held EXCEPT !.own = run] ELSE held
    /\ UNCHANGED <<node, stage, run, live, wire, out>>

TargetState(t) ==
    /\ Active("world") /\ Active("sensor") /\ t \in live.targets
    /\ sensed' = [sensed EXCEPT !.states =
                    [u \in DOMAIN @ \cup {t} |-> IF u = t THEN run ELSE @[u]]]
    /\ UNCHANGED <<node, stage, run, live, wire, held, out>>

\* _radar_callback; the tracker keeps the measurement and makes nothing of it.
RadarCallback ==
    /\ Active("sensor") /\ sensed.own # 0 /\ Active("tracker")
    /\ held' = [held EXCEPT !.radar = run]
    /\ UNCHANGED <<node, stage, run, live, sensed, wire, out>>

\* _ais_callback: a report of every target heard of, unless generate_ais drops it.
AisCallback ==
    /\ Active("sensor") /\ sensed.due = 0
    /\ sensed' = [sensed EXCEPT !.due = AisPeriod]
    /\ \E kept \in SUBSET DOMAIN sensed.states :
        wire' = IF sensed.own = 0 \/ ~Active("tracker") THEN wire
                ELSE wire \cup {[mmsi |-> t, report |-> sensed.states[t]] : t \in kept}
    /\ UNCHANGED <<node, stage, run, live, held, out>>

AisArrives(m) ==
    /\ m \in wire /\ wire' = wire \ {m}
    /\ held' = [held EXCEPT !.ais = [u \in DOMAIN @ \cup {m.mmsi} |->
                    IF u = m.mmsi THEN [report |-> m.report, age |-> 0] ELSE @[u]]]
    /\ UNCHANGED <<node, stage, run, live, sensed, out>>

Fresh(t) == held.ais[t].age <= MaxAge

\* _track_callback: old reports are dropped; without any nothing is published.
TrackCallback ==
    /\ Active("tracker") /\ held.core # NoCore
    /\ LET fresh == {t \in DOMAIN held.ais : Fresh(t)} IN
        /\ held' = [held EXCEPT !.ais = Restrict(@, fresh), !.done = TRUE]
        /\ out' = {[track |-> Track(held.core, t, held.ais[t].report), own |-> held.own, during |-> run] :
                       t \in fresh}
    /\ UNCHANGED <<node, stage, run, live, sensed, wire>>

Older(ais) == [report |-> ais.report, age |-> ais.age + 1]

\* 2.5 s pass.
Tick ==
    /\ \E m \in {"sensor", "tracker"} : Active(m)
    /\ Active("sensor") => sensed.due > 0
    /\ Active("tracker") => held.done /\ wire = {}
    /\ sensed' = IF Active("sensor") THEN [sensed EXCEPT !.due = @ - 1] ELSE sensed
    /\ held' = [held EXCEPT !.done = FALSE, !.ais = [t \in DOMAIN @ |-> Older(@[t])]]
    /\ UNCHANGED <<node, stage, run, live, wire, out>>

Next ==
    \/ Broadcast \/ WorldTransition \/ SensorTransition \/ TrackerTransition
    \/ OwnState \/ (\E t \in Targets : TargetState(t)) \/ RadarCallback \/ AisCallback
    \/ (\E m \in wire : AisArrives(m)) \/ TrackCallback \/ Tick

\* Timers and deliveries go on; AIS of a target is not dropped for ever, which a drop
\* rate below 100 % justifies.
Sends(t) == AisCallback /\ \E m \in wire' : m.mmsi = t

Spec ==
    /\ Init /\ [][Next]_vars
    /\ WF_vars(Tick) /\ WF_vars(TrackCallback) /\ WF_vars(AisCallback)
    /\ WF_vars(\E m \in wire : AisArrives(m))
    /\ \A t \in Targets : SF_vars(Sends(t))
-----------------------------------------------------------------------------

\* What is published was heard in the scenario it is published in, target and own ship:
\* nothing of an earlier one gets through the cleanup of one node and the deactivation
\* of the other.
RunIsolated == \A o \in out : o.track.report = o.during /\ o.own \in {0, o.during}

Known(t) == stage = "activate" /\ (\A m \in Members : Active(m)) /\ sensed.own # 0 /\ t \in DOMAIN sensed.states

Tracked(t) == \E o \in out : o.track.mmsi = t

\* A target the sensor has heard of is tracked again and again while the nodes stay
\* active: though a track ends between two reports, it comes back.
TrackedAgain == \A t \in Targets : <>[]Known(t) => []<>Tracked(t)
-----------------------------------------------------------------------------
(* What keeps RunIsolated.                                                    *)

\* A node has taken the transition sent last or the one before it.
InStep ==
    /\ stage \in DOMAIN Follows
    /\ \A m \in Members : node[m] = stage \/ (node[m] \in DOMAIN Follows /\ stage \in Follows[node[m]])

\* A sensor that was cleaned up knows nothing, and any other only of this run.
SensedInRun ==
    /\ sensed.own \in {0, run} /\ \A t \in DOMAIN sensed.states : sensed.states[t] = run
    /\ node["sensor"] \in {"cleanup", "configure"} => sensed.own = 0 /\ DOMAIN sensed.states = {}

\* A tracker that is not active holds nothing and hears nothing, and an active one only
\* of this run.
HeldInRun ==
    /\ held.own \in {0, run} /\ \A t \in DOMAIN held.ais : held.ais[t].report = run
    /\ \A m \in wire : m.report = run
    /\ ~Active("tracker") => held.own = 0 /\ DOMAIN held.ais = {} /\ wire = {}

Shapes ==
    /\ node \in [Members -> DOMAIN Follows]
    /\ DOMAIN sensed = {"own", "states", "due"}
    /\ DOMAIN held = {"ais", "own", "radar", "core", "done"}
=============================================================================
