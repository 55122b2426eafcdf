--------------------------- MODULE LockstepAutopilot ---------------------------
(***************************************************************************)
(* The autopilot of the lock-step simulation with internal dynamics.  The    *)
(* callbacks run in the executor's thread, the tick in the free-run thread,  *)
(* without a lock: a tick reads avoiding, then the course, then uses it, and *)
(* a callback sets or clears the two one after the other.                    *)
(*                                                                          *)
(* Angles are degrees; the heading a tick is given is what                   *)
(* _math_heading_to_nav_heading returns, radians taken for degrees.  A tick  *)
(* moves a command by AvoidRate or RouteRate at most.  The throttle follows  *)
(* the law of the tick and is left out.                                      *)
(***************************************************************************)
EXTENDS Integers

CONSTANTS Bands,       \* heading bands <<heading_min_deg, heading_max_deg>> of M4
          Headings, AvoidRate, RouteRate, WaypointRudder,
          StaleTicks,  \* ticks after which the last valid plan is stale (10 s)
          MaxTicks, MaxReleases  \* bounds

VARIABLES plan,     \* band of _last_behavior_plan and whether it is M4's fallback
          avoiding, \* _avoidance_active
          course,   \* _avoidance_target_heading_deg, None or degrees
          onset,    \* history: the band the avoidance began with
          enabled,  \* _autopilot_enabled
          allowed,  \* the envelope allows the autopilot
          validAt,  \* _last_valid_plan_time
          now,      \* ticks
          ctl,      \* last_cmd_deg of the two controllers
          tick,     \* where the free-run thread is in its tick
          call,     \* where the executor is in a callback
          out       \* history: law of the last tick unless a release came after it, the
                    \* rudder of the last two ticks, releases, lost ticks

vars == <<plan, avoiding, course, onset, enabled, allowed, validAt, now, ctl, tick, call, out>>

None   == -1
NoPlan == [band |-> <<None, None>>, fallback |-> FALSE]

Init ==
    /\ plan = NoPlan /\ avoiding = FALSE /\ course = None /\ onset = <<None, None>>
    /\ enabled = FALSE /\ allowed = TRUE /\ validAt = 0 /\ now = 0
    /\ ctl = [avoid |-> 0, route |-> 0] /\ tick = "idle" /\ call = "idle"
    /\ out = [law |-> "none", rudder |-> 0, was |-> 0, same |-> FALSE, releases |-> 0, lost |-> 0]
-----------------------------------------------------------------------------
(* Arithmetic.                                                              *)

\* Five sixths of the way through the band.
CourseIn(band) ==
    LET hi == IF band[2] < band[1] THEN band[2] + 360 ELSE band[2]
    IN (band[1] + (5 * (hi - band[1])) \div 6) % 360

Error(aim, heading) == ((aim - heading + 180) % 360) - 180

Clamp(n, lo, hi) == IF n < lo THEN lo ELSE IF n > hi THEN hi ELSE n

\* HeadingController.step with Kp = 1
HeadingStep(last, error, rate) == Clamp(Clamp(error, -35, 35), last - rate, last + rate)
-----------------------------------------------------------------------------
(* The callbacks.                                                           *)

\* A behaviour plan that comes while the course is missing also sets it.
CbBehavior(band, fallback) ==
    /\ call = "idle"
    /\ plan' = [band |-> band, fallback |-> fallback]
    /\ course' = IF avoiding /\ course = None THEN CourseIn(band) ELSE course
    /\ UNCHANGED <<avoiding, onset, enabled, allowed, validAt, now, ctl, tick, call, out>>

\* A plan with a way point begins an avoidance, once M4 has given a band.
CbPlanValid ==
    /\ call = "idle" /\ validAt' = now
    /\ IF ~avoiding /\ plan # NoPlan
       THEN avoiding' = TRUE /\ onset' = plan.band /\ call' = "onset"
       ELSE UNCHANGED <<avoiding, onset, call>>
    /\ UNCHANGED <<plan, course, enabled, allowed, now, ctl, tick, out>>

CbPlanCourse ==
    /\ call = "onset" /\ call' = "idle" /\ course' = CourseIn(plan.band)
    /\ UNCHANGED <<plan, avoiding, onset, enabled, allowed, validAt, now, ctl, tick, out>>

\* A plan without one ends it, whether the autopilot is enabled or not.
CbPlanEmpty ==
    /\ call = "idle" /\ avoiding /\ out.releases < MaxReleases
    /\ avoiding' = FALSE /\ call' = "release"
    /\ out' = [out EXCEPT !.releases = @ + 1, !.law = "none", !.same = FALSE]
    /\ UNCHANGED <<plan, course, onset, enabled, allowed, validAt, now, ctl, tick>>

CbPlanReleased ==
    /\ call = "release" /\ call' = "idle"
    /\ course' = None /\ ctl' = [ctl EXCEPT !.avoid = 0]
    /\ out' = [out EXCEPT !.law = "none", !.same = FALSE]
    /\ UNCHANGED <<plan, avoiding, onset, enabled, allowed, validAt, now, tick>>

CbOdd ==
    /\ call = "idle" /\ allowed' \in BOOLEAN
    /\ UNCHANGED <<plan, avoiding, course, onset, enabled, validAt, now, ctl, tick, call, out>>
-----------------------------------------------------------------------------
(* The tick.                                                                *)

Steered(law, rudder) ==
    /\ out' = [out EXCEPT !.law = law, !.rudder = rudder, !.was = out.rudder, !.same = (law = out.law)]
    /\ tick' = "idle"

\* Whether the autopilot is enabled is decided first.
TickBegins ==
    /\ tick = "idle" /\ now < MaxTicks
    /\ now' = now + 1 /\ tick' = "enabled"
    /\ enabled' = (allowed /\ (now + 1 - validAt > StaleTicks \/ plan.fallback))
    /\ UNCHANGED <<plan, avoiding, course, onset, allowed, validAt, ctl, call, out>>

\* The avoidance has precedence; without one the autopilot steers the route, or nobody.
TickReadsActive ==
    /\ tick = "enabled"
    /\ \/ avoiding /\ tick' = "active" /\ UNCHANGED <<ctl, out>>
       \/ /\ ~avoiding /\ enabled
          /\ \E h \in Headings :
                LET cmd == HeadingStep(ctl.route, Error(0, h), RouteRate)
                IN ctl' = [ctl EXCEPT !.route = cmd] /\ Steered("route", cmd)
       \/ ~avoiding /\ ~enabled /\ Steered("cruise", 0) /\ UNCHANGED ctl
    /\ UNCHANGED <<plan, avoiding, course, onset, enabled, allowed, validAt, now, call>>

\* Mutant: the course is taken to be there.
TickReadsCourseUnchecked ==
    /\ tick = "active" /\ tick' = "course"
    /\ UNCHANGED <<plan, avoiding, course, onset, enabled, allowed, validAt, now, ctl, call, out>>

\* Without a course the turn radius of the way point gives the rudder.
TickReadsCourse ==
    /\ tick = "active"
    /\ \/ course # None /\ tick' = "course" /\ UNCHANGED out
       \/ course = None /\ Steered("waypoint", WaypointRudder)
    /\ UNCHANGED <<plan, avoiding, course, onset, enabled, allowed, validAt, now, ctl, call>>

\* A course that has been cleared meanwhile raises, and the tick is lost.
TickSteers ==
    /\ tick = "course"
    /\ \/ /\ course # None
          /\ \E h \in Headings :
                LET cmd == HeadingStep(ctl.avoid, Error(course, h), AvoidRate)
                IN ctl' = [ctl EXCEPT !.avoid = cmd] /\ Steered("avoid", cmd)
       \/ /\ course = None /\ UNCHANGED ctl
          /\ tick' = "idle" /\ out' = [out EXCEPT !.lost = @ + 1]
    /\ UNCHANGED <<plan, avoiding, course, onset, enabled, allowed, validAt, now, call>>

Next ==
    \/ \E band \in Bands, fallback \in BOOLEAN : CbBehavior(band, fallback)
    \/ CbPlanValid \/ CbPlanCourse \/ CbPlanEmpty \/ CbPlanReleased \/ CbOdd
    \/ TickBegins \/ TickReadsActive \/ TickReadsCourse \/ TickSteers

Spec == Init /\ [][Next]_vars
-----------------------------------------------------------------------------
(* Properties.                                                              *)

\* Clockwise from the lower to the upper limit; 0 to 360 is the whole circle.
Within(angle, band) ==
    (angle - band[1]) % 360 <= IF band[1] <= band[2] THEN band[2] - band[1] ELSE band[2] - band[1] + 360

\* Between callbacks there is a course exactly when an avoidance is on, and it lies in
\* the band M4 had given when the avoidance began.
AvoidingHasCourse ==
    call = "idle" => IF avoiding THEN course # None /\ Within(course, onset) ELSE course = None

\* Under one law, and with no release in between, the rudder moves by its rate at most
\* from tick to tick, and never beyond the stops.
RudderSlews ==
    LET moved == out.rudder - out.was
        rate  == IF out.law = "avoid" THEN AvoidRate ELSE RouteRate IN
    /\ out.rudder \in -35..35
    /\ out.same /\ out.law \in {"avoid", "route"} => moved \in -rate..rate

\* A tick is lost only to a release: one at most for each.
TicksLostToRelease == out.lost <= out.releases
=============================================================================
