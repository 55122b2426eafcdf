------------------------------- MODULE MockL2 -------------------------------
(***************************************************************************)
(* The two other sources of /l2/planned_route: the mock L2 publisher, which  *)
(* follows the scenario, and the ingest node, which passes on the guidance's *)
(* route plans that match the scenario.  Both hear the lifecycle status and  *)
(* the scenario_loaded event, in any order and repeatedly.                   *)
(*                                                                          *)
(* Two settings are read once, at the start: whether the mock publishes      *)
(* routes at all (SIL_MOCK_L2_ROUTE_ENABLE), and the waypoints of a mock_l2   *)
(* section (SIL_SCENARIO_YAML), which take the place of every scenario's.    *)
(*                                                                          *)
(* Waypoints are a route's name: a scenario's own, the default one at the    *)
(* scenario's start, the default one at the fixed place, or the configured.  *)
(* Densifying, distances and headings are left out.                         *)
(***************************************************************************)
EXTENDS Naturals, FiniteSets

CONSTANTS Scenarios,  \* scenario ids
          NoScenario,
          Kind,       \* Kind[s]: what the YAML of s is: "nominal", "no_route" or "unreadable"
          Labelled,   \* scenarios whose YAML can be read and bears the scenario's id
          FirstFile,  \* the first YAML of the scenario directory, or NoScenario in an empty one
          MaxStamp,   \* bound on the stamps of the guidance's plans
          MaxMessages

Route(s, from) == [at |-> s, from |-> from]

NoRoute    == Route(NoScenario, "none")
Fixed      == Route(NoScenario, "default")
Configured == Route(NoScenario, "config")

\* _load_scenario with _generate_default_route, and _load_expected_route.
RouteFor(s)      == IF s = NoScenario \/ Kind[s] = "unreadable" THEN Fixed
                    ELSE Route(s, IF Kind[s] = "no_route" THEN "default" ELSE "nominal")
ExpectedRoute(s) == IF Kind[s] = "nominal" THEN RouteFor(s) ELSE NoRoute

Nothing == [sid |-> NoScenario, route |-> NoRoute, id |-> NoRoute]

VARIABLES mock,      \* [enabled, config, active, sid, route, id, shown]; config: NoRoute or Configured
          ingest,    \* [sid, expected, stamp, published]
          status,    \* history: the last lifecycle status was ACTIVE
          received,  \* history: plans the ingest accepted, with their order
          replies,   \* replan requests answered
          messages

vars == <<mock, ingest, status, received, replies, messages>>

Init ==
    /\ \E enabled \in BOOLEAN, config \in {NoRoute, Configured} :
           mock = [enabled |-> enabled, config |-> config, active |-> FALSE, sid |-> NoScenario,
                   route |-> NoRoute, id |-> NoRoute, shown |-> Nothing]
    /\ ingest = [sid |-> NoScenario, expected |-> NoRoute, stamp |-> 0, published |-> NoRoute]
    /\ status = FALSE /\ received = {} /\ replies = 0 /\ messages = 0

Message == messages < MaxMessages /\ messages' = messages + 1
-----------------------------------------------------------------------------
(* The mock.                                                                *)

\* _activate: the id is a digest of the waypoints that were loaded.
Activate(s, route) ==
    mock' = [mock EXCEPT !.active = TRUE, !.sid = s, !.route = route, !.id = route]

LoadScenario(s) == Activate(s, RouteFor(s))

\* _auto_detect_scenario: the file that bears the known id, else the first file.
AutoDetect ==
    IF FirstFile = NoScenario THEN Activate(mock.sid, Fixed)
    ELSE LoadScenario(IF mock.sid \in Labelled THEN mock.sid ELSE FirstFile)

MockLifecycle(state, s) ==
    IF ~state THEN mock' = [mock EXCEPT !.active = FALSE]
    ELSE IF s # NoScenario THEN IF s = mock.sid /\ mock.active THEN UNCHANGED mock ELSE LoadScenario(s)
    ELSE IF mock.active THEN UNCHANGED mock ELSE AutoDetect

MockLoaded(s) == IF s = mock.sid /\ mock.active THEN UNCHANGED mock ELSE LoadScenario(s)

\* _on_route_timer with _publish_planned_route: configured waypoints replace the loaded
\* ones, for good; the id stays that of the loaded ones.
PublishRoute ==
    IF mock.active /\ mock.enabled
    THEN LET route == IF mock.config # NoRoute THEN mock.config ELSE mock.route
         IN  mock' = [mock EXCEPT !.route = route,
                                  !.shown = [sid |-> mock.sid, route |-> route, id |-> mock.id]]
    ELSE UNCHANGED mock
-----------------------------------------------------------------------------
(* The ingest.                                                              *)

IngestScenario(s) ==
    ingest' = IF s \in {NoScenario, ingest.sid} THEN ingest
              ELSE [ingest EXCEPT !.sid = s, !.expected = ExpectedRoute(s)]

\* Mutant: plans that arrive late replace newer ones.
NotStaleAny(stamp) == TRUE

NotStale(stamp) == stamp >= ingest.stamp

\* _on_route and _publish_internal
OnRoute(route, stamp) ==
    /\ Message
    /\ IF ingest.expected \in {NoRoute, route} /\ NotStale(stamp)
       THEN ingest' = [ingest EXCEPT !.stamp = stamp, !.published = route]
       ELSE UNCHANGED ingest
    /\ received' = IF ingest.expected \in {NoRoute, route}
                   THEN received \cup {[route |-> route, stamp |-> stamp]} ELSE received
    /\ UNCHANGED <<mock, status, replies>>
-----------------------------------------------------------------------------
(* What both hear.                                                          *)

OnLifecycleStatus(state, s) ==
    /\ Message /\ status' = state
    /\ MockLifecycle(state, s)
    /\ IF state THEN IngestScenario(s) ELSE UNCHANGED ingest
    /\ UNCHANGED <<received, replies>>

\* The mock activates though the status may not be ACTIVE yet.
OnScenarioLoaded(s) ==
    /\ Message /\ MockLoaded(s) /\ IngestScenario(s)
    /\ UNCHANGED <<status, received, replies>>

\* Answered with SUCCESS at once, and the route published again.
OnReplanRequest ==
    /\ Message /\ PublishRoute /\ replies' = replies + 1
    /\ UNCHANGED <<ingest, status, received>>

OnRouteTimer == PublishRoute /\ UNCHANGED <<ingest, status, received, replies, messages>>

Next ==
    \/ \E state \in BOOLEAN, s \in Scenarios \cup {NoScenario} : OnLifecycleStatus(state, s)
    \/ \E s \in Scenarios : OnScenarioLoaded(s)
    \/ \E s \in Scenarios, stamp \in 1..MaxStamp : OnRoute(RouteFor(s), stamp)
    \/ OnReplanRequest \/ OnRouteTimer

Spec == Init /\ [][Next]_vars
-----------------------------------------------------------------------------

\* While the last status was ACTIVE the mock publishes, also after the simulation was
\* stopped and started again with the scenario it knows already.
ActiveFollows == status => mock.active

\* A route is published under the id of the route of the scenario the mock followed, also
\* when that scenario's file could not be read or was found by itself.  It is that very
\* route, unless waypoints are configured: then it is these, whatever the scenario.  With
\* routes switched off none is published.
RouteOfScenario ==
    /\ mock.active => mock.id = RouteFor(mock.sid) /\ mock.route \in {mock.id, mock.config} \ {NoRoute}
    /\ mock.shown # Nothing =>
        /\ mock.enabled
        /\ mock.shown.id = RouteFor(mock.shown.sid)
        /\ mock.shown.route = IF mock.config # NoRoute THEN mock.config ELSE mock.shown.id

\* The ingest's route is one of the newest that matched when they came.
NewestMatching ==
    \A p \in received : p.stamp <= ingest.stamp /\ [route |-> ingest.published, stamp |-> ingest.stamp] \in received
=============================================================================
