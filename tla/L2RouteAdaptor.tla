---------------------------- MODULE L2RouteAdaptor ----------------------------
(***************************************************************************)
(* The path of an external L2 route into the TDL: the seed file written when *)
(* the simulation becomes ACTIVE, the adaptor that validates a route plan,   *)
(* caches it while the simulation is not ACTIVE and forwards it over TCP     *)
(* with retries, and the ingress that publishes what arrives.                *)
(*                                                                          *)
(* A route is its signature.  An invalid plan is one that the validation of  *)
(* its fields refuses.  Every connection is a thread of the ingress.         *)
(***************************************************************************)
EXTENDS Naturals, FiniteSets

CONSTANTS Routes,     \* valid routes
          NoRoute,
          MaxPlans,   \* bound on the plans the planner sends
          MaxChanges  \* bound on the changes of the lifecycle and of the ingress

VARIABLES active,    \* the adaptor's _active
          last,      \* _last_signature
          pending,   \* _pending_signature, with its route
          seen,      \* _seen_valid_route
          alive,     \* the adaptor's process
          up,        \* the ingress accepts connections
          wire,      \* payloads in the ingress's threads
          planned,   \* the latched /l2/planned_route
          newest,    \* history: the newest valid plan the adaptor received
          seed,      \* the seed file: "absent" or "written"
          plans, changes

vars == <<active, last, pending, seen, alive, up, wire, planned, newest, seed, plans, changes>>

Init ==
    /\ active = FALSE /\ last = NoRoute /\ pending = NoRoute /\ seen = FALSE /\ alive = TRUE
    /\ up \in BOOLEAN /\ wire = {} /\ planned = NoRoute /\ newest = NoRoute
    /\ seed = "absent" /\ plans = 0 /\ changes = 0
-----------------------------------------------------------------------------
(* The adaptor.                                                             *)

ShouldForwardRoute(route) == last # route

\* Mutant: a route that is on its way already leaves an older one pending.
ForwardKeepsPending(route) ==
    IF ~ShouldForwardRoute(route)
    THEN UNCHANGED <<last, pending, wire>>
    ELSE \/ up /\ wire' = wire \cup {route} /\ last' = route /\ pending' = NoRoute
         \/ ~up /\ pending' = route /\ UNCHANGED <<last, wire>>

\* _forward_if_new; a connection that is refused, or breaks, is an OSError.
ForwardIfNew(route) ==
    IF ~ShouldForwardRoute(route)
    THEN /\ pending' = IF pending \notin {NoRoute, route} THEN NoRoute ELSE pending
         /\ UNCHANGED <<last, wire>>
    ELSE \/ up /\ wire' = wire \cup {route} /\ last' = route /\ pending' = NoRoute
         \/ ~up /\ pending' = route /\ UNCHANGED <<last, wire>>

\* A valid plan; an invalid one is logged and nothing else.
OnRoutePlan(route) ==
    /\ alive /\ plans < MaxPlans /\ plans' = plans + 1
    /\ seen' = TRUE /\ newest' = route
    /\ IF active THEN ForwardIfNew(route)
       ELSE pending' = route /\ UNCHANGED <<last, wire>>
    /\ UNCHANGED <<active, alive, up, planned, seed, changes>>

\* The seed node sees the same status: on the first ACTIVE it writes the file aside
\* and moves it into place; a failure is logged and tried at the next status.
SeedOnActive(state) ==
    IF state /\ seed # "written" THEN seed' \in {"written", seed} ELSE UNCHANGED seed

OnLifecycleStatus(state) ==
    /\ alive /\ changes < MaxChanges /\ changes' = changes + 1
    /\ active' = state
    /\ IF state /\ ~active /\ pending # NoRoute THEN ForwardIfNew(pending)
       ELSE UNCHANGED <<last, pending, wire>>
    /\ SeedOnActive(state)
    /\ UNCHANGED <<seen, alive, up, planned, newest, plans>>

\* Mutant: the timer only helps the first route out.
RetryFirstOnly ==
    /\ alive /\ pending # NoRoute /\ active /\ last = NoRoute /\ ForwardIfNew(pending)
    /\ UNCHANGED <<active, seen, alive, up, planned, newest, seed, plans, changes>>

OnRetryTimer ==
    /\ alive /\ pending # NoRoute /\ active /\ ForwardIfNew(pending)
    /\ UNCHANGED <<active, seen, alive, up, planned, newest, seed, plans, changes>>

\* os._exit(2)
OnStartupTimeout ==
    /\ alive /\ ~seen /\ alive' = FALSE
    /\ UNCHANGED <<active, last, pending, seen, up, wire, planned, newest, seed, plans, changes>>
-----------------------------------------------------------------------------
(* The ingress.                                                             *)

\* _handle_payload of one connection; threads publish in any order.
HandlePayload ==
    /\ \E r \in wire : planned' = r /\ wire' = wire \ {r}
    /\ UNCHANGED <<active, last, pending, seen, alive, up, newest, seed, plans, changes>>

IngressChanges ==
    /\ changes < MaxChanges /\ changes' = changes + 1 /\ up' = ~up
    /\ UNCHANGED <<active, last, pending, seen, alive, wire, planned, newest, seed, plans>>

Next ==
    \/ \E r \in Routes : OnRoutePlan(r)
    \/ \E s \in BOOLEAN : OnLifecycleStatus(s)
    \/ OnRetryTimer \/ OnStartupTimeout \/ HandlePayload \/ IngressChanges

\* The retry timer fires while the process lives, and the ingress's threads run.
Spec == Init /\ [][Next]_vars /\ WF_vars(OnRetryTimer) /\ WF_vars(HandlePayload)
-----------------------------------------------------------------------------

\* The newest valid plan is never displaced by an older one: it is the one forwarded
\* last or the one waiting, however caching, failures, retries and repeated plans mix.
NewestKept == newest # NoRoute => newest \in {last, pending}

\* Once the simulation stays ACTIVE and the ingress reachable, the newest valid plan is
\* the one forwarded.
Reachable == active /\ up /\ alive
Forwarded == newest # NoRoute => last = newest

\* What keeps NewestKept: only the newest plan ever waits.
PendingIsNewest == pending \in {NoRoute, newest}
=============================================================================
