---------------------------- MODULE RuntimeConsole ----------------------------
(***************************************************************************)
(* The runtime console of the orchestrator: plugin manifests and profiles,   *)
(* the switching of a role from one plugin's service to another's through    *)
(* docker compose, the core stack, and the GO / NO-GO of a probe.            *)
(*                                                                          *)
(* A plugin is its compose service.  A compose command succeeds, fails with  *)
(* nothing done, or is given up on at its timeout while the engine carries   *)
(* it out later; through the engine socket it is done service by service and *)
(* may stop half way.                                                       *)
(***************************************************************************)
EXTENDS Naturals, FiniteSets

CONSTANTS Roles, Plugins, RoleOf,  \* the manifests: RoleOf[p] is p's role
          ProfileRoles,            \* the active profile's plugin of some roles
          Core,                    \* the core services
          MaxSteps                 \* bound on the commands issued

VARIABLES running,   \* services up
          late,      \* commands given up on that the engine may still carry out
          override,  \* override[r]: the plugin switched to, or "none"
          timedOut,  \* a command was given up on (history)
          verdict,   \* of the last probe, with what it saw
          steps

vars == <<running, late, override, timedOut, verdict, steps>>
-----------------------------------------------------------------------------
(* Manifests: what load_runtime_profile accepts of a profile's roles.       *)

\* _parse_plugin_roles: a known role, a known plugin, and one made for that role.
ParsePluginRoles(profile) ==
    \A r \in DOMAIN profile : r \in Roles /\ profile[r] \in Plugins /\ RoleOf[profile[r]] = r

Init ==
    /\ ParsePluginRoles(ProfileRoles)
    /\ running = Core \cup {ProfileRoles[r] : r \in DOMAIN ProfileRoles}
    /\ late = {} /\ override = [r \in Roles |-> "none"] /\ timedOut = FALSE
    /\ verdict = [answer |-> "none", saw |-> {}] /\ steps = 0

EffectivePluginRoles(r) ==
    IF override[r] # "none" THEN override[r]
    ELSE IF r \in DOMAIN ProfileRoles THEN ProfileRoles[r] ELSE "none"
-----------------------------------------------------------------------------
(* Commands.                                                                *)

Issue == steps < MaxSteps /\ steps' = steps + 1

Stopped(ss, s) == ss \ {s}
Started(ss, s) == ss \cup {s}

\* Mutant: the old service is not stopped first.
SwitchKeepsOld(r, p) ==
    /\ Issue /\ p \in Plugins /\ RoleOf[p] = r
    /\ running' = Started(running, p)
    /\ override' = [override EXCEPT ![r] = p]
    /\ UNCHANGED <<late, timedOut, verdict>>

\* Stop the old service, start the new one, remember the choice.
SwitchPlugin(r, p) ==
    LET old == EffectivePluginRoles(r) IN
    /\ Issue /\ p \in Plugins /\ RoleOf[p] = r
    /\ running' = Started(IF old = "none" THEN running ELSE Stopped(running, old), p)
    /\ override' = [override EXCEPT ![r] = p]
    /\ UNCHANGED <<late, timedOut, verdict>>

\* The old one is stopped and the start fails: the role is left without a service,
\* and the console still believes in the old one.
SwitchStartFails(r, p) ==
    LET old == EffectivePluginRoles(r) IN
    /\ Issue /\ p \in Plugins /\ RoleOf[p] = r
    /\ running' = IF old = "none" THEN running ELSE Stopped(running, old)
    /\ UNCHANGED <<late, override, timedOut, verdict>>

\* The same with the start given up on: the engine may still carry it out.
SwitchStartTimesOut(r, p) ==
    LET old == EffectivePluginRoles(r) IN
    /\ Issue /\ p \in Plugins /\ RoleOf[p] = r
    /\ running' = IF old = "none" THEN running ELSE Stopped(running, old)
    /\ late' = late \cup {p} /\ timedOut' = TRUE
    /\ UNCHANGED <<override, verdict>>

LateStart ==
    \E p \in late : running' = Started(running, p) /\ late' = late \ {p}
        /\ UNCHANGED <<override, timedOut, verdict, steps>>

StartCoreStack == Issue /\ running' = running \cup Core /\ UNCHANGED <<late, override, timedOut, verdict>>
StopCoreStack  == Issue /\ running' = running \ Core /\ UNCHANGED <<late, override, timedOut, verdict>>

\* Service by service through the engine, up to the first that fails.
StopCoreHalfway ==
    /\ Issue
    /\ \E done \in SUBSET Core : running' = running \ done
    /\ UNCHANGED <<late, override, timedOut, verdict>>

ServiceDies == \E s \in running : running' = running \ {s} /\ UNCHANGED <<late, override, timedOut, verdict, steps>>

\* _gates: all core services, and in every role just the plugin expected there.
Gates(up) ==
    /\ Core \subseteq up
    /\ \A r \in {RoleOf[p] : p \in Plugins} :
        {p \in Plugins : RoleOf[p] = r /\ p \in up} = {EffectivePluginRoles(r)} \ {"none"}

Probe ==
    /\ verdict' = [answer |-> IF Gates(running) THEN "GO" ELSE "NO-GO", saw |-> running]
    /\ UNCHANGED <<running, late, override, timedOut, steps>>

Next ==
    \/ \E r \in Roles, p \in Plugins :
        SwitchPlugin(r, p) \/ SwitchStartFails(r, p) \/ SwitchStartTimesOut(r, p)
    \/ LateStart \/ StartCoreStack \/ StopCoreStack \/ StopCoreHalfway \/ ServiceDies \/ Probe

Spec == Init /\ [][Next]_vars
-----------------------------------------------------------------------------

PluginsUp(r, up) == {p \in Plugins : RoleOf[p] = r /\ p \in up}

\* Two plugins of one role never run together, whatever commands fail and services
\* die, unless a start was given up on and carried out by the engine later.
OnePluginPerRole ==
    ~timedOut => \A r \in Roles : Cardinality(PluginsUp(r, running)) <= 1

\* A GO is never given over two plugins in one role, not even after late starts.
GoMeansSingle ==
    verdict.answer = "GO" => \A r \in Roles : Cardinality(PluginsUp(r, verdict.saw)) <= 1
=============================================================================
