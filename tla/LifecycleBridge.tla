---------------------------- MODULE LifecycleBridge ----------------------------
(***************************************************************************)
(* LifecycleBridge and the lifecycle routes of the orchestrator: REST        *)
(* requests drive scenario_lifecycle_mgr (the primary) and then broadcast    *)
(* each transition to the other lifecycle nodes.  Requests and the two       *)
(* auto-stop timers are asyncio tasks: they interleave at their awaits, and  *)
(* a service call that is given up after its deadline may still be executed. *)
(*                                                                          *)
(* A broadcast sends to every node before it first awaits, so sending is one *)
(* step; each node takes its transitions in the order sent.  The primary's   *)
(* machine is that of ScenarioLifecycleMgr; its clock is in                  *)
(* LifecycleManagerNode.  A fault is a call that is not answered in time or  *)
(* not delivered; MaxFaults bounds them, MaxOps the requests.  Parameters a  *)
(* node could not be given are not counted among the faults.                 *)
(***************************************************************************)
EXTENDS ScenarioLifecycleMgr, Sequences

CONSTANTS Nodes,      \* the lifecycle nodes besides the primary
          Partial,    \* scenarios whose file names no target ships
          TargetNodes,\* nodes that get parameters from the target ships only
          Timed,      \* scenarios with a total_time or a duration_s
          Requests,   \* requests that may be under way at a time
          MaxOps, MaxFaults

ASSUME BridgeAssumption ==
    /\ NoScenario \notin Scenarios /\ Timed \subseteq Scenarios
    /\ Partial \subseteq Scenarios /\ TargetNodes \subseteq Nodes
    /\ {"timer", "backup", "nobody"} \cap Requests = {}
    /\ MaxOps \in Nat /\ MaxFaults \in Nat

VARIABLES mirror,      \* _state
          scenario,    \* _scenario_id
          duration,    \* _simulation_duration_s is set
          task,        \* the tasks and where they are
          fsm,         \* the primary's machine; its state is also its ROS state
          queue,       \* calls to the primary not yet executed
          reply,       \* the answer each task waits for
          param,       \* the scenario each node last had parameters of
          node,        \* each node: ROS state, and the parameters it configured with
          sent,        \* transitions on their way to each node
          run,         \* scenario.yaml of the last run directory
          ops, faults, \* bounded counters
          autoStopped, \* history: the last stop was the timer's
          overlapped   \* history: two requests, or a request and the timer's stop, were
                       \* under way at once

\* The nodes a scenario has parameters for.
Provides(s) == IF s \in Partial THEN Nodes \ TargetNodes ELSE Nodes

Tasks   == Requests \cup {"timer", "backup"}
bridge  == <<mirror, scenario, duration>>
primary == <<fsm, queue, reply>>
nodes   == <<param, node, sent>>
vars    == <<bridge, task, primary, nodes, run, ops, faults, autoStopped, overlapped>>

Idle == [pc |-> "idle", op |-> "none", arg |-> NoScenario]

Init ==
    /\ mirror = "UNCONFIGURED" /\ scenario = NoScenario /\ duration = FALSE
    /\ task = [t \in Tasks |-> Idle]
    /\ fsm = NewMachine /\ queue = <<>> /\ reply = [t \in Tasks |-> "none"]
    /\ param = [n \in Nodes |-> NoScenario]
    /\ node = [n \in Nodes |-> [ros |-> "UNCONFIGURED", scenario |-> NoScenario]]
    /\ sent = [n \in Nodes |-> <<>>]
    /\ run = NoScenario /\ ops = 0 /\ faults = 0 /\ autoStopped = FALSE
    /\ overlapped = FALSE
-----------------------------------------------------------------------------
(* The other ends of the calls.                                             *)

Legal == [CONFIGURE |-> "UNCONFIGURED", ACTIVATE |-> "INACTIVE",
          DEACTIVATE |-> "ACTIVE", CLEANUP |-> "INACTIVE"]
Reached == [CONFIGURE |-> "INACTIVE", ACTIVATE |-> "ACTIVE",
            DEACTIVATE |-> "INACTIVE", CLEANUP |-> "UNCONFIGURED"]

\* rclpy lets a transition through from the state it leaves, and rejects it
\* otherwise; the callbacks of the primary then call its machine.
Transition(m, tr, s) ==
    CASE tr = "CONFIGURE"  -> Configure(m, s, "internal", "realtime")
      [] tr = "ACTIVATE"   -> Activate(m, 0)
      [] tr = "DEACTIVATE" -> Deactivate(m)
      [] tr = "CLEANUP"    -> Cleanup(m)

PrimaryHandles ==
    /\ queue # <<>>
    /\ LET call == Head(queue)
           ok   == fsm.state = Legal[call.tr]
       IN  /\ fsm' = IF ok THEN Transition(fsm, call.tr, call.arg) ELSE fsm
           /\ reply' = [t \in Tasks |-> IF t = call.by THEN IF ok THEN "ok" ELSE "rejected"
                                        ELSE reply[t]]
           /\ autoStopped' = IF call.tr = "DEACTIVATE" /\ ok THEN call.by = "timer"
                             ELSE autoStopped
    /\ queue' = Tail(queue)
    /\ UNCHANGED <<bridge, task, nodes, run, ops, faults, overlapped>>

NodeHandles(n) ==
    /\ sent[n] # <<>>
    /\ LET tr == Head(sent[n])
       IN  node' = IF node[n].ros # Legal[tr] THEN node
                   ELSE [node EXCEPT ![n].ros = Reached[tr],
                                     ![n].scenario = IF tr = "CONFIGURE" THEN param[n] ELSE @]
    /\ sent' = [sent EXCEPT ![n] = Tail(@)]
    /\ UNCHANGED <<bridge, task, primary, param, run, ops, faults, autoStopped, overlapped>>
-----------------------------------------------------------------------------
(* Parts of the bridge the operations share.                                *)

Goto(t, pc)  == task' = [task EXCEPT ![t].pc = pc]
Finish(t)    == task' = [task EXCEPT ![t] = Idle]

\* Another request is under way, or a call somebody else made.
OthersBusy(t) == \E u \in Requests \ {t} : task[u].pc # "idle"
OthersCall(t) == queue # <<>> \/ \E u \in Tasks \ {t} : reply[u] # "none"

\* _change_state: the call, and later its outcome.
Call(t, tr, s) ==
    /\ queue' = Append(queue, [by |-> t, tr |-> tr, arg |-> s])
    /\ reply' = [reply EXCEPT ![t] = "waiting"]
    /\ overlapped' = (overlapped \/ OthersBusy(t) \/ OthersCall(t))

Disown(q, ts) == [i \in DOMAIN q |-> IF q[i].by \in ts THEN [q[i] EXCEPT !.by = "nobody"] ELSE q[i]]

Succeeded(t) ==
    /\ reply[t] = "ok"
    /\ reply' = [reply EXCEPT ![t] = "none"]
    /\ UNCHANGED <<queue, faults>>

\* Rejected, or given up after 15 s with the call still on its way.
Failed(t) ==
    /\ \/ reply[t] = "rejected" /\ UNCHANGED <<queue, faults>>
       \/ /\ reply[t] = "waiting" /\ faults < MaxFaults
          /\ faults' = faults + 1 /\ queue' = Disown(queue, {t})
    /\ reply' = [reply EXCEPT ![t] = "none"]

\* _broadcast_transition, to the nodes whose service is there in time.
Broadcast(tr, reached) == sent' = [n \in Nodes |->
                                      IF n \in reached THEN Append(sent[n], tr) ELSE sent[n]]

Reach(reached, spent) == reached = Nodes \/ (spent < MaxFaults /\ Nodes \ reached # {})

Spent(reached, spent) == IF reached = Nodes THEN spent ELSE spent + 1

\* Cancelling the timers: what a cancelled timer was waiting for is disowned.
Cancelled(tasks) == [t \in Tasks |-> IF t \in {"timer", "backup"} THEN Idle ELSE tasks[t]]
-----------------------------------------------------------------------------
(* configure, and the cleanup route: both reset everything first.            *)

StartReset(r, op, s) ==
    /\ task[r].pc = "idle" /\ ops < MaxOps
    /\ duration' = IF op = "configure" THEN s \in Timed ELSE duration
    /\ task' = [Cancelled(task) EXCEPT ![r] =
                   [pc |-> "reset", op |-> op, arg |-> s]]
    /\ queue' = Disown(queue, {"timer"})
    /\ reply' = [reply EXCEPT !["timer"] = "none"]
    /\ ops' = ops + 1 /\ overlapped' = (overlapped \/ OthersBusy(r))
    /\ UNCHANGED <<mirror, scenario, fsm, nodes, run, faults, autoStopped>>

\* Mutant: an active node is cleaned up without being stopped.
ResetScriptCleansOnly(state) == IF state \in {"ACTIVE", "INACTIVE"} THEN <<"CLEANUP">> ELSE <<>>

\* _reset_secondary_node: what a node is sent follows from the state it reports,
\* which it does once it is through with the transitions sent before; a node that
\* does not report in time is skipped.
ResetScript(state) == CASE state = "ACTIVE"   -> <<"DEACTIVATE", "CLEANUP">>
                        [] state = "INACTIVE" -> <<"CLEANUP">>
                        [] OTHER              -> <<>>

ResetNodes(r, reached) ==
    /\ task[r].pc = "reset" /\ Reach(reached, faults)
    /\ \A n \in reached : sent[n] = <<>>
    /\ sent' = [n \in Nodes |-> IF n \in reached THEN ResetScript(node[n].ros) ELSE sent[n]]
    /\ faults' = Spent(reached, faults)
    /\ Goto(r, "reset_primary")
    /\ UNCHANGED <<bridge, primary, param, node, run, ops, autoStopped, overlapped>>

\* With the nodes' answers in, the primary is asked for its real state; one that
\* does not say is taken for unconfigured.
ResetDone(r) == IF task[r].op = "configure" THEN Goto(r, "inject") ELSE Finish(r)

ResetPrimary(r) ==
    /\ task[r].pc = "reset_primary" /\ \A n \in Nodes : sent[n] = <<>>
    /\ \/ /\ fsm.state = "UNCONFIGURED" \/ faults < MaxFaults
          /\ faults' = IF fsm.state = "UNCONFIGURED" THEN faults ELSE faults + 1
          /\ mirror' = "UNCONFIGURED" /\ ResetDone(r) /\ UNCHANGED <<queue, reply, overlapped>>
       \/ /\ fsm.state = "ACTIVE"
          /\ Call(r, "DEACTIVATE", NoScenario) /\ Goto(r, "reset_stop")
          /\ UNCHANGED <<mirror, faults>>
       \/ /\ fsm.state = "INACTIVE"
          /\ Call(r, "CLEANUP", NoScenario) /\ Goto(r, "reset_clean")
          /\ UNCHANGED <<mirror, faults>>
    /\ UNCHANGED <<scenario, duration, fsm, nodes, run, ops, autoStopped>>

ResetStopped(r) ==
    /\ task[r].pc = "reset_stop" /\ reply[r] = "ok"
    /\ mirror' = "INACTIVE"
    /\ Call(r, "CLEANUP", NoScenario) /\ Goto(r, "reset_clean")
    /\ UNCHANGED <<scenario, duration, fsm, nodes, run, ops, faults, autoStopped>>

ResetCleaned(r) ==
    /\ task[r].pc = "reset_clean" /\ Succeeded(r)
    /\ mirror' = "UNCONFIGURED" /\ ResetDone(r)
    /\ UNCHANGED <<scenario, duration, fsm, nodes, run, ops, autoStopped, overlapped>>

\* Mutant: a failed injection is only logged.
InjectLogsFailures(r, reached) ==
    /\ task[r].pc = "inject"
    /\ param' = [n \in Nodes |-> IF n \in reached \cap Provides(task[r].arg)
                                 THEN task[r].arg ELSE param[n]]
    /\ Call(r, "CONFIGURE", task[r].arg) /\ Goto(r, "configure")
    /\ UNCHANGED <<bridge, fsm, node, sent, run, ops, faults, autoStopped>>

\* An injection that fails, or whose answer comes too late, ends the request; the nodes
\* reached keep their parameters.  Such failures are bounded by the requests alone.
Inject(r, reached) ==
    /\ task[r].pc = "inject"
    /\ param' = [n \in Nodes |-> IF n \in reached \cap Provides(task[r].arg)
                                 THEN task[r].arg ELSE param[n]]
    /\ \/ /\ Provides(task[r].arg) \subseteq reached
          /\ Call(r, "CONFIGURE", task[r].arg) /\ Goto(r, "configure")
       \/ Finish(r) /\ UNCHANGED <<queue, reply, overlapped>>
    /\ UNCHANGED <<bridge, fsm, node, sent, run, ops, faults, autoStopped>>

Configured(r, reached) ==
    /\ task[r].pc = "configure" /\ reply[r] = "ok" /\ Reach(reached, faults)
    /\ reply' = [reply EXCEPT ![r] = "none"]
    /\ scenario' = task[r].arg /\ mirror' = "INACTIVE"
    /\ Broadcast("CONFIGURE", reached) /\ faults' = Spent(reached, faults)
    /\ Finish(r)
    /\ UNCHANGED <<duration, fsm, queue, param, node, run, ops, autoStopped, overlapped>>

\* Any call of a request that fails ends the request there.
RequestFails(r) ==
    /\ task[r].pc \in {"reset_stop", "reset_clean", "configure", "activate", "deactivate"}
    /\ Failed(r)
    /\ Finish(r)
    /\ UNCHANGED <<bridge, fsm, nodes, run, ops, autoStopped, overlapped>>
-----------------------------------------------------------------------------
(* activate and deactivate.                                                 *)

StartActivate(r) ==
    /\ task[r].pc = "idle" /\ ops < MaxOps /\ ops' = ops + 1
    /\ Call(r, "ACTIVATE", NoScenario) /\ Goto(r, "activate")
    /\ UNCHANGED <<bridge, fsm, nodes, run, faults, autoStopped>>

Activated(r, reached) ==
    /\ task[r].pc = "activate" /\ reply[r] = "ok" /\ Reach(reached, faults)
    /\ reply' = [reply EXCEPT ![r] = "none"]
    /\ mirror' = "ACTIVE"
    /\ Broadcast("ACTIVATE", reached) /\ faults' = Spent(reached, faults)
    /\ Goto(r, "schedule")
    /\ UNCHANGED <<scenario, duration, fsm, queue, param, node, run, ops, autoStopped, overlapped>>

\* Mutant: the timers are cancelled and not started again.
ScheduleNothing(r) ==
    /\ task[r].pc = "schedule"
    /\ task' = [task EXCEPT ![r] = Idle, !["timer"] = Idle, !["backup"] = Idle]
    /\ queue' = Disown(queue, {"timer"})
    /\ reply' = [reply EXCEPT !["timer"] = "none"]
    /\ run' = IF scenario # NoScenario THEN scenario ELSE run
    /\ UNCHANGED <<bridge, fsm, nodes, ops, faults, autoStopped, overlapped>>

\* The broadcast over, the timers are replaced and the route makes the run
\* directory of the scenario configured by then.
ScheduleTimers(r) ==
    /\ task[r].pc = "schedule"
    /\ LET asleep == [Idle EXCEPT !.pc = IF duration THEN "asleep" ELSE "idle"]
       IN  task' = [task EXCEPT ![r] = Idle, !["timer"] = asleep, !["backup"] = asleep]
    /\ queue' = Disown(queue, {"timer"})
    /\ reply' = [reply EXCEPT !["timer"] = "none"]
    /\ run' = IF scenario # NoScenario THEN scenario ELSE run
    /\ UNCHANGED <<bridge, fsm, nodes, ops, faults, autoStopped, overlapped>>

\* A bridge that believes the run has stopped answers success at once.
DeactivateAlready(t) ==
    /\ mirror = "INACTIVE"
    /\ task' = Cancelled(task)
    /\ UNCHANGED <<bridge, primary, nodes, run, faults, autoStopped, overlapped>>

DeactivateCall(t) ==
    /\ mirror # "INACTIVE"
    /\ Call(t, "DEACTIVATE", NoScenario) /\ Goto(t, "deactivate")
    /\ UNCHANGED <<bridge, fsm, nodes, run, faults, autoStopped>>

StartDeactivate(r) ==
    /\ task[r].pc = "idle" /\ ops < MaxOps /\ ops' = ops + 1
    /\ DeactivateAlready(r) \/ DeactivateCall(r)

Deactivated(r, reached) ==
    /\ task[r].pc = "deactivate" /\ reply[r] = "ok" /\ Reach(reached, faults)
    /\ reply' = [reply EXCEPT ![r] = "none", !["timer"] = "none"]
    /\ queue' = Disown(queue, {"timer"})
    /\ mirror' = "INACTIVE"
    /\ Broadcast("DEACTIVATE", reached) /\ faults' = Spent(reached, faults)
    /\ task' = [Cancelled(task) EXCEPT ![r] = Idle]
    /\ UNCHANGED <<scenario, duration, fsm, param, node, run, ops, autoStopped, overlapped>>
-----------------------------------------------------------------------------
(* The timers.                                                              *)

TimerExpires ==
    /\ task["timer"].pc = "asleep" /\ ops' = ops
    /\ DeactivateAlready("timer") \/ DeactivateCall("timer")

\* Mutant: the stop is not recorded.
TimerStoppedUnnoticed ==
    /\ task["timer"].pc = "deactivate" /\ Succeeded("timer")
    /\ task' = Cancelled(task)
    /\ UNCHANGED <<bridge, fsm, nodes, run, ops, autoStopped, overlapped>>

\* deactivate cancels _timer_task, which is the task it runs in: the pending
\* cancellation is delivered at its next await, the gather of the broadcast,
\* and takes the broadcast with it before anything is sent.
TimerStopped ==
    /\ task["timer"].pc = "deactivate" /\ Succeeded("timer")
    /\ mirror' = "INACTIVE"
    /\ task' = Cancelled(task)
    /\ UNCHANGED <<scenario, duration, fsm, nodes, run, ops, autoStopped, overlapped>>

TimerFails ==
    /\ task["timer"].pc = "deactivate" /\ Failed("timer")
    /\ Finish("timer")
    /\ UNCHANGED <<bridge, fsm, nodes, run, ops, autoStopped, overlapped>>

\* 30 s later, unless cancelled: only the mirror changes.  The timer has its
\* 15 s answer or its failure by then.
BackupExpires ==
    /\ task["backup"].pc = "asleep" /\ task["timer"].pc = "idle"
    /\ mirror' = "INACTIVE"
    /\ task' = Cancelled(task)
    /\ UNCHANGED <<scenario, duration, primary, nodes, run, ops, faults, autoStopped, overlapped>>
-----------------------------------------------------------------------------

Request(r) ==
    \/ \E s \in Scenarios : StartReset(r, "configure", s)
    \/ StartReset(r, "cleanup", NoScenario)
    \/ \E reached \in SUBSET Nodes : \/ ResetNodes(r, reached) \/ Inject(r, reached)
                                     \/ Configured(r, reached) \/ Activated(r, reached)
                                     \/ Deactivated(r, reached)
    \/ ResetPrimary(r) \/ ResetStopped(r) \/ ResetCleaned(r) \/ RequestFails(r)
    \/ StartActivate(r) \/ ScheduleTimers(r) \/ StartDeactivate(r)

Timers == TimerExpires \/ TimerStopped \/ TimerFails \/ BackupExpires

Next ==
    \/ \E r \in Requests : Request(r)
    \/ Timers \/ PrimaryHandles
    \/ \E n \in Nodes : NodeHandles(n)

\* Tasks under way, the timers and the nodes go on; nobody has to send requests.
Fairness ==
    /\ \A r \in Requests : WF_vars(Request(r) /\ task[r].pc # "idle")
    /\ WF_vars(Timers) /\ WF_vars(PrimaryHandles)
    /\ \A n \in Nodes : WF_vars(NodeHandles(n))

Spec == Init /\ [][Next]_vars /\ Fairness
-----------------------------------------------------------------------------
(* Properties.                                                              *)

\* Every variable keeps its type.
TypeOK ==
    /\ mirror \in States /\ scenario \in Scenarios \cup {NoScenario} /\ duration \in BOOLEAN
    /\ fsm \in Machine /\ \A t \in Tasks : reply[t] \in {"none", "waiting", "ok", "rejected"}
    /\ \A t \in Tasks : task[t].pc \in
          {"idle", "reset", "reset_primary", "reset_stop", "reset_clean", "inject",
           "configure", "activate", "schedule", "deactivate", "asleep"}
    /\ \A n \in Nodes : node[n].ros \in States /\ node[n].scenario \in Scenarios \cup {NoScenario}
    /\ param \in [Nodes -> Scenarios \cup {NoScenario}]
    /\ run \in Scenarios \cup {NoScenario} /\ ops \in 0..MaxOps /\ faults \in 0..MaxFaults

\* Nothing is under way: no request, no call, no transition to a node.
Quiescent ==
    /\ \A r \in Requests : task[r].pc = "idle"
    /\ task["timer"].pc # "deactivate"
    /\ queue = <<>> /\ \A n \in Nodes : sent[n] = <<>>

\* Between requests the orchestrator's idea of the state is the primary's, and a
\* deactivate it answers at once ("already INACTIVE") leaves no run going, unless
\* a call has timed out or a request overlapped the timer's stop.
MirrorAgrees == Quiescent /\ faults = 0 /\ ~overlapped => mirror = fsm.state

\* Between requests every node is where the primary is, and in a run it works
\* with the parameters of the run's scenario wherever the scenario has some; the
\* run directory holds that scenario.  Unless a call was lost, calls overlapped, or
\* the timer stopped the run.
NodesFollow ==
    Quiescent /\ faults = 0 /\ ~overlapped /\ ~autoStopped =>
        \A n \in Nodes :
            /\ node[n].ros = fsm.state
            /\ fsm.state # "UNCONFIGURED" /\ n \in Provides(fsm.scenario)
                  => node[n].scenario = fsm.scenario
            /\ fsm.state = "ACTIVE" => run = fsm.scenario

\* With no request under way, no call lost and none overlapping, the bridge's mirror is
\* the primary's state, and every node is where the primary is with the parameters of
\* the scenario the primary runs.
BridgeAndNodesAgree == TypeOK /\ MirrorAgrees /\ NodesFollow

\* Whatever injections have failed, a primary that is configured has the scenario whose
\* parameters every node it has some for was given last: a configure whose injection
\* fails ("fail-loud") has taken the primary out of its old scenario and leaves it
\* UNCONFIGURED, so that no activate that follows runs on parameters of two scenarios.
\* Unless a call was lost or calls overlapped.
ConfiguredIsInjected ==
    faults = 0 /\ ~overlapped /\ fsm.state # "UNCONFIGURED" =>
        \A n \in Provides(fsm.scenario) : param[n] = fsm.scenario

\* A run of a scenario with a duration is stopped by its timer if by nothing else,
\* as long as no call is lost and no request overlaps the timer's call.
RunEnds ==
    (fsm.state = "ACTIVE" /\ duration /\ faults = 0) ~>
        (fsm.state # "ACTIVE" \/ faults > 0 \/ overlapped)

\* "broadcasts configure/activate/deactivate/cleanup to all SIL lifecycle nodes"
\* (lifecycle_bridge.py:3): after an auto-stop, too, no node goes on running.
AutoStopReachesNodes ==
    Quiescent /\ faults = 0 /\ fsm.state # "ACTIVE" =>
        \A n \in Nodes : node[n].ros # "ACTIVE"
=============================================================================
