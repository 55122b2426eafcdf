------------------------- MODULE LifecycleManagerNode -------------------------
(***************************************************************************)
(* LifecycleManagerNode: the clock of a simulation.  Lifecycle, parameter    *)
(* and timer callbacks run one after another on the node's executor; in the  *)
(* free_run mode a thread of its own steps the clock in lockstep with TCP    *)
(* clients, and overlaps the callbacks.  The overlap is visible where the    *)
(* callbacks share state with it: on_activate starts the thread before it    *)
(* activates the machine, on_deactivate stops the machine, then the thread.  *)
(*                                                                          *)
(* The joined thread always ends: each of its blocking calls gives up after  *)
(* 0.5 s and on_deactivate waits 2 s, so the join is not modelled as timing  *)
(* out.  The internal dynamics of a step (autopilot, own ship, target) are    *)
(* left out: they move positions, not the clock.                            *)
(***************************************************************************)
EXTENDS ScenarioLifecycleMgr, FiniteSets

CONSTANTS Clients,          \* lockstep clients that may connect
          LockstepClients,  \* the lockstep_clients parameter
          Rates,            \* rates a caller sets
          MaxCatchupTicks,  \* _MAX_CATCHUP_TICKS
          MaxWall, MaxSim   \* bounds of the two clocks

ASSUME NodeAssumption ==
    /\ NoScenario \notin Scenarios /\ Scenarios # {}
    /\ Rates \subseteq Nat
    /\ LockstepClients \in 1..Cardinality(Clients)
    /\ MaxCatchupTicks \in Nat \ {0} /\ MaxWall \in Nat /\ MaxSim \in Nat

VARIABLES fsm, wall,
          ros,       \* state of the managed node, kept by rclpy
          param,     \* parameter store; runRate: the rate was set with a run configured
          timers,    \* the sim clock timer exists and _run_start_wall is set
          executor,  \* what the executor is in the middle of
          freeRun,   \* _free_run_active
          listening, \* _server_sock is open
          thread,    \* where the free-run thread is, or "none"
          clients,   \* _clients
          unacked,   \* STEPs a client has not acknowledged
          due,       \* history: ticks the wall clock has allowed the run
          clock,     \* last message of /clock, latched: scenario and time
          status     \* last message of /sil/lifecycle_status, latched

runVars    == <<timers, executor>>
threadVars == <<freeRun, listening, thread, clients, unacked>>
topics     == <<clock, status>>
vars       == <<fsm, wall, ros, param, runVars, threadVars, due, topics>>

NoClock  == [scenario |-> NoScenario, time |-> 0]
ClockNow(m) == [scenario |-> m.scenario, time |-> m.simTime]

Init ==
    /\ fsm = NewMachine /\ wall = 0 /\ ros = "unconfigured"
    /\ param = [scenario |-> NoScenario, rate |-> 1, runRate |-> FALSE,
                clockMode |-> "realtime"]
    /\ timers = FALSE /\ executor = "spin"
    /\ freeRun = FALSE /\ listening = FALSE /\ thread = "none" /\ clients = {}
    /\ unacked = [c \in Clients |-> 0]
    /\ due = 0 /\ clock = NoClock /\ status = StatusDict(NewMachine)
-----------------------------------------------------------------------------
(* Parameters.                                                              *)

\* The scenario and the clock mode are only stored: on_configure and
\* on_activate read them.
SetScenarioParameters(scenario, clockMode) ==
    /\ executor = "spin" /\ ros = "unconfigured"
    /\ param' = [param EXCEPT !.scenario = scenario, !.clockMode = clockMode]
    /\ UNCHANGED <<fsm, wall, ros, runVars, threadVars, due, topics>>

\* A negative rate is refused, so a rate here is not negative.
OnSetParameters(rate) ==
    /\ executor = "spin"
    /\ param' = [param EXCEPT !.rate = rate, !.runRate = (ros # "unconfigured")]
    /\ fsm' = SetSimRate(fsm, rate, wall)
    /\ UNCHANGED <<wall, ros, runVars, threadVars, due, topics>>
-----------------------------------------------------------------------------
(* Lifecycle callbacks; ros is what rclpy lets through.                      *)

\* The rate parameter outlives the run: it is applied on top of the reset.
OnConfigure ==
    /\ executor = "spin" /\ ros = "unconfigured"
    /\ fsm' = LET m == Configure(fsm, param.scenario, "internal", param.clockMode)
              IN  IF param.rate # 1 THEN SetSimRate(m, param.rate, wall) ELSE m
    /\ ros' = "inactive" /\ due' = 0
    /\ UNCHANGED <<wall, param, runVars, threadVars, topics>>

\* Mutant: the latched topics keep the last message of the previous run.
ActivatedSilently == fsm' = Activate(fsm, wall) /\ UNCHANGED topics

\* The last part of on_activate, which both modes share: the machine, and a
\* first message on each latched topic.
Activated ==
    /\ fsm' = Activate(fsm, wall)
    /\ status' = StatusDict(fsm')
    /\ clock' = ClockNow(fsm')

OnActivateRealtime ==
    /\ executor = "spin" /\ ros = "inactive" /\ param.clockMode = "realtime"
    /\ Activated
    /\ timers' = TRUE /\ ros' = "active"
    /\ UNCHANGED <<wall, param, executor, threadVars, due>>

OnActivateStartsThread ==
    /\ executor = "spin" /\ ros = "inactive" /\ param.clockMode = "free_run"
    /\ freeRun' = TRUE /\ thread' = "bind" /\ executor' = "activating"
    /\ UNCHANGED <<fsm, wall, ros, param, timers, listening, clients, unacked, due, topics>>

OnActivateFreeRun ==
    /\ executor = "activating"
    /\ Activated
    /\ ros' = "active" /\ executor' = "spin"
    /\ UNCHANGED <<wall, param, timers, threadVars, due>>

OnDeactivate ==
    /\ executor = "spin" /\ ros = "active"
    /\ fsm' = Deactivate(fsm)
    /\ timers' = FALSE /\ executor' = "stopping"
    /\ UNCHANGED <<wall, ros, param, threadVars, due, topics>>

\* Mutant: _free_run_active stays set.
OnDeactivateClosesOnly ==
    /\ executor = "stopping"
    /\ clients' = {} /\ listening' = FALSE /\ unacked' = [c \in Clients |-> 0]
    /\ executor' = "joining"
    /\ UNCHANGED <<fsm, wall, ros, param, timers, freeRun, thread, due, topics>>

OnDeactivateStopsThread ==
    /\ executor = "stopping"
    /\ freeRun' = FALSE /\ clients' = {} /\ listening' = FALSE
    /\ unacked' = [c \in Clients |-> 0]
    /\ executor' = "joining"
    /\ UNCHANGED <<fsm, wall, ros, param, timers, thread, due, topics>>

\* Mutant: the thread is not waited for.
OnDeactivateDoesNotJoin ==
    /\ executor = "joining"
    /\ ros' = "inactive" /\ executor' = "spin"
    /\ UNCHANGED <<fsm, wall, param, timers, threadVars, due, topics>>

OnDeactivateJoined ==
    /\ executor = "joining" /\ thread = "none"
    /\ ros' = "inactive" /\ executor' = "spin"
    /\ UNCHANGED <<fsm, wall, param, timers, threadVars, due, topics>>

OnCleanup ==
    /\ executor = "spin" /\ ros = "inactive"
    /\ fsm' = Cleanup(fsm) /\ ros' = "unconfigured"
    /\ UNCHANGED <<wall, param, runVars, threadVars, due, topics>>
-----------------------------------------------------------------------------
(* Timers.                                                                  *)

\* Ticks one callback emits: up to the target, never more than the cap.
CatchupTicks ==
    LET target == TargetSim(fsm, wall)
        behind == IF fsm.simTime < target THEN target - fsm.simTime ELSE 0
    IN  IF behind < MaxCatchupTicks THEN behind ELSE MaxCatchupTicks

ClockCallback ==
    /\ executor = "spin" /\ timers /\ CatchupTicks > 0
    /\ fsm.simTime + CatchupTicks <= MaxSim
    /\ fsm' = [fsm EXCEPT !.simTime = @ + CatchupTicks]
    /\ clock' = ClockNow(fsm')
    /\ UNCHANGED <<wall, ros, param, runVars, threadVars, due, status>>

StatusCallback ==
    /\ executor = "spin" /\ ros = "active"
    /\ status' = StatusDict(fsm)
    /\ UNCHANGED <<fsm, wall, ros, param, runVars, threadVars, due, clock>>

\* One wall tick: a realtime run is allowed as many ticks as its rate.
WallTick ==
    /\ wall < MaxWall /\ executor = "spin"
    /\ wall' = wall + 1
    /\ due' = due + (IF timers THEN fsm.simRate ELSE 0)
    /\ due' <= MaxSim
    /\ UNCHANGED <<fsm, ros, param, runVars, threadVars, topics>>
-----------------------------------------------------------------------------
(* The free-run thread.                                                     *)

unchangedByThread == <<wall, ros, param, runVars, due, status>>

\* Binding may fail, and then the thread ends with the machine still ACTIVE.
ThreadBind ==
    /\ thread = "bind"
    /\ \/ thread' = "accept" /\ listening' = TRUE /\ clients' = {}
       \/ thread' = "none" /\ UNCHANGED <<listening, clients>>
    /\ UNCHANGED <<fsm, freeRun, unacked, clock, unchangedByThread>>

ThreadAccept(c) ==
    /\ thread = "accept" /\ freeRun /\ listening
    /\ c \notin clients /\ Cardinality(clients) < LockstepClients
    /\ clients' = clients \cup {c} /\ unacked' = [unacked EXCEPT ![c] = 0]
    /\ UNCHANGED <<fsm, freeRun, listening, thread, clock, unchangedByThread>>

\* The accept loop is left: stopped, complete, or on an error of accept.
ThreadAccepted ==
    /\ thread = "accept"
    /\ thread' = IF freeRun /\ Cardinality(clients) = LockstepClients
                 THEN "step" ELSE "none"
    /\ UNCHANGED <<fsm, freeRun, listening, clients, unacked, clock, unchangedByThread>>

\* The end of the loop closes what is left of the clients.
LoopLeft == thread' = "none" /\ clients' = {} /\ unacked' = [c \in Clients |-> 0]

ThreadStep ==
    /\ thread = "step"
    /\ IF freeRun
       THEN /\ Tick(fsm).simTime <= MaxSim
            /\ fsm' = Tick(fsm)
            /\ clock' = ClockNow(fsm')
            /\ thread' = "send" /\ UNCHANGED <<clients, unacked>>
       ELSE LoopLeft /\ UNCHANGED <<fsm, clock>>
    /\ UNCHANGED <<freeRun, listening, unchangedByThread>>

\* STEP goes to every client, unless one has gone or the run was stopped.
ThreadSend ==
    /\ thread = "send"
    /\ \/ /\ freeRun
          /\ unacked' = [c \in Clients |-> IF c \in clients THEN unacked[c] + 1 ELSE 0]
          /\ thread' = "ack" /\ UNCHANGED clients
       \/ LoopLeft
    /\ UNCHANGED <<fsm, freeRun, listening, clock, unchangedByThread>>

\* Mutant: the first acknowledgement is enough.
ThreadAckedByOne ==
    /\ thread = "ack"
    /\ \/ /\ freeRun /\ \E c \in clients : unacked[c] = 0
          /\ thread' = "step" /\ UNCHANGED <<clients, unacked>>
       \/ LoopLeft
    /\ UNCHANGED <<fsm, freeRun, listening, clock, unchangedByThread>>

\* The thread goes on when every client has acknowledged, and gives up when one
\* has gone or the run was stopped.
ThreadAcked ==
    /\ thread = "ack"
    /\ \/ /\ freeRun /\ \A c \in clients : unacked[c] = 0
          /\ thread' = "step" /\ UNCHANGED <<clients, unacked>>
       \/ LoopLeft
    /\ UNCHANGED <<fsm, freeRun, listening, clock, unchangedByThread>>

ClientAck(c) ==
    /\ c \in clients /\ unacked[c] > 0
    /\ unacked' = [unacked EXCEPT ![c] = @ - 1]
    /\ UNCHANGED <<fsm, freeRun, listening, thread, clients, clock, unchangedByThread>>
-----------------------------------------------------------------------------

Thread == \/ ThreadBind \/ \E c \in Clients : ThreadAccept(c)
          \/ ThreadAccepted \/ ThreadStep \/ ThreadSend \/ ThreadAcked

Callbacks ==
    \/ OnConfigure \/ OnActivateRealtime \/ OnActivateStartsThread \/ OnActivateFreeRun
    \/ OnDeactivate \/ OnDeactivateStopsThread \/ OnDeactivateJoined \/ OnCleanup
    \/ ClockCallback \/ StatusCallback

Next ==
    \/ \E s \in Scenarios, mode \in ClockModes : SetScenarioParameters(s, mode)
    \/ \E rate \in Rates : OnSetParameters(rate)
    \/ Callbacks \/ Thread \/ WallTick
    \/ \E c \in Clients : ClientAck(c)

\* The executor finishes the callback it is in, and the thread keeps running.
Fairness == /\ WF_vars(OnActivateFreeRun) /\ WF_vars(OnDeactivateStopsThread)
            /\ WF_vars(OnDeactivateJoined) /\ WF_vars(Thread)

Spec == Init /\ [][Next]_vars /\ Fairness
-----------------------------------------------------------------------------
(* Properties.                                                              *)

\* Every variable keeps its type.
TypeOK ==
    /\ fsm \in Machine /\ wall \in 0..MaxWall
    /\ ros \in {"unconfigured", "inactive", "active"}
    /\ param \in [scenario: Scenarios \cup {NoScenario}, rate: Rates \cup {1},
                  runRate: BOOLEAN, clockMode: ClockModes]
    /\ timers \in BOOLEAN /\ freeRun \in BOOLEAN /\ listening \in BOOLEAN
    /\ executor \in {"spin", "activating", "stopping", "joining"}
    /\ thread \in {"none", "bind", "accept", "step", "send", "ack"}
    /\ clients \subseteq Clients /\ unacked \in [Clients -> Nat] /\ due \in Nat
    /\ clock \in [scenario: Scenarios \cup {NoScenario}, time: Nat]

\* Simulated time never runs ahead of what the wall clock and the rates of the
\* run allow, however often the rate changes and the run is stopped and resumed
\* (the anchors of set_sim_rate and activate, _clock_callback).
NeverAheadOfWall == timers => fsm.simTime <= due

\* Lockstep: no client is ever more than one STEP behind, and the clock does not
\* step again before every client has acknowledged the last one.
Lockstep ==
    /\ \A c \in Clients : unacked[c] <= 1
    /\ thread \in {"step", "send"} => \A c \in clients : unacked[c] = 0

\* During a run the latched clock and status are the run's own: a late subscriber
\* never sees the previous scenario, or a time the run has not reached.
LatchedIsThisRun ==
    ros = "active" /\ executor = "spin" =>
        /\ clock.scenario = fsm.scenario /\ clock.time <= fsm.simTime
        /\ status.scenario = fsm.scenario /\ status.state = "ACTIVE"

\* A run of the clock keeps its clients and its subscribers together, in every state of
\* the right type: no client is sent a second tick before it has acknowledged the first,
\* the next step waits for all, and what is latched is of this run.
RunIsTogether == TypeOK /\ Lockstep /\ LatchedIsThisRun

\* Once on_deactivate has returned, nothing moves the clock until the next
\* activation: the free-run thread is gone, not just told to stop.
StoppedClockStays ==
    [][ros # "active" /\ executor = "spin" /\ executor' = "spin" /\ ros' # "active"
        => clock' = clock /\ thread' = "none"]_vars

\* on_deactivate returns, wherever the free-run thread was: in accept, waiting
\* for an acknowledgement, or about to send.
DeactivateReturns == executor \in {"stopping", "joining"} ~> ros = "inactive"
=============================================================================
