# MASS-TDL: a TLA+ verification project

MASS-TDL is the tactical decision layer (L3) of an autonomous surface vessel: eight ROS 2
modules (`src/src/l3_tdl_kernel/`, M1 to M8) that decide whether the automation may steer, how,
and when it must hand over, surrounded by a software-in-the-loop (SIL) workbench that runs
scenarios against them and judges the runs. This project models

* the part of the kernel that decides whether the ship may go on by itself: M1, which keeps the
  operational design domain (ODD) envelope, M7, the independent safety supervisor, and the loop
  between them;
* the workbench: the simulation clock and its lifecycle, the orchestrator, the simulation nodes,
  the evidence library, and the tools that judge a run from its trace.

Paths below are relative to the repository; `m1/` stands for
`src/l3_tdl_kernel/m1_odd_envelope_manager/` and so on.

## 1. Inventory

| Part | State it keeps | Operations | Talks to | What makes it correct |
|---|---|---|---|---|
| **M1 ODD envelope manager** (`m1/src/odd_envelope_manager_node.cpp`, `odd_state_machine.cpp`, `conformance_score_calculator.cpp`, `tmr_tdl_estimator.cpp`) | envelope state (In, Edge, Out, MrCPrep, MrCActive, Overridden), smoothed score, last message of every topic and its age, mean time to failure, the watchdog on M3 | a callback per input topic, a 4 Hz main loop, a 1 Hz publication | hears M2, M3, M7, M8, override and reflex arc; everyone hears its ODD state and mode | M7's veto and the operator's override win over every score; no main loop leaves the envelope open when TDL <= TMR; what is published is the state; the envelope reopens when every cause is gone |
| **M7 safety supervisor** (`m7/src/safety_supervisor_node.cpp`; `iec61508/`, `sotif/`, `mrm/`, `arbitrator/`, `core/`) | one watch per module, seven assumption counters and timers, veto window, selected manoeuvre (MRM) with its lockout, override and freeze flags | a callback per input topic, a 4 Hz main loop, hard-constraint checks with every avoidance plan | hears M1 to M6, checkers, override and reflex arc; M1 and M8 hear its alerts | a silent module is reported, a module that speaks is not; a severe alert names a manoeuvre; an alarm ends with its cause |
| **M2 world model** (`m2/src/`) | track buffer with time-outs and a capacity, own ship, environment | merge of detections, CPA/TCPA, 4 Hz publication | feeds M1, M3 to M7 | a track is dropped only when it timed out or is the oldest at capacity |
| **M3 mission manager** (`m3/src/`) | mission state machine, replan trigger with cool-down and deadline, attempt count | voyage task, route, ODD state, replan response; 1 Hz tick | asks L2 for replans; M1 watches its goals | every replan request ends (answer, deadline or MRC), a late answer changes nothing |
| **M4 behaviour arbiter** (`m4/src/`) | active behaviours, held COLREGs directive | arbitration at 2 Hz | M1, M2, M6 to M5 | a directive is held until its encounter is over |
| **M5 tactical planner** (`m5/`) | committed route, warm start, fall-back level | mid and branch MPC cycles | M4, M2 to the ship; M7 checks its plans | a committed route is replaced only by a feasible one |
| **M6 COLREGs reasoner** (`m6/src/`, `rule_latch.hpp`, `colregs_release_policy.hpp`) | per target an encounter state machine and rule latches | evaluation cycle per world state | M2 to M4, M5, M7 | an onset role is held until past and clear, and is then released |
| **M8 HMI bridge** (`m8/src/`) | take-over request protocol, SAT aggregation | request, acknowledgement, deadline | M1, M7, the operator | each request is acknowledged or times out into the MRC |
| **SIL clock and lifecycle manager** (`sil_lifecycle/lifecycle_mgr.py`) | lifecycle machine, simulated time and rate, free-run thread, lock-step clients, an autopilot | lifecycle callbacks, rate changes, ticks, acknowledgements | the lock-step clients, every node by the clock, the bridge | the clock never outruns its budget or a client, and stands still once stopped |
| **Lifecycle bridge** (`sil_orchestrator/lifecycle_bridge.py`) | mirror of the primary's state, scenario, two timers | configure, activate, deactivate, cleanup, reset, injection of parameters | REST clients, the primary, the other lifecycle nodes | mirror, primary and nodes agree between requests; a run ends |
| **Orchestrator** (`sil_orchestrator/`): self-check, runtime console, scenario store, export | staged gate results, plugins that run, scenario files, export tasks | self-check, switch, probe, create/update/delete, export | front end, compose, file system | GO and PASS are earned; baselines are left alone |
| **Evidence library** (`sil_orchestrator/evidence_library/`, `tools/sil/evidence_session.py`) | index rows, session directories, deletions under way | ingest, delete, rescan and recover, list, frames | file system, database | an indexed session is on disk, a deleted one stays deleted |
| **Simulation nodes** (`sim_workbench/sil_nodes/`, `docker/`, `external_adapters/`, `tools/roc_simulator/`) | node state, last messages, timers, buffers | lifecycle callbacks, topics, timers | each other over ROS topics and TCP | nothing of an old run in a new one; the newest message wins; what is asked for is answered |
| **Shell B simulator** (`shell_b_harness/`, `rl_workbench/envs/`) | child processes, sockets, episode state | reset (cold or in place), step, close | its child processes | lock step, clean episodes |
| **Scenario runner and judges** (`scripts/run_6_scenarios.py`, `tools/sil/colregs_*.py`, `trace_time.py`, `d3_6_runner.py`, the scorers, the risk model) | the trace, results and manifests | run a batch, slice, evaluate, gate, audit | orchestrator, trace files | a verdict says what the trace says, and the judges, written apart, do not contradict each other |
| Bridges, MMG dynamics, scenario authoring, other scripts, web front end | none of protocol interest | numerical, conversion or presentation | | |

Hard to test, and what the properties are aimed at (`PROJECT.json`, "hazards"):

* *Order and interleaving.* Two unsynchronised main loops; alerts of two origins (main loop and
  plan check) into one slot of M1; overrides and reflexes that reach both nodes; M7's events
  group is Reentrant under a multi-threaded executor.
* *Stale state.* M1 re-reads the last alert in every main loop; its own notion of a stale M7 is the
  age of an alert a healthy M7 never sends; counters and timers of the monitors survive their cause
  if one reset is missing.
* *Time-outs.* Silence is counted in evaluations, and other events add evaluations.
* *Boundaries.* TDL exactly equal to TMR, a ring at its capacity, a topic at its depth, an unset
  time point that lies at the clock's epoch.
* *What must happen in the end.* Recovery, reporting of silence, publication of an override, the end
  of a batch, of a timed run and of a deactivation, an answer to every take-over request.
* *Crashes and partial failures.* A deletion of evidence cut short between two file operations, a
  parameter that one node of several did not get, a child process that dies during a step, a
  rotation that fails.
* *Two judges of one run.* Runner and report, early stop and final verdict, boundary found while
  the trace grows and in hindsight, strict and older clock selection.

## 2. Modules and the code they model

| Module | Models | State and actions |
|---|---|---|
| `OddEnvelopeManager` | the M1 node with `OddStateMachine` (`step`, `compute_next`, the state handlers), `ConformanceScoreCalculator`, `TmrTdlEstimator` | pure operators, `Step` and one per handler, in whole percents, threshold bands and main-loop periods (250 ms); one action per callback and timer; `OnMainLoopTick` is the whole of `on_main_loop_tick` with the forced second step, both publications and the M3 watchdog |
| `RecentEvents` | nothing: the abstract memory of the last n samples | `Sample`, `Clear` |
| `SlidingWindow15s` | the ring of `sotif::SlidingWindow15s` | `Push`, `Reset`; `WindowImplements` is the refinement of `RecentEvents` |
| `CheckerVetoCounter` | the counter between its two threads | `OnVeto`, `CounterReset`, and the tick in two halves, push and clear |
| `SafetySupervisor` | the M7 node with its watchdog, assumption monitor, MRM selector, arbitrator, fault monitor and hard constraints | pure operators on the record of each component; one action per subscription, `OnMainLoopTick` for the timer |
| `SafetyLoop` | both nodes | actions of both modules (by `INSTANCE`), and the alert topic, which keeps the last `Depth` alerts |
| `ScenarioLifecycleMgr` | the pure lifecycle machine with its clock | operators on its record: configure, activate, tick, rate |
| `LifecycleManagerNode` | the node around it | executor, free-run thread and lock-step clients as processes; `on_deactivate` in the steps between which the thread moves |
| `LockstepAutopilot` | the avoidance autopilot of the same node | plan and envelope callbacks against the tick, read by read |
| `LifecycleBridge` | `LifecycleBridge` and its routes | one task per request and timer, a step per await; calls given up on may still be executed; an injection may fail, or be answered too late, with any of the nodes reached |
| `SelfCheck` | the six gates and the routes of the self-check | one action per gate, stream start and end, and activation; the streams of a scenario take turns at every await and share the staged files |
| `RuntimeConsole`, `ScenarioStore`, `MarzipExport` | the orchestrator's services of these names | one action per request or finished command |
| `EvidenceDeletion` | deletion, recovery and rescan | one action per file operation or commit; crashes and I/O errors between any two (a lost note beside a staged directory is written again in one step: staging writes it before the move, so no run loses it) |
| `EvidenceSession` | session directories; verdicts, gate rows, state segments and session list of the library | one action per call; the library's reading is pure |
| `TraceWriter` | the trace writer's buffer, threads, timer and rotation | one action per call, or per part of one that another thread can come between |
| `ScenarioRunner` | the batch loop | polling, stuck detection, the reasons to stop, retries |
| `FsmAggregator`, `RocOperator`, `MockL2`, `L2RouteAdaptor`, `TargetVessel`, `ShipDynamics`, `TrackChain`, `EnvDisturbance`, `ScoringNode` | the simulation nodes (the last with its scorers; `TrackChain` also with the geometry of CPA and bearing that the tracks carry) | one action per callback, timer or thread step |
| `ShellBSimulator` | processes, sockets and episodes | `reset` and `step` in the steps at which a process may exit |
| `RunVerdict` | slicing, route return, phases, exposure, early stop, both verdicts, seamanship, CPA floor, risk model, stability scorer | pure on sequences of samples |
| `FastEvaluator`, `ModuleOracles` | FAST boundary and verdict; clock selection and the G-ART gate; the per-module and MRM-chain oracles and the chain summary | pure on rows in time order |
| `ScenarioAudit`, `CoverageRunner` | scenario audit and what configuring injects; the six commands of the coverage campaign | pure; one action per command |
| `MCRuntime` | six parts that must get something done, M7's veto counter among them, in one specification | the parts by `INSTANCE`; its own constants, given values in `MCRuntime.cfg`, so that the theorems hold for all of them |
| `MCMachines` | the thirteen state machines of the workbench that promise safety only, in one specification | by `INSTANCE`; its own constants, with the assumptions the proofs use, given values in `MCWorkbench.cfg` |
| `MCWorkbench`, `MCOddEnvelopeManager`, `MCSafetySupervisor` | instances for TLC | bind the parts to small instances; inputs, nothing of the code (`SafetyLoop` is checked as it is) |
| `...Proofs` | TLAPS proofs, section 4 | |

Abstractions, and why they are sound:

* Every handler is one step. In M1 only the override and reflex callbacks are in a Reentrant group;
  each writes one flag, and `build_event_flags` reads it once per main loop, so an overlap is the
  same as one of the two orders. In M7 the overlap that matters is the tick against `on_veto`, and
  `CheckerVetoCounter` splits the tick there. The fields of the watchdog and the selector are written
  from the Reentrant group while the main loop reads them, without a lock: those data races are below
  this grain (`PROJECT.json` names them with the veto that the tick loses, and no property covers them).
* Scores are whole percents and the moving average is rounded down; all thresholds are whole
  percents, products are kept exactly (scaled by 100^3). Rounding down delays recovery and never
  invents it.
* A message is the record of what its receiver looks at; numeric limits (CPA floor, speed, rate of
  turn) are the outcome of their comparison, headings are kept because HC-2 compares them.
* Ages, losses and durations stop at a named cap beyond every threshold (`AgeCap`, `SilenceCap`,
  `LossCap`, `DurationCap`): past the threshold the code does not tell them apart.
* M7's clock is its main loop. A plan between two ticks sees the age of the last tick.
* Heartbeats reach M1 at any time or not at all; messages are never invented. In `SafetyLoop` the
  topic can drop the oldest alert and delay the others for any finite time.
* In the workbench a Python callback of a single-threaded executor is one step; where threads or
  asyncio tasks share state, a step ends at every await, lock, socket call or second read of a
  shared attribute. Faults (a call not answered, an operation that raises, a process that exits) are
  actions, bounded by `MaxFaults`, `MaxExits` and the like; the theorems hold for every such bound.
* The judges work on rows with the fields they read; interpolation, positions on the ellipsoid and
  texts are left out. Times are whole seconds (half seconds in the clock selection).
* `MCMachines`, `MCWorkbench` and `MCRuntime` hold parts that do not interact: a behaviour is one of a
  single part, so their states add. An evaluator's input grows row by row over a small alphabet, and
  every input up to the bound is judged.

## 3. What is checked

Passing runs:

| Run | Instance | Properties, and what they show |
|---|---|---|
| `odd_safety` | three scores (good, edge, worst), three severities, two operators, a target whose TDL is exactly the TMR of one of them | `VetoHolds`: with CRITICAL or MRC_REQUIRED standing, a main loop ends in MrCPrep or Overridden. `DeadlineHeld`: TDL <= TMR never leaves In, Edge or Out. `TorMeansMrcPrep`, `PublishedAgrees`: requests, states and modes published agree with the state machine, although one main loop may change it twice |
| `odd_eventually` | ages up to one period beyond the time-outs, mission goals, a moving average over two ticks | `TypeOK`. `Recovers`: back to In once nothing speaks against it for good. `OverrideReaches`: a lasting override is published. `StaleGoalReported` and `ConcernOncePerEpisode`: an invalid goal of M3 is reported, once per episode |
| `m7_safety` | two modules that come and go, four worlds, three rules, five plans, harbour and sea | `TypeOK`. `LossMeansSilence`: losses are held only against modules overdue now. `CriticalNamesMrm`: two tables written apart and the lockout between them never give a severe alert without a manoeuvre |
| `m7_eventually` | one module, mended worlds and plans, vetoes, overrides, reflexes | `SilentReported`, `SelectionCatchesUp`, `QuietAgain` |
| `loop_silence` | both nodes, topic of depth 2 | `SilenceClosesEnvelope`: a module M7 hears no more brings M1 to MrCPrep and keeps it there, whatever warnings come between |
| `sil_clock` | two runs, rates 0, 1 and 3 against a catch-up cap of 2, two clients | `NeverAheadOfWall`: simulated time stays within what the wall clock and the rates allowed. `RunIsTogether`: no client is a tick ahead, nothing latched is of another run. `StoppedClockStays`, `DeactivateReturns`: a deactivation ends, wherever the thread was, and then nothing moves the clock |
| `sil_bridge` | two scenarios, one timed, one without parameters for one node, lost calls, injections that reach any of the nodes and fail | `BridgeAndNodesAgree`: between requests the mirror is the primary's state and the nodes are where it is. `ConfiguredIsInjected`: a primary that is not UNCONFIGURED has the scenario whose parameters each of its nodes holds, whatever injections failed or came too late before. `RunEnds`: every activated run does |
| `evidence` | two sessions, two workers, two faults (crash or I/O error), one re-recording | `DeletedOrKept`: no indexed session loses its files, no deleted one comes back. `LeftoversReported`: a rescan forgets nothing a deletion left |
| `runtime` | six parts; of M7's veto counter a ring of 5 samples (100 in the code), two layers, resets | `NothingStale` (one answer per request, newest route, one COLREGs target, tracks of this run), `TargetTakesItsTime`, `EverythingGetsDone` (batch, answers, forwarding, return to course, tracking). `WindowImplements`: the ring implements a memory of the last samples, with vetoes and resets between the halves of a tick. `QuietWindowDrains`: after the last veto it drains completely |
| `workbench` | thirteen machines, the coverage campaign and the evaluators | eight invariants, each the conjunction of what one group promises: `GoIsEarned` (orchestrator), `EvidenceHolds`, `NodesReplayFaithfully`, `SteersByItsOwnRun` (autopilot, shell B), `VerdictFitsRun`, `FastVerdictFitsTrace`, `GreenOracleMeansDuty`, `ScenarioMeansOneThing`. The parts are named definitions in the modules, each with its own statement |

Runs that show where the code departs from what it says of itself:

| Run | Property refuted | What happens |
|---|---|---|
| `odd_mrc_active` | `MrcRequiredActivates` | `test_odd_state_machine.cpp:169` ("From MRC_Prep, m7_safety_mrc_required -> MRC_Active", expected at 178) and M1-spec line 212 have MRC_REQUIRED activate the MRC. `step()` answers it with MrCPrep and returns (`odd_state_machine.cpp:244`) before the handler of MrCPrep, which would activate it (line 75), is asked. M1 stays in MrCPrep; that no other way leads to MrCActive either is the theorem `MrcActiveDead` |
| `sil_autostop` | `AutoStopReachesNodes` | the auto-stop timer calls `deactivate()`, which cancels the timer's own task; the cancellation is delivered at the first await, before the broadcast: the nodes run on |

Further differences met while modelling, kept as the code has them and without a run:

*M1 and M7.* MrCPrep is commanded as DEGRADED (M1-spec 221: EMERGENCY); the veto rate divides by the
samples so far, so one early veto is 20 % and more (M7-spec 186: more than 20 of 100); losses are
counted per evaluation (`watchdog_monitor.hpp:25`: per missed beat); the main loop goes on selecting
during an override (M7-spec 207); two silent modules give MRM-01 in the main loop (M7-spec 243:
MRM-02). M7 publishes no all-clear and M1 keeps the last severity, so one severe alert holds MrCPrep
for ever (M1-spec 213, 269). In Edge the state machine goes to MrCPrep itself and the take-over request
that should follow is suppressed (`odd_envelope_manager_node.cpp:889`, M1-spec 29). One early WARNING,
grown old, keeps the stale factor on the score although M7 beats (`odd_state_machine.cpp:212`). A veto
between push and clear is in no sample (`checker_veto_counter.hpp:19`). The end of an override lifts a
reflex freeze (M7-spec 210). The resume sequence is started and nobody completes or times it (M7-spec
205, 219).

*Clock and bridge.* The autopilot reads the avoidance heading after checking it while a callback may
clear it (`lifecycle_mgr.py:457`), and the tick is lost; the rudder jumps on a change of law; a
course is frozen at onset and an avoidance lasts when M5 falls silent; a rate set in one run persists
into the next (comment 235: it does not); `_math_heading_to_nav_heading` returns radians that are
used as degrees (893). Overlapping requests and activations that timed out leave the mirror stale;
the backup timer changes only the mirror (565); a `get_state` that times out reads as unconfigured.
Parameters are called a clean slate (455) but a field a scenario leaves out keeps the value of an
earlier one, and the guidance starts from heading and speed 0 where the ship's model does not.

*Orchestrator and evidence.* An activation in the middle of a self-check archives files of two, and so
does one after two self-checks of a scenario that were streamed at once: `/selfcheck/stream` takes no
lock, both write `.preflight/gate_N.json` (`selfcheck_routes.py:168`), and a GO may stand beside staged
gates of the other. Each GO is over the stream's own gates all the same. A
failing export task stays "processing". The design document of the evidence library says a deletion
that fails "leaves database rows intact"; the code commits first and reports leftovers, which nothing
cleans up. A rescan skips sessions whose newest file time is unchanged, so an older file added, or a
deletion, is missed (`ingest.py:529`). A session recorded again over a pending deletion can never be
deleted. A repeated finalize removes a kept session (`evidence_session.py:323`).

*Nodes.* The trace writer's timer fires once, and a record stamped before a reset may be appended after
it; a rotation that fails after its copy leaves the records in both files, and one after which the file
cannot be opened again writes no more until a reset (`sil_trace_writer.py:198`). The display's last
alert never ages, and MRC_PREP is shown as TRANSIT. The timer of an old take-over request may accept a
new one; answers carry no id. Two routes sent one after the other may be published in either order
(`tdl_ingress_node.py:96`); a route handed to a dying ingress is lost. The ingest's last stamp is not
reset when the scenario changes. With waypoints in the `mock_l2` section of `SIL_SCENARIO_YAML` the
mock publishes these under the id of the loaded scenario's route (`mock_l2_publisher.py:693`); an
ACTIVE status without a scenario makes it follow the first file of the directory when none bears the id
it knows. AIS reports come every 10 s and tracks age after 5. An avoidance override and its
subscription survive deactivation of the ship's model; the wind's generator goes on over a reactivation
without configuring. "R14:ok" scores 0.

*Shell B.* A cold reset that times out in accept (`simulator.py:413`) leaves its processes running;
the next reset finds them alive, resets in place and is in lock step with the clients accepted so far
only. An in-place reset takes up plans and envelope states of the last episode that still wait in the
queue.

*Judges.* The runner takes the newest `scoring.arrow` of the last two minutes, whoever wrote it
(`run_6_scenarios.py:1784`); an unreadable status reads as t = 0; skipped scenarios vanish from the
count; it accepts a CPA 5 % of the ship's length below the floor, which FAST and the early stop do not;
without M4 rows the phase semantics pass; "partial" compliance passes the runner and not the report. A
RECOVERY before any AVOID ends a FAST run although the comment (`colregs_fast_boundary.py:45`) calls it
non-terminal. The runner looks for the boundary while rows arrive, and topics lag
(`run_6_scenarios.py:709`): a row that comes late and belongs before a boundary found already may move
it, so `BoundaryFinal` speaks of rows that arrive in time order. The older clock selection places rows
with sim_t = 0 by the wall clock. Several oracle checks can never fire (generation mismatch, three M7
flags, M6's interval, M3's duplicate route), and M4's passes when the conflict never clears. Two
encounters count as an oscillation of M6. The coverage campaign's Monte-Carlo gate cannot pass, and
`run-all` returns 0 with failed gates.

Bounds. Every cap is one above its threshold, so that below, at and beyond the threshold all occur. A
lockout of 2 periods is the smallest that ever holds a manoeuvre back (the timer moves before the
selector is called). The watchdog's tolerance 1 needs two evaluations in a row, the NLP counter 2. Two
modules tell "one silent" from "several"; three would only reach the branch `critical >= 3` of one
table, which the proof covers. In the loop a depth of 2 makes M1 work off an old alert after a new one,
and lose one. Of the workbench: two workers and two sessions are the least for which deletion, rescan
and re-recording overlap, and two faults cut both a deletion and its recovery short; two streamed
self-checks (`Streams`) mix their files, and `MaxFailed = 1` lets any gate of either fail; the mock has
a scenario that bears its id (`Labelled`), one that does not and comes first in the directory
(`FirstFile`), and one that cannot be read; two lock-step clients tell "one answered" from "all"; a rate
above the catch-up cap makes the clock fall behind; one request at a time with both timers and one lost
call is what the properties of the bridge speak of, while injections fail as often as there are
configures (two overlapping requests are known to disagree, see above); buffers, batches and rotations
of two records are passed in three; an evaluator's bound is long enough for an encounter to begin, end
and begin again.

Fairness. `WF` on the main loops and the 1 Hz publication: they are wall timers of an executor
whose callbacks all terminate. `WF` on `Deliver`: the topic is reliable. `WF` on the two halves of
the counter's tick: they are one function call. Nothing is assumed of any other module: messages,
heartbeats, vetoes, overrides and goals may come or stay away. `SilentReported` and
`SelectionCatchesUp` therefore speak only of behaviours in which no reflex freezes M7 for ever.
In the workbench `WF` is on what the process itself does: the executor and the free-run thread
(`DeactivateReturns`; nothing is assumed of the clients), the tasks of the event loop and the primary's
executor (`RunEnds`), the polling loop of the runner, the timers of the remote operator, the retry timer
of the route adaptor, the simulation step of the target, the timers and subscriptions of the track chain.
`SF` is on a sensor report getting through: reports are dropped at random, not for ever.

## 4. What is proved

TLAPS proves the following for every value of the constants, from the assumptions the modules name.
Each inductive invariant was checked by TLC before it was proved.

| Assumption | What it says, and why the code justifies it |
|---|---|
| `ThresholdsAssumption`, `TauAssumption`, `TmrTdlAssumption`, `NodeAssumption` (M1); `CapacityAssumption`, `WatchdogAssumption`, `AssumptionConfig`, `LockoutAssumption`, `InputAssumption` (M7) | what the `create` functions accept; finiteness; caps beyond their thresholds |
| `NodeAssumption` (clock), `BridgeAssumption`, `EvidenceAssumption` (deletion), `RuntimeAssumption` | bounds and delays are naturals; "no scenario" is not a scenario; the two timers are not clients |
| `ConsoleAssumption` | a plugin has a role, and its service is none of `CORE_SERVICES`: so it is in every manifest under `config/runtime_plugins` |
| `StoreAssumption` | no two shipped scenarios have one stem (so it is in the scenario folder), and no baseline folder, which is the first part of a path, is called "root" |
| `EvidenceAssumption` (`MCMachines`) | scores are numbers; a flush needs at least one record |
| `NodesAssumption` | the publishing period is a multiple of the step of the ship's model (100 ms and 20 ms); the list of target messages is cut back when it exceeds its limit; the mock's first file is of a known scenario, and with an empty directory none can be read |
| `PilotAssumption` | the ends of a band of M4 are at most a turn apart: `behavior_arbiter_node.cpp` wraps them into [0, 360), its standby plan is 0..360 (line 579), its fail-safe plan -5..5 (line 599); the rudder of a way point is clamped to 35 degrees |
| `ShellBAssumption` | finitely many processes |

**The kernel.**

* `OddEnvelopeManagerProofs` (M1): `TypeCorrect`, `DeadlineSafe`, `PublishedSafe`, `TorSafe`,
  `ConcernSafe`, `MrcActiveDead`, and the action property `VetoHolds` (`VetoSafe`). The inductive
  invariant `Inv` is the conjunction of the six invariants. `DeadlineHeld` and `TorMeansMrcPrep` are
  not inductive alone: the forced step of the main loop reaches MrCPrep only because the smoothed score
  is a number and not NaN, which needs the range of the average in `TypeOK`. The lemmas are about the
  pure operators: a step yields an envelope state and never MrCActive from a state other than it; the
  smoothed score stays in 0..100.
* `SafetySupervisorProofs`, first part, about the ring of `SlidingWindow15s`: `TotalCorrect` and the
  refinement `WindowCorrect` (`WindowSpec => Abstract!Spec`), for every capacity. `WInv` adds to
  `TotalIsCount` that the head equals the size until the ring is full; without it the overwritten slot
  could lie outside the live ones. Lemmas follow the set of live events through a push in the three
  cases (room, wrap, overwrite) and count it; the refinement shows that the samples read from the
  oldest slot on are the old ones without the first, with the new one appended.
* `SafetySupervisorProofs`, second part: `SupervisorTypeCorrect`, `LossSafe`, `CriticalSafe`,
  `VetoTotalSafe`. `IInv` = `TypeOK`, the window's invariant, `LossMeansSilence`, `CriticalNamesMrm`.
  The core of `CriticalSafe` is a lemma on the two tables: a context that the arbitrator grades as
  severe is one for which the selector's raw choice is a manoeuvre, and the lockout only ever keeps a
  manoeuvre.

**The workbench.**

* `EvidenceDeletionProofs`: `DeletionSafe` (`DeletedOrKept`) and the action property `LeftoversSafe`
  (`LeftoversReported`), for any number of sessions, workers, recordings and faults. That an indexed
  session can be had back says nothing about the worker in the middle of moving it, so `IInv` says
  which workers can be busy together (`Locked`: only deletions of different sessions), what rows and
  files look like at each step of a worker (`AtStep`), that a row without its directory is that of a
  whole staged session with a readable note, not a deleted one (`RowBacked`), that what is at a path is
  neither deleted nor the staged version (`PathIsNew`), that what is staged has its central record
  (`StagedRecorded`), and how far a rescan has got with what was left behind (`ScanKnows`).
* `LifecycleManagerProofs`: `ClockWithinWall` (`NeverAheadOfWall`), `RunStaysTogether`
  (`RunIsTogether`), `StoppedStays` (`StoppedClockStays`), for any clients, rates and catch-up cap.
  `NeverAheadOfWall` is not inductive: the tick moves to a target computed from the anchors of the last
  rate change, so `WithinDue` bounds that target. `StatesAgree` ties the ROS state to the machine, the
  timers and the thread; `OneClock` says that timer and free-run thread never both drive the clock, and
  `Owed` which clients may owe an acknowledgement at each step of the thread.
* `LifecycleBridgeProofs`: `BridgeAgrees` (`BridgeAndNodesAgree`) and `ConfiguredInjected`
  (`ConfiguredIsInjected`), for any number of clients, nodes and scenarios, and any injections that
  fail, where the run has one request at a time. The invariant describes what must hold while a request
  is under way, as long as the history is calm (no call lost, no two calls overlapped): who may be
  calling (`Alone`, `OneCall`), what the caller has seen and expects (`Seen`, `Expects`), how far the
  broadcast has come (`Chained`, `Followed`), what was injected and recorded (`Provided`, `Recorded`),
  and that the timer of a timed run is there (`TimerRuns`). `ConfiguredIsInjected` also speaks of
  states in which a request is under way: what a failed injection has set on some nodes can only meet a
  primary that is UNCONFIGURED, since the configure that injects has reset it first (`Expects`), and
  only the call that follows a whole injection takes it out of there (`WhoChanges`, `InjectedStep`).
  The history `overlapped` that delimits the claim had to be widened: it was raised only by overlapping
  calls to the primary, and with two clients TLC found two configure requests whose parameter
  injections overlap while their calls do not.
* `MCRuntimeProofs`: `RuntimeNothingStale` (`NothingStale`) and the action property `TargetPatient`
  (`TargetTakesItsTime`), from `RuntimeSafe`, which joins an invariant per node:
  * remote operator: a request to come, or the present one while no response to it is set, has no
    answer, and no request has two, so a timer that fires too late cannot add one (`AnswersMatch`);
  * route adaptor: a pending plan is always the newest valid one (`PendingIsNewest`), so a retry never
    sends an old one;
  * target vessel: a clear spell the machine counts is shorter than the time since it last saw an
    encounter (`ClearIsClear`), and an encounter it attends to has been there as long as it counts
    (`StartedIsSeen`); `OneFsmTarget` is inductive once configuring that fails half-way is
    taken into account, which adds the entries before the refused one and keeps them;
  * track chain: a node that is not clean holds what was heard in this run only (`SensedInRun`,
    `HeldInRun`), since the lifecycle cleans every node before the next run (`InStep`).

* `MCMachinesProofs` and `MCWorkbenchProofs`: `WorkbenchSafe` and from it `WorkbenchGoIsEarned`
  (`GoIsEarned`), `WorkbenchEvidenceHolds` (`EvidenceHolds`), `WorkbenchNodesReplay`
  (`NodesReplayFaithfully`) and `WorkbenchSteers` (`SteersByItsOwnRun`): the promises of all thirteen
  machines, for any number of gates, plugins, files, sessions, threads, messages, modules, exits and
  faults. `MachinesInv` selects the invariant of the part that runs; every machine has the lemmas
  `...Init`, `...Step` and `...Promise`. Few of the promises are inductive alone; what each rests on:
  * self-check: while the gates of a stream run, what forbids a run has failed one of them, each staged
    file it is past is its own or that of a stream beside or after it, and what was archived when
    nobody was is of it alone (`GateFiles`, `EvidenceIsWhole`);
  * runtime console: what runs of a role is what the console expects of it, until a command is given up on;
  * scenario store: no two files have one name, so what a request finds by a name is the file itself;
  * export: a pack that says PASS is of a task that is done, whose rows stay as they were scored;
  * evidence sessions: who holds a session has a directory that is pending or kept, so nobody else can
    be given it;
  * trace writer: as long as nothing is reported lost, archive, file and buffer joined are the records
    appended, and a buffer that is due has a thread about to flush it (`WriterTiles`, `WriterDue`);
    after a rotation that failed, and a file that could not be opened again, the records stay where
    they are; one that failed after its copy counts as reported, for the records are then in both
    files;
  * display: the time out is counted from the first tick that saw OUT; mock L2: the
    id is that of the loaded scenario's route, the route is that one or the configured, and the stamp of
    the ingest is that of a plan it received;
  * ship's model: it is a whole number of steps from the first clock it read, never ahead of the clock,
    and less than a period behind its last publication (`ShipStepped`, `ShipPublished`); a callback that
    catches up over many steps at once is the lemma `ShipCatchesUp`, by arithmetic over the set of due
    times;
  * wind: two draws for each second since it was configured; scores: the newest messages are the end of
    the list held (`HeldInv`), and file and buffer joined are the rows of the activation (`FileTiles`);
  * autopilot: an onset between its two writes has its band but not yet its course, a release has
    its course still and one tick to lose (`Onsets`, `Releases`); a course five sixths through a band lies
    in it, across north too (`CourseInBand`);
  * shell B: a client that neither hears nor has left an answer (`Deaf`) stops every later call that
    reads; without one, the clients whose turn has come are done and every other owes exactly the answer
    to the command of this call (`Reading`, `Done`, `Owes`). That is what makes `step` lock step, although
    a call that failed half-way leaves commands and answers behind. `Believed` keeps everything heard
    after a cold reset to the episode it began.

What the proofs changed in the models: the target's list is now configured entry by entry and keeps what
was added before an entry is refused, a removal takes away every target of an MMSI, and alternatives
whose guards overlap (the code's if/elif order decides) are written as nested conditions; in a `CASE`
of the modules with theorems the guards exclude each other. A healthy observation and the ones unlike it
are written as data (`Unlike` in `SelfCheck`), and the least safety score of a pack is compared by a
quantifier over its rows (`SafetyMinBelow`), where no sum is needed.

**Only model-checked.** All liveness properties (`Recovers`, `OverrideReaches`, `StaleGoalReported`,
`QuietWindowDrains`, `SilentReported`, `SelectionCatchesUp`, `QuietAgain`, `SilenceClosesEnvelope`,
`DeactivateReturns`, `RunEnds`, `EverythingGetsDone`): the prover has no reasoning about fairness. Of
the eight invariants of `MCWorkbench` four: `VerdictFitsRun`, `FastVerdictFitsTrace`,
`GreenOracleMeansDuty` and `ScenarioMeansOneThing`. They compare what two evaluators compute from a
trace by folds and recursive functions, so a theorem for every trace needs induction over data, or they
are arithmetic over all bearings and angles (CPA, velocity obstacle, audit windows), whose products and
tables of sines the solver does not decide. TLC judges every input up to the bounds. The
coverage campaign is one conjunct of the last and is bound there by sets of outcomes of its stages, a
sample of what the stages can return.

## 5. Not modelled, and why

M1: ASDR and SAT publications, `check_input_freshness` and `check_mrc_if_needed` (they log), the
forecast (only displayed), parameter loading. M7: heartbeat, SAT and ASDR publications, metrics,
texts and manoeuvre parameters; the regression inside the performance monitor (its finding is a
free choice at every tick); the operations of `ResumeHandler` without a caller. M2 to M6, M8: see the
plan. Ship dynamics, CPA filters, interval programming and the MPC solvers are numerical and outside
what TLC or TLAPS can say something about. Of the workbench: the rescan manager (one job under a lock),
trajectories, events and SQL of the library, radar and filter gains, replay and intelligent targets, the
publications of a tick, drawing and sampling of the campaign; routes that only read a file, offline
conversions and scripts, the bridges between message types, and the web front end.

## 6. Plan

1. **M3**: `MissionStateMachine` and `MissionManager` (replan trigger with cool-down, deadline,
   attempts, answers of L2 that come late, twice or never), composed with M1's watchdog on mission goals.
2. **M6**: encounter state machine, rule latch and reasoner per target, against the abstract
   specification of a role held from onset to past-and-clear.
3. **M8**: the take-over protocol, composed with M1's deadline.
4. **M7** in full: `ResumeHandler`, the buffer of `PerformanceMonitor`, M1's `MrcTriggerLogic`.
5. **M4** directive hold, **M5** committed route and fall-back policy, **M2** track buffer at capacity.
6. Proofs: the coverage campaign, taken out of `ScenarioMeansOneThing` with its outcomes as constants;
   the monotony of the risk model; the safety part of the loop (what M1 holds was once published by M7).
