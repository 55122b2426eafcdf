---------------------------- MODULE ShellBSimulator ----------------------------
(***************************************************************************)
(* The lock-step simulator of the shell B harness and the learning           *)
(* environment that drives it.  The simulator starts the kernel's processes, *)
(* accepts a connection of each, and from then on sends every one a command  *)
(* and waits for one line from every one.  Its callbacks run only where it   *)
(* spins its own node: once at the end of a step, and while a reset waits    *)
(* for discovery.                                                            *)
(*                                                                          *)
(* A process that exits closes its socket first and is seen by poll() later  *)
(* ("exiting").  Commands, answers and messages carry the episode and step   *)
(* they belong to, which the code does not compare: they are history.  The   *)
(* dynamics and the throttle are left out; a rudder is the law that gave it. *)
(***************************************************************************)
EXTENDS Naturals, Sequences, FiniteSets, SequencesExt

CONSTANTS Modules,     \* processes of a run, "doer" and, with use_m7, "m7"
          StaleSteps,  \* steps after which the last valid plan is stale (10 s)
          KeepLast,    \* depth of a subscription's queue
          MaxCalls, MaxExits, MaxMessages \* bounds

VARIABLES proc,    \* proc[m]: "none", "starting", "up", "exiting" or "gone"
          backlog, \* modules that have connected and were not accepted
          clients, \* accepted connections, in order
          todo,    \* todo[m]: commands it has not executed
          lines,   \* lines[m]: answers the simulator has not read
          at,      \* at[m]: the command it executed last
          task,    \* where the simulator is in its call
          sim,     \* episode, step, apply_avoidance; of the last calls: returned, cold, all
                   \* connected
          inbox,   \* inbox[t]: messages of topic t not yet taken
          ctl,     \* what the callbacks keep and the law of the last step
          used     \* calls, exits and messages so far

vars == <<proc, backlog, clients, todo, lines, at, task, sim, inbox, ctl, used>>

Topics == {"odd", "plan", "avoid"}
Empty  == [m \in Modules |-> <<>>]
Idle   == [op |-> "idle", k |-> 0]
Called == used.calls < MaxCalls /\ used' = [used EXCEPT !.calls = @ + 1]
Running(m) == proc[m] \in {"starting", "up", "exiting"} \* poll() is None
Hears(m)   == proc[m] \in {"starting", "up"}

\* odd and plan are the episode of the message held, 0 for none.
Fresh ==
    [odd |-> 0, allows |-> FALSE, plan |-> 0, fallback |-> FALSE, avoiding |-> FALSE, course |-> FALSE,
     waypoint |-> FALSE, validAt |-> 0, enabled |-> FALSE, law |-> "none"]

\* Mutant: the last behaviour plan is kept.
ResetKeepsPlan == ctl' = [Fresh EXCEPT !.plan = ctl.plan]

ResetLocalState == ctl' = Fresh

Init ==
    /\ proc = [m \in Modules |-> "none"] /\ backlog = {} /\ clients = <<>>
    /\ todo = Empty /\ lines = Empty /\ at = [m \in Modules |-> [op |-> "none", ep |-> 0, n |-> 0]]
    /\ task = Idle /\ used = [calls |-> 0, exits |-> 0, messages |-> 0] /\ inbox = [t \in Topics |-> <<>>]
    /\ sim \in {[ep |-> 0, n |-> 0, apply |-> a, returned |-> FALSE, cold |-> FALSE, whole |-> FALSE] : a \in BOOLEAN}
    /\ ctl = Fresh
-----------------------------------------------------------------------------
(* The processes.                                                           *)

Connect(m) ==
    /\ proc[m] = "starting"
    /\ proc' = [proc EXCEPT ![m] = "up"] /\ backlog' = backlog \union {m}
    /\ UNCHANGED <<clients, todo, lines, at, task, sim, inbox, ctl, used>>

\* A message the nodes of the doer publish while they spin; the oldest makes room.
Published(msg) ==
    LET q == Append(inbox[msg.topic], msg)
    IN [inbox EXCEPT ![msg.topic] = IF Len(q) > KeepLast THEN Tail(q) ELSE q]

\* One command: RESET makes the nodes anew, STEP sets their clock and spins them.
Serve(m) ==
    /\ Hears(m) /\ todo[m] # <<>>
    /\ LET cmd == Head(todo[m])
       IN /\ at' = [at EXCEPT ![m] = cmd]
          /\ lines' = [lines EXCEPT ![m] = Append(@, cmd)]
          /\ \/ UNCHANGED <<inbox, used>>
             \/ /\ m = "doer" /\ cmd.op = "STEP" /\ used.messages < MaxMessages
                /\ used' = [used EXCEPT !.messages = @ + 1]
                /\ \E t \in Topics, f \in BOOLEAN : inbox' = Published([topic |-> t, ep |-> cmd.ep, flag |-> f])
    /\ todo' = [todo EXCEPT ![m] = Tail(@)]
    /\ UNCHANGED <<proc, backlog, clients, task, sim, ctl>>

Exit(m) ==
    /\ Hears(m) /\ used.exits < MaxExits
    /\ proc' = [proc EXCEPT ![m] = "exiting"] /\ used' = [used EXCEPT !.exits = @ + 1]
    /\ UNCHANGED <<backlog, clients, todo, lines, at, task, sim, inbox, ctl>>

Gone(m) ==
    /\ proc[m] = "exiting" /\ proc' = [proc EXCEPT ![m] = "gone"]
    /\ UNCHANGED <<backlog, clients, todo, lines, at, task, sim, inbox, ctl, used>>
-----------------------------------------------------------------------------
(* The callbacks.  flag is: the envelope allows the autopilot, the plan is a *)
(* fallback, the avoidance plan has a way point to turn at.                  *)

CbOdd(c, msg) == [c EXCEPT !.odd = msg.ep, !.allows = msg.flag]

CbBehavior(c, msg) == [c EXCEPT !.plan = msg.ep, !.fallback = msg.flag, !.course = @ \/ c.avoiding]

\* Both releases of the code do the same; the way point is kept after one.
CbAvoidance(c, msg) ==
    LET c1 == [c EXCEPT !.validAt = sim.n, !.waypoint = TRUE]
    IN CASE ~msg.flag -> [c EXCEPT !.avoiding = FALSE, !.course = @ /\ ~c.avoiding]
         [] msg.flag /\ ~c.avoiding /\ c.plan # 0 -> [c1 EXCEPT !.avoiding = TRUE, !.course = TRUE]
         [] OTHER -> c1

\* spin_once runs one callback that is ready, or none.
SpinOnce ==
    \/ (\A t \in Topics : inbox[t] = <<>>) /\ UNCHANGED <<inbox, ctl>>
    \/ \E t \in Topics :
          /\ inbox[t] # <<>>
          /\ LET msg == Head(inbox[t])
             IN ctl' = CASE t = "odd" -> CbOdd(ctl, msg)
                         [] t = "plan" -> CbBehavior(ctl, msg)
                         [] OTHER -> CbAvoidance(ctl, msg)
          /\ inbox' = [inbox EXCEPT ![t] = Tail(@)]
-----------------------------------------------------------------------------
(* The socket protocol.                                                     *)

Raise == task' = Idle /\ sim' = [sim EXCEPT !.returned = FALSE]

\* To the clients in order; a send to a closed socket may raise, or not yet.
SendAll(cmd, op) ==
    \E sent \in 0..Len(clients) :
        /\ sent < Len(clients) => ~Hears(clients[sent + 1])
        /\ todo' = [m \in Modules |-> IF m \in ToSet(SubSeq(clients, 1, sent)) THEN Append(todo[m], cmd) ELSE todo[m]]
        /\ task' = IF sent < Len(clients) THEN Idle ELSE [op |-> op, k |-> 1]

\* Mutant: one answer is enough.
LastAnswerIsFirst(k) == TRUE

LastAnswer(k) == k = Len(clients)

\* _read_line, from the client whose turn it is.  An answer to STEP is not looked at;
\* one to RESET must be an ACK_RESET.
ReadLine(op, next) ==
    /\ task.op = op /\ clients # <<>>
    /\ LET m == clients[task.k]
       IN \/ /\ lines[m] # <<>> /\ (op = "reset" => Head(lines[m]).op = "RESET")
             /\ lines' = [lines EXCEPT ![m] = Tail(@)] /\ sim' = sim
             /\ task' = IF LastAnswer(task.k) THEN [op |-> next, k |-> 0] ELSE [op |-> op, k |-> task.k + 1]
          \/ /\ lines[m] # <<>> /\ op = "reset" /\ Head(lines[m]).op # "RESET"
             /\ lines' = [lines EXCEPT ![m] = Tail(@)] /\ Raise
          \/ lines[m] = <<>> /\ ~Hears(m) /\ lines' = lines /\ Raise
    /\ UNCHANGED <<proc, backlog, clients, todo, at, inbox, ctl, used>>

StepReads  == ReadLine("step", "spin")
ResetReads == ReadLine("reset", "discover")
-----------------------------------------------------------------------------
(* step                                                                     *)

\* compute_autopilot: what is enabled, and the law that gives the rudder.
ComputeAutopilot(c) ==
    LET stale   == sim.n > c.validAt + StaleSteps
        enabled == c.allows /\ (stale \/ c.fallback \/ ~sim.apply)
        avoids  == c.avoiding /\ sim.apply
    IN [c EXCEPT !.enabled = enabled, !.avoiding = avoids,
                 !.law = CASE avoids /\ c.course -> "course"
                           [] avoids /\ ~c.course /\ c.waypoint -> "turn radius"
                           [] avoids /\ ~c.course /\ ~c.waypoint -> "amidships"
                           [] ~avoids /\ enabled -> "route"
                           [] OTHER -> "none"]

\* After close() there is no node, and step() raises.
StepBegins ==
    /\ task = Idle /\ (\E m \in Modules : proc[m] # "none") /\ Called
    /\ ctl' = ComputeAutopilot(ctl)
    /\ IF clients = <<>> THEN task' = [op |-> "spin", k |-> 0] /\ UNCHANGED todo
       ELSE SendAll([op |-> "STEP", ep |-> sim.ep, n |-> sim.n], "step")
    /\ sim' = [sim EXCEPT !.returned = FALSE]
    /\ UNCHANGED <<proc, backlog, clients, lines, at, inbox>>

StepEnds ==
    /\ task.op = "spin" /\ task' = Idle
    /\ SpinOnce
    /\ sim' = [sim EXCEPT !.n = @ + 1, !.returned = TRUE]
    /\ UNCHANGED <<proc, backlog, clients, todo, lines, at, used>>
-----------------------------------------------------------------------------
(* reset and close                                                          *)

\* MASSL3Env.reset: in place if it has been reset before and all processes are running.
InPlace == sim.ep > 0 /\ \A m \in Modules : Running(m)

Episode(cold) ==
    [sim EXCEPT !.ep = @ + 1, !.n = 0, !.returned = FALSE, !.cold = cold, !.whole = @ /\ ~cold]

ResetInPlace ==
    /\ task = Idle /\ InPlace /\ Called
    /\ sim' = Episode(FALSE) /\ ResetLocalState
    /\ IF clients = <<>> THEN task' = [op |-> "discover", k |-> 0] /\ UNCHANGED todo
       ELSE SendAll([op |-> "RESET", ep |-> sim.ep + 1, n |-> 0], "reset")
    /\ UNCHANGED <<proc, backlog, clients, lines, at, inbox>>

\* Of close(): the sockets and the node go, with what they hold.
CloseRest ==
    /\ clients' = <<>> /\ backlog' = {} /\ todo' = Empty /\ lines' = Empty
    /\ inbox' = [t \in Topics |-> <<>>]

ResetCold ==
    /\ task = Idle /\ ~InPlace /\ Called
    /\ CloseRest
    /\ proc' = [m \in Modules |-> "starting"]
    /\ sim' = Episode(TRUE) /\ ResetLocalState /\ task' = [op |-> "accept", k |-> 0]
    /\ UNCHANGED at

Accept(m) ==
    /\ task.op = "accept" /\ m \in backlog
    /\ backlog' = backlog \ {m} /\ clients' = Append(clients, m)
    /\ UNCHANGED <<proc, todo, lines, at, task, sim, inbox, ctl, used>>

\* All are there: the processes are polled.
Accepted ==
    /\ task.op = "accept" /\ Len(clients) = Cardinality(Modules)
    /\ IF \A m \in Modules : Running(m)
       THEN task' = [op |-> "discover", k |-> 0] /\ sim' = [sim EXCEPT !.whole = TRUE]
       ELSE Raise
    /\ UNCHANGED <<proc, backlog, clients, todo, lines, at, inbox, ctl, used>>

\* Fifteen seconds without a connection; what runs is left running.
AcceptTimesOut ==
    /\ task.op = "accept" /\ backlog = {} /\ Len(clients) < Cardinality(Modules)
    /\ Raise
    /\ UNCHANGED <<proc, backlog, clients, todo, lines, at, inbox, ctl, used>>

\* One turn of _wait_for_discovery, which then finds its publishers, or tries again, or
\* gives up with a warning.
WaitForDiscovery ==
    /\ task.op = "discover" /\ SpinOnce
    /\ \/ task' = Idle /\ sim' = [sim EXCEPT !.returned = TRUE]
       \/ UNCHANGED <<task, sim>> /\ inbox' # inbox
    /\ UNCHANGED <<proc, backlog, clients, todo, lines, at, used>>

\* MASSL3Env.close forgets the simulator; the next reset is a cold one.
Close ==
    /\ task = Idle /\ (\E m \in Modules : proc[m] # "none") /\ CloseRest
    /\ proc' = [m \in Modules |-> "none"]
    /\ sim' = [sim EXCEPT !.returned = FALSE, !.whole = FALSE] /\ ResetLocalState
    /\ UNCHANGED <<at, task, used>>
-----------------------------------------------------------------------------
Next ==
    \/ \E m \in Modules : Connect(m) \/ Serve(m) \/ Exit(m) \/ Gone(m) \/ Accept(m)
    \/ StepBegins \/ StepReads \/ StepEnds \/ ResetInPlace \/ ResetReads \/ ResetCold
    \/ Accepted \/ AcceptTimesOut \/ WaitForDiscovery \/ Close
-----------------------------------------------------------------------------
(* Properties.                                                              *)

\* Lock step: when step() has returned, every accepted client has executed exactly that
\* step of that episode, whatever exited or failed before, although no answer's content
\* is looked at; and if the reset that started the processes went through, every module
\* of the run is one of them.
InLockstep ==
    sim.returned /\ sim.n > 0 =>
        /\ \A m \in ToSet(clients) : at[m] = [op |-> "STEP", ep |-> sim.ep, n |-> sim.n - 1]
        /\ sim.whole => ToSet(clients) = Modules

\* After a cold reset the autopilot and the avoidance know only what the processes it
\* started have published.
ColdEpisodeClean == sim.cold => {ctl.odd, ctl.plan} \subseteq {0, sim.ep}

\* The ship never avoids without a course: callbacks do not interrupt the step.
AvoidsByCourse == ctl.law \notin {"turn radius", "amidships"}
=============================================================================
