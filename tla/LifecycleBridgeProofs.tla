------------------------- MODULE LifecycleBridgeProofs -------------------------
(***************************************************************************)
(* Proofs about LifecycleBridge, for any scenarios, nodes and number of      *)
(* clients: as long as no call is lost and no two requests overlap, the       *)
(* bridge, the primary and the nodes agree whenever nothing is under way,     *)
(* whatever injections failed, and a primary that is configured has the       *)
(* scenario its nodes have the parameters of.                                 *)
(*                                                                          *)
(* BridgeAndNodesAgree speaks of quiescent states only, so it is far from     *)
(* inductive.  IInv says what holds in between: whose call is on its way,     *)
(* what each task knows of the primary at the point it has reached, and that  *)
(* the transitions on their way to a node form a chain that ends where the    *)
(* bridge believes the node to be.                                            *)
(***************************************************************************)
EXTENDS LifecycleBridge, SequenceTheorems, TLAPS

Ids     == Scenarios \cup {NoScenario}
Trs     == {"CONFIGURE", "ACTIVATE", "DEACTIVATE", "CLEANUP"}
Resets  == {"reset", "reset_primary", "reset_stop", "reset_clean", "inject", "configure"}
Calling == {"reset_stop", "reset_clean", "configure", "activate", "deactivate"}
Asked   == [reset_stop |-> "DEACTIVATE", reset_clean |-> "CLEANUP",
            configure |-> "CONFIGURE", activate |-> "ACTIVATE",
            deactivate |-> "DEACTIVATE"]

TaskRecord == [pc: Resets \cup {"idle", "activate", "schedule", "deactivate", "asleep"},
               op: {"none", "configure", "cleanup"}, arg: Ids]
CallRecord == [by: Tasks \cup {"nobody"}, tr: Trs, arg: Ids]

\* The whole state has its type, task by task and node by node.
Typed ==
    /\ mirror \in States /\ scenario \in Ids /\ duration \in BOOLEAN
    /\ task \in [Tasks -> TaskRecord]
    /\ fsm \in Machine /\ queue \in Seq(CallRecord)
    /\ reply \in [Tasks -> {"none", "waiting", "ok", "rejected"}]
    /\ param \in [Nodes -> Ids] /\ node \in [Nodes -> [ros: States, scenario: Ids]]
    /\ sent \in [Nodes -> Seq(Trs)]
    /\ run \in Ids /\ ops \in 0..MaxOps /\ faults \in 0..MaxFaults
    /\ autoStopped \in BOOLEAN /\ overlapped \in BOOLEAN

\* What a task can be doing: a timer sleeps or stops the run, a request does not sleep,
\* and only a configure goes on from its reset.
Shapes ==
    /\ task["timer"].pc \in {"idle", "asleep", "deactivate"}
    /\ task["backup"].pc \in {"idle", "asleep"}
    /\ \A r \in Requests :
          /\ task[r].pc # "asleep"
          /\ task[r].pc \in Resets => task[r].op # "none"
          /\ task[r].op = "configure" => task[r].arg \in Scenarios
          /\ task[r].pc \in {"inject", "configure"} => task[r].op = "configure"

\* No call was lost and nothing overlapped.
Calm == faults = 0 /\ ~overlapped

\* One request at a time; the timers start and end together, and a reset has ended them.
Alone ==
    /\ \A r, q \in Requests : task[r].pc # "idle" /\ task[q].pc # "idle" => r = q
    /\ task["backup"].pc = "asleep" <=> task["timer"].pc # "idle"
    /\ \A r \in Requests : task[r].pc \in Resets => task["timer"].pc = "idle"

\* At most one call is on its way, that of the one task that waits for it; a timer's
\* stop that a reset disowned finds the run still active.
OneCall ==
    /\ Len(queue) <= 1
    /\ \A t \in Tasks : reply[t] # "none" <=> task[t].pc \in Calling
    /\ \A t, u \in Tasks : reply[t] # "none" /\ reply[u] # "none" => t = u
    /\ \A t \in Tasks : reply[t] = "waiting" => queue # <<>> /\ queue[1].by = t
    /\ queue # <<>> =>
          IF queue[1].by = "nobody"
          THEN /\ queue[1].tr = "DEACTIVATE" /\ fsm.state = "ACTIVE"
               /\ \E r \in Requests : task[r].pc \in {"reset", "reset_primary"}
          ELSE /\ reply[queue[1].by] = "waiting"
               /\ queue[1].tr = Asked[task[queue[1].by].pc]
               /\ queue[1].tr = "CONFIGURE" => queue[1].arg = task[queue[1].by].arg

\* A timer sleeps during a run, or while a request is stopping it, and stops the run with
\* no request under way.
TimerRuns ==
    /\ task["timer"].pc = "asleep" =>
          \/ fsm.state = "ACTIVE"
          \/ \E r \in Requests : task[r].pc = "deactivate" /\ reply[r] = "ok"
    /\ task["timer"].pc = "deactivate" =>
          /\ \A r \in Requests : task[r].pc = "idle"
          /\ mirror = "ACTIVE" /\ reply["timer"] # "rejected"
          /\ fsm.state = IF reply["timer"] = "waiting" THEN "ACTIVE" ELSE "INACTIVE"

\* What a request knows of the primary at the point it has reached.
Expects ==
    \A r \in Requests :
        /\ task[r].pc \in {"reset_stop", "reset_clean", "configure"} => reply[r] # "rejected"
        /\ task[r].pc = "reset_stop" =>
              fsm.state = IF reply[r] = "waiting" THEN "ACTIVE" ELSE "INACTIVE"
        /\ task[r].pc = "reset_clean" =>
              fsm.state = IF reply[r] = "waiting" THEN "INACTIVE" ELSE "UNCONFIGURED"
        /\ task[r].pc = "inject" => fsm.state = "UNCONFIGURED" /\ mirror = "UNCONFIGURED"
        /\ task[r].pc = "configure" =>
              /\ fsm.state = IF reply[r] = "waiting" THEN "UNCONFIGURED" ELSE "INACTIVE"
              /\ reply[r] = "ok" => fsm.scenario = task[r].arg
              /\ \A n \in Provides(task[r].arg) : param[n] = task[r].arg
        /\ task[r].pc = "activate" /\ reply[r] = "ok" => fsm.state = "ACTIVE"
        /\ task[r].pc = "deactivate" /\ reply[r] = "ok" => fsm.state = "INACTIVE"
        /\ task[r].pc = "schedule" => fsm.state = "ACTIVE"

\* Outside a reset the mirror is the primary's state, but for an answer not yet seen.
Settled == \A r \in Requests : task[r].pc \notin Resets

Seen == Settled => mirror = fsm.state \/ \E t \in Tasks : reply[t] = "ok"

\* A transition a node takes, or ignores because it is there already.
Fits(tr, state) == state = Legal[tr] \/ (tr # "CONFIGURE" /\ state = Reached[tr])

\* A chain of transitions from a state, and the state it ends in.
Chain(q, state) ==
    /\ q # <<>> => Fits(q[1], state)
    /\ \A i \in 1..(Len(q) - 1) : Fits(q[i + 1], Reached[q[i]]) /\ q[i + 1] # "CONFIGURE"

End(q, state) == IF q = <<>> THEN state ELSE Reached[q[Len(q)]]

\* What is on its way to a node is a chain; where the node will be when it is through.
Chained == \A n \in Nodes : Chain(sent[n], node[n].ros)

EndsAt(n) == End(sent[n], node[n].ros)

\* Nodes end where the primary is, but for a transition the bridge has yet to broadcast
\* and for the stop of the timer, which it does not.  In a reset they end unconfigured.
Followed ==
    /\ \A r \in Requests :
          /\ task[r].pc = "reset_primary" => \A n \in Nodes : EndsAt(n) = "UNCONFIGURED"
          /\ task[r].pc \in {"reset_stop", "reset_clean", "inject", "configure"} =>
                \A n \in Nodes : sent[n] = <<>> /\ node[n].ros = "UNCONFIGURED"
    /\ Settled => \A n \in Nodes :
          \/ EndsAt(n) = fsm.state
          \/ /\ EndsAt(n) = "ACTIVE" /\ fsm.state = "INACTIVE"
             /\ autoStopped \/ \E r \in Requests : task[r].pc = "deactivate" /\ reply[r] = "ok"
          \/ /\ EndsAt(n) = "INACTIVE" /\ fsm.state = "ACTIVE"
             /\ \E r \in Requests : task[r].pc = "activate" /\ reply[r] = "ok"

\* A configured primary, the bridge and the nodes have one scenario.
Provided ==
    Settled /\ fsm.state # "UNCONFIGURED" =>
        /\ scenario = fsm.scenario /\ fsm.scenario \in Scenarios
        /\ \A n \in Provides(fsm.scenario) :
              /\ param[n] = fsm.scenario
              /\ node[n].scenario = fsm.scenario \/ (sent[n] # <<>> /\ sent[n][1] = "CONFIGURE")

\* The run directory of an active run is made before its activate is through.
Recorded ==
    Settled /\ fsm.state = "ACTIVE" =>
        \/ run = fsm.scenario
        \/ \E r \in Requests : \/ task[r].pc = "schedule"
                               \/ task[r].pc = "activate" /\ reply[r] = "ok"

CalmInv == Alone /\ OneCall /\ TimerRuns /\ Expects /\ Seen /\ Chained /\ Followed /\ Provided
              /\ Recorded

IInv == Typed /\ Shapes /\ (Calm => CalmInv)
-----------------------------------------------------------------------------
(* The names of the tasks, and the two timers among them.                   *)
LEMMA TaskNames ==
    /\ "timer" \in Tasks /\ "backup" \in Tasks /\ Requests \subseteq Tasks
    /\ "timer" \notin Requests /\ "backup" \notin Requests /\ "nobody" \notin Tasks
    /\ \A t \in Tasks : t \in Requests \/ t = "timer" \/ t = "backup"
BY BridgeAssumption DEF Tasks

(* Going on to another point changes the one task, and only where it is.      *)
LEMMA GotoLeaves ==
    ASSUME task \in [Tasks -> TaskRecord], NEW t \in Tasks, NEW pc, Goto(t, pc),
           pc \in Resets \cup {"idle", "activate", "schedule", "deactivate", "asleep"}
    PROVE  /\ task' \in [Tasks -> TaskRecord]
           /\ task'[t].pc = pc /\ task'[t].op = task[t].op /\ task'[t].arg = task[t].arg
           /\ \A u \in Tasks \ {t} : task'[u] = task[u]
BY DEF Goto, TaskRecord

(* Finishing makes the one task idle.                                        *)
LEMMA FinishLeaves ==
    ASSUME task \in [Tasks -> TaskRecord], NEW t \in Tasks, Finish(t)
    PROVE  /\ task' \in [Tasks -> TaskRecord]
           /\ task'[t].pc = "idle" /\ task'[t].op = "none"
           /\ \A u \in Tasks \ {t} : task'[u] = task[u]
BY DEF Finish, TaskRecord, Idle, Ids

(* Cancelling makes the two timers idle and no other task.                   *)
LEMMA CancelledLeaves ==
    ASSUME task \in [Tasks -> TaskRecord]
    PROVE  /\ Cancelled(task) \in [Tasks -> TaskRecord]
           /\ Cancelled(task)["timer"].pc = "idle" /\ Cancelled(task)["backup"].pc = "idle"
           /\ \A r \in Requests : Cancelled(task)[r] = task[r]
BY TaskNames DEF Cancelled, TaskRecord, Idle, Ids

(* Disowning keeps every call, its transition and its argument.               *)
LEMMA DisownLeaves ==
    ASSUME NEW q \in Seq(CallRecord), NEW ts
    PROVE  /\ Disown(q, ts) \in Seq(CallRecord) /\ Len(Disown(q, ts)) = Len(q)
           /\ \A i \in 1..Len(q) :
                 /\ Disown(q, ts)[i].tr = q[i].tr /\ Disown(q, ts)[i].arg = q[i].arg
                 /\ Disown(q, ts)[i].by = IF q[i].by \in ts THEN "nobody" ELSE q[i].by
<1>1. \A i \in 1..Len(q) : q[i] \in CallRecord  OBVIOUS
<1>2. \A i \in 1..Len(q) :
        /\ Disown(q, ts)[i] \in CallRecord
        /\ Disown(q, ts)[i].tr = q[i].tr /\ Disown(q, ts)[i].arg = q[i].arg
        /\ Disown(q, ts)[i].by = IF q[i].by \in ts THEN "nobody" ELSE q[i].by
  BY <1>1 DEF Disown, CallRecord
<1>3. Len(q) \in Nat /\ DOMAIN q = 1..Len(q)  OBVIOUS
<1>4. Disown(q, ts) \in [1..Len(q) -> CallRecord]  BY <1>2, <1>3 DEF Disown
<1> QED  BY <1>2, <1>3, <1>4

(* A call is the last of the queue, and its task waits for it.                *)
LEMMA CallLeaves ==
    ASSUME queue \in Seq(CallRecord), NEW t \in Tasks, NEW tr \in Trs, NEW s \in Ids,
           reply \in [Tasks -> {"none", "waiting", "ok", "rejected"}], overlapped \in BOOLEAN,
           Call(t, tr, s)
    PROVE  /\ queue' \in Seq(CallRecord) /\ overlapped' \in BOOLEAN
           /\ reply' \in [Tasks -> {"none", "waiting", "ok", "rejected"}]
           /\ reply'[t] = "waiting" /\ \A u \in Tasks \ {t} : reply'[u] = reply[u]
           /\ overlapped => overlapped'
           /\ ~overlapped' => /\ queue = <<>> /\ queue' # <<>> /\ Len(queue') = 1
                              /\ queue'[1] = [by |-> t, tr |-> tr, arg |-> s]
                              /\ \A u \in Tasks \ {t} : reply[u] = "none"
                              /\ \A u \in Requests \ {t} : task[u].pc = "idle"
<1>1. [by |-> t, tr |-> tr, arg |-> s] \in CallRecord  BY DEF CallRecord
<1>2. queue' \in Seq(CallRecord)  BY <1>1 DEF Call
<1>3. ASSUME ~overlapped'
      PROVE  /\ queue = <<>>
             /\ \A u \in Tasks \ {t} : reply[u] = "none"
             /\ \A u \in Requests \ {t} : task[u].pc = "idle"
  BY <1>3 DEF Call, OthersBusy, OthersCall
<1>4. ASSUME queue = <<>>
      PROVE  queue' # <<>> /\ Len(queue') = 1 /\ queue'[1] = [by |-> t, tr |-> tr, arg |-> s]
  BY <1>4 DEF Call
<1> QED  BY <1>2, <1>3, <1>4 DEF Call, OthersBusy, OthersCall

(* A legal transition takes the primary where it says, and a configure takes *)
(* its scenario along.                                                       *)
LEMMA TransitionLeaves ==
    ASSUME NEW m \in Machine, NEW tr \in Trs, NEW s \in Ids
    PROVE  /\ Transition(m, tr, s) \in Machine
           /\ m.state = Legal[tr] =>
                 /\ Transition(m, tr, s).state = Reached[tr]
                 /\ tr = "CONFIGURE" => Transition(m, tr, s).scenario = s
                 /\ tr \in {"ACTIVATE", "DEACTIVATE"} => Transition(m, tr, s).scenario = m.scenario
<1> USE DEF Machine, Transition, Configure, Activate, Deactivate, Cleanup, Legal, Reached,
            States, ClockModes, DynModes, Ids
<1>1. CASE tr = "CONFIGURE"  BY <1>1
<1>2. CASE tr = "ACTIVATE"  BY <1>2
<1>3. CASE tr = "DEACTIVATE"  BY <1>3
<1>4. CASE tr = "CLEANUP"  BY <1>4
<1> QED  BY <1>1, <1>2, <1>3, <1>4 DEF Trs

(* Where no fault was spent, every node was reached.                         *)
LEMMA AllReached ==
    ASSUME faults \in Nat, NEW reached, faults' = Spent(reached, faults), faults' = 0
    PROVE  reached = Nodes /\ faults = 0
BY DEF Spent

(* Every transition leads to a state of the lifecycle.                        *)
LEMMA TransitionStates == \A tr \in Trs : Legal[tr] \in States /\ Reached[tr] \in States
BY DEF Trs, Legal, Reached, States

(* A transition that fits leaves the node in the state it is for.             *)
LEMMA FitsReaches ==
    ASSUME NEW tr \in Trs, NEW state, Fits(tr, state)
    PROVE  (IF state # Legal[tr] THEN state ELSE Reached[tr]) = Reached[tr]
BY DEF Fits

(* Initially nothing is under way and everything is unconfigured.             *)
LEMMA InitInv == Init => IInv
<1> SUFFICES ASSUME Init PROVE IInv  OBVIOUS
<1> USE BridgeAssumption, TaskNames DEF Init
<1>1. NewMachine \in Machine
  BY DEF NewMachine, Machine, States, ClockModes, DynModes
<1>2. Typed
  <2>1. task \in [Tasks -> TaskRecord]  BY DEF TaskRecord, Idle, Ids
  <2>2. node \in [Nodes -> [ros: States, scenario: Ids]] /\ param \in [Nodes -> Ids]
    BY DEF States, Ids
  <2>3. mirror \in States /\ scenario \in Ids /\ run \in Ids  BY DEF States, Ids
  <2>4. queue \in Seq(CallRecord) /\ sent \in [Nodes -> Seq(Trs)]  OBVIOUS
  <2>5. ops \in 0..MaxOps /\ faults \in 0..MaxFaults  OBVIOUS
  <2> QED  BY <1>1, <2>1, <2>2, <2>3, <2>4, <2>5 DEF Typed
<1>3. \A t \in Tasks : task[t].pc = "idle" /\ task[t].op = "none"  BY DEF Idle
<1>4. Shapes  BY <1>3 DEF Shapes, Resets
<1>5. fsm.state = "UNCONFIGURED"  BY DEF NewMachine
<1>6. Alone /\ OneCall /\ TimerRuns /\ Seen
  BY <1>3, <1>5 DEF Alone, OneCall, TimerRuns, Seen, Calling
<1>7. Expects /\ Chained  BY <1>3, <1>5 DEF Expects, Chained, Chain
<1>8. Followed /\ Provided /\ Recorded
  BY <1>3, <1>5 DEF Followed, Provided, Recorded, EndsAt, End
<1> QED  BY <1>2, <1>4, <1>6, <1>7, <1>8 DEF IInv, CalmInv

(* A node takes its next transition: the chain gets shorter and ends where it *)
(* did; a configure takes the parameters that were injected for the run.      *)
LEMMA NodeHandlesInv == ASSUME IInv, NEW n \in Nodes, NodeHandles(n) PROVE IInv'
<1> DEFINE tr == sent[n][1]
<1> USE DEF NodeHandles, bridge, primary
<1>1. /\ sent[n] \in Seq(Trs) /\ sent[n] # <<>> /\ tr \in Trs /\ Len(sent[n]) \in Nat \ {0}
      /\ sent'[n] = Tail(sent[n]) /\ sent' \in [Nodes -> Seq(Trs)]
      /\ Len(sent'[n]) = Len(sent[n]) - 1
      /\ \A i \in 1..(Len(sent[n]) - 1) : sent'[n][i] = sent[n][i + 1]
      /\ \A m \in Nodes \ {n} : sent'[m] = sent[m]
  BY DEF IInv, Typed
<1>2. /\ node' \in [Nodes -> [ros: States, scenario: Ids]]
      /\ node[n].ros = Legal[tr] =>
            /\ node'[n].ros = Reached[tr]
            /\ node'[n].scenario = IF tr = "CONFIGURE" THEN param[n] ELSE node[n].scenario
      /\ node[n].ros # Legal[tr] => node'[n] = node[n]
      /\ \A m \in Nodes \ {n} : node'[m] = node[m]
  <2>1. tr = Head(sent[n]) /\ node \in [Nodes -> [ros: States, scenario: Ids]]
        /\ param[n] \in Ids /\ Reached[tr] \in States
    BY <1>1, TransitionStates DEF IInv, Typed
  <2>2. CASE node[n].ros # Legal[tr]
    <3>1. node' = node  BY <2>1, <2>2
    <3> QED  BY <2>1, <2>2, <3>1
  <2>3. CASE node[n].ros = Legal[tr]
    <3>1. node' = [node EXCEPT ![n].ros = Reached[tr],
                               ![n].scenario = IF tr = "CONFIGURE" THEN param[n] ELSE @]
      BY <2>1, <2>3
    <3>2. \A m \in Nodes \ {n} : node'[m] = node[m]  BY <2>1, <3>1
    <3>3. /\ node'[n].ros = Reached[tr]
          /\ node'[n].scenario = IF tr = "CONFIGURE" THEN param[n] ELSE node[n].scenario
      BY <2>1, <3>1
    <3>4. node'[n] \in [ros: States, scenario: Ids]
      <4>1. node[n] \in [ros: States, scenario: Ids]  BY <2>1
      <4>2. PICK state \in States, s \in Ids :
              node'[n] = [node[n] EXCEPT !.ros = state, !.scenario = s]
        BY <2>1, <3>1, <4>1
      <4> QED  BY <4>1, <4>2
    <3>5. DOMAIN node' = Nodes /\ node' = [m \in Nodes |-> node'[m]]  BY <2>1, <3>1
    <3> QED  BY <2>1, <2>3, <3>2, <3>3, <3>4, <3>5
  <2> QED  BY <2>2, <2>3
<1>3. Typed' /\ Shapes'  BY <1>1, <1>2 DEF IInv, Typed, Shapes
<1>4. ASSUME Calm' PROVE CalmInv'
  <2>1. CalmInv  BY <1>4 DEF IInv, Calm
  <2>2. Fits(tr, node[n].ros) /\ node'[n].ros = Reached[tr]
    BY <1>1, <1>2, <2>1, FitsReaches DEF CalmInv, Chained, Chain, Fits
  <2>3. Alone' /\ OneCall' /\ TimerRuns' /\ Expects' /\ Seen' /\ Recorded'
    BY <2>1 DEF CalmInv, Alone, OneCall, TimerRuns, Expects, Seen, Settled, Recorded
  <2>4. Chained'
    <3>1. sent'[n] # <<>> => sent'[n][1] = sent[n][2] /\ Len(sent[n]) >= 2
      BY <1>1
    <3>2. sent'[n] # <<>> => Fits(sent'[n][1], node'[n].ros)
      BY <1>1, <2>1, <2>2, <3>1 DEF CalmInv, Chained, Chain
    <3>3. \A i \in 1..(Len(sent'[n]) - 1) : /\ Fits(sent'[n][i + 1], Reached[sent'[n][i]])
                                           /\ sent'[n][i + 1] # "CONFIGURE"
      <4> TAKE i \in 1..(Len(sent'[n]) - 1)
      <4>1. i + 1 \in 1..(Len(sent[n]) - 1) /\ i \in 1..(Len(sent[n]) - 1)  BY <1>1
      <4>2. sent'[n][i + 1] = sent[n][(i + 1) + 1] /\ sent'[n][i] = sent[n][i + 1]  BY <1>1, <4>1
      <4> QED  BY <2>1, <4>1, <4>2 DEF CalmInv, Chained, Chain
    <3>4. ASSUME NEW m \in Nodes \ {n}
          PROVE  /\ sent'[m] # <<>> => Fits(sent'[m][1], node'[m].ros)
                 /\ \A i \in 1..(Len(sent'[m]) - 1) :
                       /\ Fits(sent'[m][i + 1], Reached[sent'[m][i]])
                       /\ sent'[m][i + 1] # "CONFIGURE"
      BY <1>1, <1>2, <2>1, <3>4 DEF CalmInv, Chained, Chain
    <3> QED  BY ZenonT(60), <3>2, <3>3, <3>4 DEF Chained, Chain, Fits
  <2>5. \A m \in Nodes : EndsAt(m)' = EndsAt(m)
    <3>1. EndsAt(n)' = EndsAt(n)
      <4>1. CASE sent'[n] = <<>>
        <5>1. Len(sent[n]) = 1
          <6>1. Len(sent'[n]) = 0  BY <4>1
          <6> QED  BY <1>1, <6>1
        <5> QED  BY <1>1, <2>2, <4>1, <5>1 DEF EndsAt, End
      <4>2. CASE sent'[n] # <<>>
        <5>1. Len(sent[n]) - 1 \in 1..(Len(sent[n]) - 1)  BY <1>1, <4>2
        <5>2. sent'[n][Len(sent'[n])] = sent[n][Len(sent[n])]  BY <1>1, <5>1
        <5> QED  BY <1>1, <4>2, <5>2 DEF EndsAt, End
      <4> QED  BY <4>1, <4>2
    <3> QED  BY <1>1, <1>2, <3>1 DEF EndsAt, End
  <2>6. Followed'
    BY <1>1, <1>2, <2>1, <2>5 DEF CalmInv, Followed, Settled
  <2>7. Provided'
    <3>1. ASSUME Settled, fsm.state # "UNCONFIGURED", NEW m \in Nodes,
                 m \in Provides(fsm.scenario)
          PROVE  \/ node'[m].scenario = fsm.scenario
                 \/ sent'[m] # <<>> /\ sent'[m][1] = "CONFIGURE"
      <4>1. CASE m = n
        <5>1. CASE tr = "CONFIGURE"
          <6>1. node[n].ros = Legal[tr]  BY <2>2, <5>1 DEF Fits
          <6> QED  BY <1>2, <2>1, <3>1, <4>1, <5>1, <6>1 DEF CalmInv, Provided
        <5>2. CASE tr # "CONFIGURE"
          BY <1>2, <2>1, <3>1, <4>1, <5>2 DEF CalmInv, Provided
        <5> QED  BY <5>1, <5>2
      <4>2. CASE m # n
        BY <1>1, <1>2, <2>1, <3>1, <4>2 DEF CalmInv, Provided
      <4> QED  BY <4>1, <4>2
    <3>2. \A s : Provides(s) \subseteq Nodes  BY DEF Provides
    <3> QED  BY <2>1, <3>1, <3>2 DEF CalmInv, Provided, Settled, Provides
  <2> QED  BY <2>3, <2>4, <2>6, <2>7 DEF CalmInv
<1> QED  BY <1>3, <1>4 DEF IInv

(* The primary answers the one call that is on its way.                       *)
LEMMA PrimaryHandlesInv == ASSUME IInv, PrimaryHandles PROVE IInv'
<1> DEFINE c == queue[1]
           ok == fsm.state = Legal[c.tr]
<1> USE DEF bridge, nodes
<1>1. /\ queue # <<>> /\ c = Head(queue) /\ c \in CallRecord /\ queue' = Tail(queue)
      /\ queue' \in Seq(CallRecord) /\ Len(queue') = Len(queue) - 1 /\ Len(queue) \in Nat \ {0}
  BY DEF IInv, Typed, PrimaryHandles
<1>2. /\ c.by \in Tasks \cup {"nobody"} /\ c.tr \in Trs /\ c.arg \in Ids  BY <1>1 DEF CallRecord
<1>3. /\ fsm' \in Machine
      /\ ~ok => fsm' = fsm
      /\ ok => /\ fsm'.state = Reached[c.tr]
               /\ c.tr = "CONFIGURE" => fsm'.scenario = c.arg
               /\ c.tr \in {"ACTIVATE", "DEACTIVATE"} => fsm'.scenario = fsm.scenario
  <2>1. fsm \in Machine /\ fsm' = IF ok THEN Transition(fsm, c.tr, c.arg) ELSE fsm
    BY <1>1 DEF IInv, Typed, PrimaryHandles
  <2> QED  BY ONLY <1>2, <2>1, TransitionLeaves
<1>4. /\ reply' \in [Tasks -> {"none", "waiting", "ok", "rejected"}]
      /\ \A t \in Tasks : t # c.by => reply'[t] = reply[t]
      /\ c.by \in Tasks => reply'[c.by] = IF ok THEN "ok" ELSE "rejected"
  BY <1>1 DEF IInv, Typed, PrimaryHandles
<1>5. /\ autoStopped' = IF c.tr = "DEACTIVATE" /\ ok THEN c.by = "timer" ELSE autoStopped
      /\ UNCHANGED <<bridge, task, nodes, run, ops, faults, overlapped>>
  BY <1>1 DEF PrimaryHandles
<1>6. Typed' /\ Shapes'
  <2>1. autoStopped \in BOOLEAN  BY DEF IInv, Typed
  <2>2. autoStopped' \in BOOLEAN
    <3>1. CASE c.tr = "DEACTIVATE" /\ ok
      <4>1. autoStopped' = (c.by = "timer")  BY <1>5, <3>1
      <4> QED  BY <4>1
    <3>2. CASE ~(c.tr = "DEACTIVATE" /\ ok)  BY <1>5, <2>1, <3>2
    <3> QED  BY <3>1, <3>2
  <2>3. Shapes'  BY <1>5 DEF IInv, Shapes
  <2>4. Typed'  BY <1>1, <1>3, <1>4, <1>5, <2>2 DEF IInv, Typed
  <2> QED  BY <2>3, <2>4
<1>7. ASSUME Calm' PROVE CalmInv'
  <2>1. CalmInv  BY <1>5, <1>7 DEF IInv, Calm
  <2>2. queue' = <<>>  BY <1>1, <2>1 DEF CalmInv, OneCall
  <2>3. Alone'  BY <1>5, <2>1 DEF CalmInv, Alone
  <2>4. Chained' /\ \A n \in Nodes : EndsAt(n)' = EndsAt(n)
    BY <1>5, <2>1 DEF CalmInv, Chained, EndsAt, End
  <2>5. CASE c.by = "nobody"
    <3>1. /\ c.tr = "DEACTIVATE" /\ ok /\ fsm'.state = "INACTIVE"
          /\ \A t \in Tasks : reply'[t] = reply[t] /\ reply[t] # "waiting"
      BY <1>1, <1>3, <1>4, <2>1, <2>5, TaskNames DEF CalmInv, OneCall, Legal, Reached
    <3>2. PICK r \in Requests : task[r].pc \in {"reset", "reset_primary"}
      BY <1>1, <2>1, <2>5 DEF CalmInv, OneCall
    <3>3. \A q \in Requests : q # r => task[q].pc = "idle"
      BY <2>1, <3>2 DEF CalmInv, Alone
    <3>4. OneCall' /\ TimerRuns'
      BY <1>5, <2>1, <2>2, <3>1, <3>2 DEF CalmInv, Alone, OneCall, TimerRuns, Resets
    <3>5. Expects'
      BY <1>5, <3>2, <3>3 DEF Expects
    <3>6. ~Settled'  BY <1>5, <3>2 DEF Settled, Resets
    <3>7. Seen' /\ Followed' /\ Provided' /\ Recorded'
      BY <1>5, <2>1, <2>4, <3>6 DEF CalmInv, Seen, Followed, Provided, Recorded
    <3> QED  BY <2>3, <2>4, <3>4, <3>5, <3>7 DEF CalmInv
  <2>6. CASE c.by = "timer"
    <3>1. /\ reply["timer"] = "waiting" /\ task["timer"].pc \in Calling
          /\ c.tr = Asked[task["timer"].pc]
      BY <1>1, <2>1, <2>6, TaskNames DEF CalmInv, OneCall
    <3>2. task["timer"].pc = "deactivate" /\ c.tr = "DEACTIVATE" /\ fsm.state = "ACTIVE"
      BY <2>1, <3>1 DEF IInv, Shapes, CalmInv, TimerRuns, Asked, Calling
    <3>0. ok /\ fsm'.state = "INACTIVE" /\ reply'["timer"] = "ok"
          /\ fsm'.scenario = fsm.scenario
      BY <1>3, <1>4, <2>6, <3>2, TaskNames DEF Legal, Reached
    <3>a. autoStopped' = (c.by = "timer")  BY <1>5, <3>0, <3>2
    <3>b. autoStopped'  BY <3>a, <2>6
    <3>3. ok /\ fsm'.state = "INACTIVE" /\ reply'["timer"] = "ok" /\ autoStopped'
          /\ fsm'.scenario = fsm.scenario
      BY <3>0, <3>b
    <3>4. \A r \in Requests : task[r].pc = "idle"
      BY <2>1, <3>2 DEF CalmInv, TimerRuns
    <3>5. \A t \in Tasks : t # "timer" => reply'[t] = "none"
      BY <1>4, <2>1, <2>6, <3>1, TaskNames DEF CalmInv, OneCall
    <3>6. OneCall'
      BY <1>5, <2>1, <2>2, <3>1, <3>3, <3>5, TaskNames DEF CalmInv, OneCall
    <3>7. TimerRuns' /\ Expects' /\ Seen'
      BY <1>5, <2>1, <3>2, <3>3, <3>4, TaskNames DEF CalmInv, TimerRuns, Expects, Seen
    <3>8. Followed'
      BY <1>5, <2>1, <2>4, <3>2, <3>3, <3>4 DEF CalmInv, Followed, Settled, Resets
    <3>9. Provided' /\ Recorded'
      BY <1>5, <2>1, <3>2, <3>3, <3>4 DEF CalmInv, Provided, Recorded, Settled, Resets
    <3> QED  BY <2>3, <2>4, <3>6, <3>7, <3>8, <3>9 DEF CalmInv
  <2>7. CASE c.by \in Requests
    <3> DEFINE r == c.by
               pc == task[r].pc
    <3>1. r \in Tasks /\ r # "timer" /\ r # "backup" /\ r # "nobody"
      BY <2>7, TaskNames
    <3>2. reply[r] = "waiting" /\ pc \in Calling /\ c.tr = Asked[pc]
          /\ (c.tr = "CONFIGURE" => c.arg = task[r].arg)
      BY <1>1, <2>1, <3>1 DEF CalmInv, OneCall
    <3>3. \A q \in Requests : q # r => task[q].pc = "idle"
      BY <2>1, <2>7, <3>2 DEF CalmInv, Alone, Calling
    <3>4. \A t \in Tasks : t # r => reply[t] = "none" /\ reply'[t] = "none"
      BY <1>4, <2>1, <3>1, <3>2 DEF CalmInv, OneCall
    <3>5. reply'[r] = IF ok THEN "ok" ELSE "rejected"  BY <1>4, <3>1
    <3>6. task["timer"].pc # "deactivate"
      BY <2>1, <3>2, <2>7 DEF CalmInv, TimerRuns, Calling
    <3>7. OneCall'
      BY <1>5, <2>1, <2>2, <3>1, <3>2, <3>4, <3>5 DEF CalmInv, OneCall
    <3> HIDE DEF r, pc, ok, c
    <3>8. CASE pc \in {"reset_stop", "reset_clean", "configure"}
      <4>1. /\ fsm.state = Legal[c.tr] /\ fsm'.state = Reached[c.tr] /\ reply'[r] = "ok"
            /\ pc = "configure" => fsm'.scenario = task[r].arg
        <5>1. /\ pc = "reset_stop" => c.tr = "DEACTIVATE" /\ fsm.state = "ACTIVE"
              /\ pc = "reset_clean" => c.tr = "CLEANUP" /\ fsm.state = "INACTIVE"
              /\ pc = "configure" => c.tr = "CONFIGURE" /\ fsm.state = "UNCONFIGURED"
          BY <2>1, <2>7, <3>2 DEF CalmInv, Expects, Asked, r, pc
        <5>2. fsm.state = Legal[c.tr]  BY <3>8, <5>1 DEF Legal
        <5>3. ok  BY <5>2 DEF ok
        <5> QED  BY <1>3, <3>2, <3>5, <5>1, <5>2, <5>3
      <4>2. task["timer"].pc = "idle" /\ ~Settled
        BY <2>1, <2>7, <3>8 DEF CalmInv, Alone, Settled, Resets, r, pc
      <4>3. TimerRuns'  BY <1>5, <4>2 DEF TimerRuns
      <4>4. Expects'
        <5>1. task'[r].pc = pc /\ task'[r].arg = task[r].arg
              /\ \A q \in Requests : q # r => task'[q].pc = "idle"
          BY <1>5, <3>3 DEF pc
        <5>2. /\ pc = "reset_stop" => fsm'.state = "INACTIVE"
              /\ pc = "reset_clean" => fsm'.state = "UNCONFIGURED"
              /\ pc = "configure" => fsm'.state = "INACTIVE" /\ fsm'.scenario = task[r].arg
          BY <3>2, <4>1 DEF Asked, Reached
        <5>3. pc = "configure" => \A n \in Provides(task[r].arg) : param'[n] = task[r].arg
          BY <1>5, <2>1, <2>7 DEF CalmInv, Expects, r, pc
        <5> HIDE DEF pc
        <5> QED  BY <3>8, <4>1, <5>1, <5>2, <5>3 DEF Expects
      <4>5. Seen' /\ Followed' /\ Provided' /\ Recorded'
        BY <1>5, <2>1, <2>4, <4>2 DEF CalmInv, Seen, Followed, Provided, Recorded, Settled
      <4> QED  BY <2>3, <2>4, <3>7, <4>3, <4>4, <4>5 DEF CalmInv
    <3>9. CASE pc \in {"activate", "deactivate"}
      <4>1. Settled /\ Settled'
        BY <1>5, <3>3, <3>9 DEF Settled, Resets, pc
      <4>2. mirror = fsm.state
        BY <2>1, <3>2, <3>4, <4>1 DEF CalmInv, Seen
      <4>3. CASE ~ok
        <5>1. fsm' = fsm /\ reply'[r] = "rejected"
          <6>1. fsm' = fsm  BY <1>3, <4>3 DEF ok, c
          <6>2. reply'[r] = "rejected"  BY <3>5, <4>3
          <6> QED  BY <6>1, <6>2
        <5>2. autoStopped' = autoStopped  BY <1>5, <4>3 DEF ok, c
        <5>3. TimerRuns'
          BY <1>5, <2>1, <3>2, <3>3, <3>6, <5>1 DEF CalmInv, TimerRuns, r
        <5>4. Expects'
          BY <1>5, <3>3, <3>9, <5>1 DEF Expects, r, pc
        <5>5. Seen'  BY <1>5, <4>2, <5>1 DEF Seen
        <5>6. Followed'
          BY <1>5, <2>1, <2>4, <3>2, <3>3, <3>9, <4>1, <5>1, <5>2 DEF CalmInv, Followed, Settled, r, pc
        <5>7. Provided' /\ Recorded'
          BY <1>5, <2>1, <3>2, <3>3, <4>1, <5>1 DEF CalmInv, Provided, Recorded, Settled, r, pc
        <5> QED  BY <2>3, <2>4, <3>7, <5>3, <5>4, <5>5, <5>6, <5>7 DEF CalmInv
      <4>4. CASE ok /\ pc = "activate"
        <5>1. /\ fsm.state = "INACTIVE" /\ fsm'.state = "ACTIVE" /\ reply'[r] = "ok"
              /\ fsm'.scenario = fsm.scenario /\ autoStopped' = autoStopped
          BY <1>3, <1>5, <3>2, <3>5, <4>4 DEF Asked, Legal, Reached, ok, pc
        <5>2. TimerRuns'  BY <1>5, <3>6, <5>1 DEF TimerRuns
        <5>3. Expects'  BY <1>5, <3>3, <4>4, <5>1 DEF Expects, pc
        <5>4. Seen'  BY <3>1, <5>1 DEF Seen
        <5>5. Followed'
          BY <1>5, <2>1, <2>4, <2>7, <3>3, <4>1, <4>4, <5>1 DEF CalmInv, Followed, r, pc
        <5>6. Provided' /\ Recorded'
          BY <1>5, <2>1, <2>7, <4>1, <4>4, <5>1 DEF CalmInv, Provided, Recorded, r, pc
        <5> QED  BY <2>3, <2>4, <3>7, <5>2, <5>3, <5>4, <5>5, <5>6 DEF CalmInv
      <4>5. CASE ok /\ pc = "deactivate"
        <5>1. /\ fsm.state = "ACTIVE" /\ fsm'.state = "INACTIVE" /\ reply'[r] = "ok"
              /\ fsm'.scenario = fsm.scenario
          BY <1>3, <1>5, <3>2, <3>5, <4>5 DEF Asked, Legal, Reached, ok, pc
        <5>2. TimerRuns'  BY <1>5, <2>7, <3>6, <4>5, <5>1 DEF TimerRuns, r, pc
        <5>3. Expects'  BY <1>5, <3>3, <4>5, <5>1 DEF Expects, pc
        <5>4. Seen'  BY <3>1, <5>1 DEF Seen
        <5>5. \A n \in Nodes : EndsAt(n) = "ACTIVE"
          BY <2>1, <3>2, <3>3, <4>1, <4>5, <5>1 DEF CalmInv, Followed, r, pc
        <5>6. Followed'
          BY <1>5, <2>4, <2>7, <3>3, <4>5, <5>1, <5>5 DEF Followed, r, pc
        <5>7. Provided' /\ Recorded'
          BY <1>5, <2>1, <4>1, <5>1 DEF CalmInv, Provided, Recorded
        <5> QED  BY <2>3, <2>4, <3>7, <5>2, <5>3, <5>4, <5>6, <5>7 DEF CalmInv
      <4> QED  BY <3>9, <4>3, <4>4, <4>5
    <3> QED  BY <3>2, <3>8, <3>9 DEF Calling
  <2>8. c.by # "backup"
    BY <1>1, <2>1, TaskNames DEF IInv, Shapes, CalmInv, OneCall, Calling
  <2> QED  BY <1>2, <2>5, <2>6, <2>7, <2>8 DEF Tasks
<1> QED  BY <1>6, <1>7 DEF IInv

-----------------------------------------------------------------------------
(* configure and cleanup.                                                    *)

(* A request that resets ends the timers; a stop the timer had under way goes *)
(* on as nobody's, and finds the run still active.                            *)
LEMMA StartResetInv ==
    ASSUME IInv, NEW r \in Requests, NEW op \in {"configure", "cleanup"}, NEW s \in Ids,
           op = "configure" => s \in Scenarios, StartReset(r, op, s)
    PROVE  IInv'
<1> USE DEF nodes
<1>1. /\ task' \in [Tasks -> TaskRecord] /\ task[r].pc = "idle"
      /\ task'[r] = [pc |-> "reset", op |-> op, arg |-> s]
      /\ task'["timer"].pc = "idle" /\ task'["backup"].pc = "idle"
      /\ \A q \in Requests : q # r => task'[q] = task[q]
  <2>1. [pc |-> "reset", op |-> op, arg |-> s] \in TaskRecord  BY DEF TaskRecord, Resets
  <2>2. r \in Tasks /\ r # "timer" /\ r # "backup"  BY TaskNames
  <2>3. task \in [Tasks -> TaskRecord]  BY DEF IInv, Typed
  <2> QED  BY <2>1, <2>2, <2>3, CancelledLeaves, TaskNames DEF StartReset
<1>2. /\ queue' \in Seq(CallRecord) /\ Len(queue') = Len(queue)
      /\ \A i \in 1..Len(queue) :
            /\ queue'[i].tr = queue[i].tr /\ queue'[i].arg = queue[i].arg
            /\ queue'[i].by = IF queue[i].by = "timer" THEN "nobody" ELSE queue[i].by
  <2>1. queue \in Seq(CallRecord) /\ queue' = Disown(queue, {"timer"})
    BY DEF IInv, Typed, StartReset
  <2> QED  BY <2>1, DisownLeaves
<1>3. /\ reply' \in [Tasks -> {"none", "waiting", "ok", "rejected"}] /\ reply'["timer"] = "none"
      /\ \A t \in Tasks : t # "timer" => reply'[t] = reply[t]
  BY TaskNames DEF IInv, Typed, StartReset
<1>4. /\ ops' \in 0..MaxOps /\ duration' \in BOOLEAN /\ overlapped' \in BOOLEAN
      /\ overlapped => overlapped'
  <2>1. ops' \in 0..MaxOps  BY BridgeAssumption DEF IInv, Typed, StartReset
  <2>2. duration' \in BOOLEAN
    <3>1. duration \in BOOLEAN  BY DEF IInv, Typed
    <3>2. duration' = (s \in Timed) \/ duration' = duration  BY DEF StartReset
    <3>3. (s \in Timed) \in BOOLEAN  OBVIOUS
    <3> QED  BY <3>1, <3>2, <3>3, Zenon
  <2>3. overlapped' = (overlapped \/ OthersBusy(r))  BY DEF StartReset
  <2> QED  BY <2>1, <2>2, <2>3
<1>5. UNCHANGED <<mirror, scenario, fsm, param, node, sent, run, faults, autoStopped>>
  BY DEF StartReset
<1>6. Typed'  BY <1>1, <1>2, <1>3, <1>4, <1>5 DEF IInv, Typed
<1>7. Shapes'  BY <1>1 DEF IInv, Shapes, Resets
<1>8. ASSUME Calm' PROVE CalmInv'
  <2>1. CalmInv  BY <1>4, <1>5, <1>8 DEF IInv, Calm
  <2>2. \A q \in Requests : q # r => task[q].pc = "idle" /\ task'[q].pc = "idle"
    BY <1>1, <1>8 DEF Calm, StartReset, OthersBusy
  <2>3. \A t \in Tasks : reply'[t] = "none"
    BY <1>1, <1>3, <2>1, <2>2, TaskNames DEF IInv, Shapes, CalmInv, OneCall, Calling
  <2>4. Alone'  BY <1>1, <2>2 DEF Alone
  <2>5. queue # <<>> => /\ queue[1].by = "timer" /\ queue[1].tr = "DEACTIVATE"
                        /\ fsm.state = "ACTIVE"
    <3> SUFFICES ASSUME queue # <<>>
                 PROVE  queue[1].by = "timer" /\ queue[1].tr = "DEACTIVATE" /\ fsm.state = "ACTIVE"
      OBVIOUS
    <3>1. queue[1].by # "nobody"
      BY <1>1, <2>1, <2>2 DEF CalmInv, OneCall
    <3>2. queue[1].by \in Tasks
      <4>1. queue[1] \in CallRecord  BY DEF IInv, Typed
      <4> QED  BY <3>1, <4>1 DEF CallRecord
    <3>3. reply[queue[1].by] = "waiting" /\ task[queue[1].by].pc \in Calling
          /\ queue[1].tr = Asked[task[queue[1].by].pc]
      BY <2>1, <3>1, <3>2 DEF CalmInv, OneCall
    <3>4. queue[1].by = "timer"
      BY <1>1, <2>2, <3>2, <3>3, TaskNames DEF IInv, Shapes, Calling
    <3> QED  BY <2>1, <3>3, <3>4 DEF IInv, Shapes, CalmInv, TimerRuns, Calling, Asked
  <2>6. OneCall'
    <3>1. Len(queue') <= 1  BY <1>2, <2>1 DEF CalmInv, OneCall
    <3>2. \A t \in Tasks : task'[t].pc \notin Calling
      BY <1>1, <2>2, TaskNames DEF Calling
    <3>3. queue' # <<>> => /\ queue'[1].by = "nobody" /\ queue'[1].tr = "DEACTIVATE"
                           /\ fsm'.state = "ACTIVE"
      <4> SUFFICES ASSUME queue' # <<>>
                   PROVE  /\ queue'[1].by = "nobody" /\ queue'[1].tr = "DEACTIVATE"
                          /\ fsm'.state = "ACTIVE"
        OBVIOUS
      <4>1. queue \in Seq(CallRecord) /\ Len(queue') # 0  BY <1>2 DEF IInv, Typed
      <4>2. queue # <<>> /\ 1 \in 1..Len(queue)  BY <1>2, <4>1
      <4> QED  BY <1>2, <1>5, <2>5, <4>2
    <3>4. task'[r].pc \in {"reset", "reset_primary"}  BY <1>1
    <3> QED  BY <2>3, <3>1, <3>2, <3>3, <3>4 DEF OneCall
  <2>7. TimerRuns' /\ Expects'  BY <1>1, <2>2 DEF TimerRuns, Expects
  <2>8. ~Settled'  BY <1>1 DEF Settled, Resets
  <2>9. Seen' /\ Followed' /\ Provided' /\ Recorded'
    BY <1>1, <2>2, <2>8 DEF Seen, Followed, Provided, Recorded
  <2>10. Chained'  BY <1>5, <2>1 DEF CalmInv, Chained
  <2> QED  BY <2>4, <2>6, <2>7, <2>9, <2>10 DEF CalmInv
<1> QED  BY <1>6, <1>7, <1>8 DEF IInv

(* What a reset sends takes a node from where it is to unconfigured.          *)
LEMMA ResetScriptEnds ==
    ASSUME NEW state \in States
    PROVE  /\ ResetScript(state) \in Seq(Trs) /\ Chain(ResetScript(state), state)
           /\ End(ResetScript(state), state) = "UNCONFIGURED"
<1> USE DEF Trs, Legal, Reached
<1>1. CASE state = "ACTIVE"
  <2> DEFINE q == <<"DEACTIVATE", "CLEANUP">>
  <2>1. ResetScript(state) = q  BY <1>1 DEF ResetScript
  <2>2. q \in Seq(Trs) /\ Len(q) = 2 /\ q # <<>> /\ q[1] = "DEACTIVATE" /\ q[2] = "CLEANUP"
    OBVIOUS
  <2> HIDE DEF q
  <2>3. Chain(q, state)  BY <1>1, <2>2 DEF Chain, Fits
  <2>4. End(q, state) = "UNCONFIGURED"  BY <2>2 DEF End
  <2> QED  BY <2>1, <2>2, <2>3, <2>4
<1>2. CASE state = "INACTIVE"
  <2> DEFINE q == <<"CLEANUP">>
  <2>1. ResetScript(state) = q  BY <1>2 DEF ResetScript
  <2>2. q \in Seq(Trs) /\ Len(q) = 1 /\ q # <<>> /\ q[1] = "CLEANUP"  OBVIOUS
  <2> HIDE DEF q
  <2>3. Chain(q, state)  BY <1>2, <2>2 DEF Chain, Fits
  <2>4. End(q, state) = "UNCONFIGURED"  BY <2>2 DEF End
  <2> QED  BY <2>1, <2>2, <2>3, <2>4
<1>3. CASE state = "UNCONFIGURED"
  <2> DEFINE q == <<>>
  <2>1. ResetScript(state) = q  BY <1>3 DEF ResetScript
  <2>2. q \in Seq(Trs) /\ Len(q) = 0 /\ q = <<>>  OBVIOUS
  <2> HIDE DEF q
  <2>3. Chain(q, state)  BY <2>2 DEF Chain
  <2>4. End(q, state) = "UNCONFIGURED"  BY <1>3, <2>2 DEF End
  <2> QED  BY <2>1, <2>2, <2>3, <2>4
<1> QED  BY <1>1, <1>2, <1>3 DEF States

(* The nodes are sent what takes them to unconfigured.                        *)
LEMMA ResetNodesInv ==
    ASSUME IInv, NEW r \in Requests, NEW reached \in SUBSET Nodes, ResetNodes(r, reached)
    PROVE  IInv'
<1> USE DEF bridge, primary
<1>1. /\ task' \in [Tasks -> TaskRecord] /\ task[r].pc = "reset" /\ task'[r].pc = "reset_primary"
      /\ task'[r].op = task[r].op /\ task'[r].arg = task[r].arg
      /\ \A t \in Tasks : t # r => task'[t] = task[t]
  BY TaskNames, GotoLeaves DEF IInv, Typed, ResetNodes, Resets
<1>2. /\ sent' \in [Nodes -> Seq(Trs)]
      /\ \A n \in reached : sent'[n] = ResetScript(node[n].ros) /\ sent[n] = <<>>
  BY ResetScriptEnds DEF IInv, Typed, ResetNodes
<1>3. faults' \in 0..MaxFaults /\ faults' = Spent(reached, faults) /\ faults \in Nat
  BY BridgeAssumption DEF IInv, Typed, ResetNodes, Spent, Reach
<1>4. UNCHANGED <<bridge, primary, param, node, run, ops, autoStopped, overlapped>>
  BY DEF ResetNodes
<1>5. Typed'  BY <1>1, <1>2, <1>3, <1>4 DEF IInv, Typed
<1>6. Shapes'  BY <1>1, TaskNames DEF IInv, Shapes, Resets
<1>7. ASSUME Calm' PROVE CalmInv'
  <2>1. reached = Nodes /\ faults = 0  BY <1>3, <1>7, AllReached DEF Calm
  <2>2. CalmInv  BY <1>4, <1>7, <2>1 DEF IInv, Calm
  <2>3. \A q \in Requests : q # r => task[q].pc = "idle" /\ task'[q].pc = "idle"
    BY <1>1, <2>2, TaskNames DEF CalmInv, Alone
  <2>4. Alone'  BY <1>1, <2>2, <2>3, TaskNames DEF CalmInv, Alone, Resets
  <2>5. OneCall'
    <3>1. \A t \in Tasks : task'[t].pc \in Calling <=> task[t].pc \in Calling
      BY <1>1 DEF Calling
    <3>2. \A t \in Tasks : task[t].pc \in Calling => task'[t] = task[t]
      BY <1>1 DEF Calling
    <3>3. task'[r].pc \in {"reset", "reset_primary"}  BY <1>1
    <3>4. queue # <<>> /\ queue[1].by # "nobody" => task[queue[1].by].pc \in Calling
                                                    /\ queue[1].by \in Tasks
      <4>1. queue # <<>> => queue[1] \in CallRecord  BY DEF IInv, Typed
      <4> QED  BY <2>2, <4>1 DEF CalmInv, OneCall, CallRecord
    <3> QED  BY <1>4, <2>2, <3>1, <3>2, <3>3, <3>4 DEF CalmInv, OneCall
  <2>6. TimerRuns'
    BY <1>1, <1>4, <2>2, <2>3, TaskNames DEF CalmInv, TimerRuns, Alone, Resets
  <2>7. Expects'  BY <1>1, <2>3 DEF Expects
  <2>8. ~Settled'  BY <1>1 DEF Settled, Resets
  <2>9. \A n \in Nodes : node[n].ros \in States  BY DEF IInv, Typed
  <2>10. Chained' /\ \A n \in Nodes : EndsAt(n)' = "UNCONFIGURED"
    <3>1. ASSUME NEW n \in Nodes
          PROVE  /\ sent'[n] = ResetScript(node[n].ros) /\ node[n].ros \in States
                 /\ node'[n] = node[n]
      BY <1>2, <1>4, <2>1, <2>9
    <3> QED  BY <3>1, ResetScriptEnds DEF Chained, EndsAt
  <2>11. Seen' /\ Followed' /\ Provided' /\ Recorded'
    BY <1>1, <2>3, <2>8, <2>10 DEF Seen, Followed, Provided, Recorded
  <2> QED  BY <2>4, <2>5, <2>6, <2>7, <2>10, <2>11 DEF CalmInv
<1> QED  BY <1>5, <1>6, <1>7 DEF IInv

(* In a request's reset the timers are idle, and a call on its way is nobody's *)
(* or the request's own.                                                      *)
LEMMA ResetAlone ==
    ASSUME IInv, CalmInv, NEW r \in Requests, task[r].pc \in Resets
    PROVE  /\ \A q \in Requests : q # r => task[q].pc = "idle"
           /\ task["timer"].pc = "idle" /\ task["backup"].pc = "idle"
           /\ \A t \in Tasks : t # r => reply[t] = "none"
           /\ queue # <<>> /\ fsm.state # "ACTIVE" => queue[1].by = r /\ reply[r] = "waiting"
<1>1. \A q \in Requests : q # r => task[q].pc = "idle"  BY DEF CalmInv, Alone, Resets
<1>2. task["timer"].pc = "idle" /\ task["backup"].pc = "idle"
  BY DEF IInv, Shapes, CalmInv, Alone
<1>3. \A t \in Tasks : t # r => reply[t] = "none"
  BY <1>1, <1>2, TaskNames DEF CalmInv, OneCall, Calling
<1>4. ASSUME queue # <<>>, fsm.state # "ACTIVE"
      PROVE  queue[1].by = r /\ reply[r] = "waiting"
  <2>1. queue[1] \in CallRecord  BY <1>4 DEF IInv, Typed
  <2>2. queue[1].by \in Tasks  BY <1>4, <2>1 DEF CalmInv, OneCall, CallRecord
  <2> QED  BY <1>3, <1>4, <2>2 DEF CalmInv, OneCall
<1> QED  BY <1>1, <1>2, <1>3, <1>4

(* The end of a reset: with everything unconfigured a configure goes on to    *)
(* inject, and a cleanup is done.                                             *)
LEMMA ResetDoneInv ==
    ASSUME IInv, NEW r \in Requests, task[r].pc \in {"reset_primary", "reset_clean"},
           ResetDone(r), mirror' = "UNCONFIGURED",
           reply' \in [Tasks -> {"none", "waiting", "ok", "rejected"}],
           \A t \in Tasks : t # r => reply'[t] = reply[t],
           faults' \in 0..MaxFaults, faults' = 0 => faults = 0,
           UNCHANGED <<scenario, duration, fsm, queue, nodes, run, ops, autoStopped, overlapped>>,
           Calm' => /\ fsm.state = "UNCONFIGURED" /\ reply[r] # "waiting" /\ reply'[r] = "none"
                    /\ \A n \in Nodes : sent[n] = <<>> /\ node[n].ros = "UNCONFIGURED"
    PROVE  IInv'
<1> USE DEF nodes
<1>1. r \in Tasks /\ r # "timer" /\ r # "backup"  BY TaskNames
<1>2. /\ task' \in [Tasks -> TaskRecord] /\ \A t \in Tasks : t # r => task'[t] = task[t]
      /\ \/ task'[r].pc = "idle" /\ task'[r].op = "none"
         \/ /\ task[r].op = "configure" /\ task'[r].pc = "inject"
            /\ task'[r].op = task[r].op /\ task'[r].arg = task[r].arg
  <2>1. task \in [Tasks -> TaskRecord]  BY DEF IInv, Typed
  <2>2. CASE task[r].op = "configure"
    BY <1>1, <2>1, <2>2, GotoLeaves DEF ResetDone, Resets
  <2>3. CASE task[r].op # "configure"
    BY <1>1, <2>1, <2>3, FinishLeaves DEF ResetDone
  <2> QED  BY <2>2, <2>3
<1>3. Typed'  BY <1>2 DEF IInv, Typed, States
<1>4. Shapes'  BY <1>1, <1>2, TaskNames DEF IInv, Shapes, Resets
<1>5. ASSUME Calm' PROVE CalmInv'
  <2>1. CalmInv  BY <1>5 DEF IInv, Calm
  <2>2. /\ \A q \in Requests : q # r => task[q].pc = "idle" /\ task'[q].pc = "idle"
        /\ task'["timer"].pc = "idle" /\ task'["backup"].pc = "idle"
        /\ \A t \in Tasks : reply'[t] = "none"
        /\ queue = <<>>
    <3>1. task[r].pc \in Resets  BY DEF Resets
    <3> QED  BY <1>1, <1>2, <1>5, <2>1, <3>1, ResetAlone, TaskNames
  <2>3. \A t \in Tasks : task'[t].pc \notin Calling
    BY <1>2, <2>2, TaskNames DEF Calling
  <2>4. Alone' /\ OneCall' /\ TimerRuns'
    BY <1>2, <2>2, <2>3 DEF Alone, OneCall, TimerRuns
  <2>5. Expects' /\ Seen'  BY <1>2, <1>5, <2>2 DEF Expects, Seen
  <2>6. Chained' /\ \A n \in Nodes : EndsAt(n)' = "UNCONFIGURED"
    BY <1>5, <2>1 DEF CalmInv, Chained, EndsAt, End
  <2>7. Followed' /\ Provided' /\ Recorded'
    BY <1>2, <1>5, <2>2, <2>6 DEF Followed, Provided, Recorded
  <2> QED  BY <2>4, <2>5, <2>6, <2>7 DEF CalmInv
<1> QED  BY <1>3, <1>4, <1>5 DEF IInv

(* A reset that asks the primary for another transition has the primary where *)
(* it must be, and the nodes are unconfigured.                                *)
LEMMA ResetCallInv ==
    ASSUME IInv, NEW r \in Requests, NEW pc \in {"reset_stop", "reset_clean"},
           task[r].pc \in {"reset_primary", "reset_stop"},
           Call(r, Asked[pc], NoScenario), Goto(r, pc), mirror' \in States,
           UNCHANGED <<scenario, duration, fsm, nodes, run, ops, faults, autoStopped>>,
           Calm' => /\ fsm.state = Legal[Asked[pc]]
                    /\ \A n \in Nodes : sent[n] = <<>> /\ node[n].ros = "UNCONFIGURED"
    PROVE  IInv'
<1> USE DEF nodes
<1>1. r \in Tasks /\ r # "timer" /\ r # "backup" /\ r # "nobody"  BY TaskNames
<1>2. /\ task' \in [Tasks -> TaskRecord] /\ \A t \in Tasks : t # r => task'[t] = task[t]
      /\ task'[r].pc = pc /\ task'[r].op = task[r].op /\ task'[r].arg = task[r].arg
  BY <1>1, GotoLeaves DEF IInv, Typed, Resets
<1>3. /\ queue' \in Seq(CallRecord) /\ overlapped' \in BOOLEAN
      /\ reply' \in [Tasks -> {"none", "waiting", "ok", "rejected"}]
      /\ reply'[r] = "waiting" /\ \A u \in Tasks \ {r} : reply'[u] = reply[u]
      /\ overlapped => overlapped'
      /\ ~overlapped' => /\ queue = <<>> /\ queue' # <<>> /\ Len(queue') = 1
                         /\ queue'[1] = [by |-> r, tr |-> Asked[pc], arg |-> NoScenario]
                         /\ \A u \in Tasks \ {r} : reply[u] = "none"
                         /\ \A u \in Requests \ {r} : task[u].pc = "idle"
  <2>1. Asked[pc] \in Trs /\ NoScenario \in Ids  BY DEF Asked, Trs, Ids
  <2>2. /\ queue \in Seq(CallRecord) /\ overlapped \in BOOLEAN
        /\ reply \in [Tasks -> {"none", "waiting", "ok", "rejected"}]
    BY DEF IInv, Typed
  <2> QED  BY ONLY <1>1, <2>1, <2>2, CallLeaves, Call(r, Asked[pc], NoScenario)
<1>4. Typed'  BY <1>2, <1>3 DEF IInv, Typed
<1>5. Shapes'  BY <1>1, <1>2, TaskNames DEF IInv, Shapes, Resets
<1>6. ASSUME Calm' PROVE CalmInv'
  <2>1. CalmInv  BY <1>3, <1>6 DEF IInv, Calm
  <2>2. /\ \A q \in Requests : q # r => task[q].pc = "idle" /\ task'[q].pc = "idle"
        /\ task'["timer"].pc = "idle" /\ task'["backup"].pc = "idle"
        /\ \A t \in Tasks : t # r => reply'[t] = "none"
    <3>1. task[r].pc \in Resets  BY DEF Resets
    <3> QED  BY <1>1, <1>2, <1>3, <2>1, <3>1, ResetAlone, TaskNames
  <2>3. /\ queue' # <<>> /\ Len(queue') = 1
        /\ queue'[1].by = r /\ queue'[1].tr = Asked[pc] /\ Asked[pc] # "CONFIGURE"
    BY <1>3, <1>6 DEF Calm, Asked
  <2>4. \A t \in Tasks : task'[t].pc \in Calling <=> t = r
    BY <1>2, <2>2, TaskNames DEF Calling
  <2>5. Alone' /\ TimerRuns'  BY <1>2, <2>2 DEF Alone, TimerRuns
  <2>6. OneCall'  BY <1>1, <1>2, <1>3, <2>2, <2>3, <2>4 DEF OneCall
  <2>7. Expects'  BY <1>2, <1>3, <1>6, <2>2 DEF Expects, Asked, Legal
  <2>8. ~Settled'  BY <1>2 DEF Settled, Resets
  <2>9. Chained'  BY <2>1 DEF CalmInv, Chained
  <2>10. Seen' /\ Followed' /\ Provided' /\ Recorded'
    BY <1>2, <1>6, <2>2, <2>8 DEF Seen, Followed, Provided, Recorded
  <2> QED  BY <2>5, <2>6, <2>7, <2>9, <2>10 DEF CalmInv
<1> QED  BY <1>4, <1>5, <1>6 DEF IInv

(* The primary is asked for its state, and taken from there to unconfigured.  *)
LEMMA ResetPrimaryInv ==
    ASSUME IInv, NEW r \in Requests, ResetPrimary(r) PROVE IInv'
<1> USE DEF nodes
<1>1. /\ task[r].pc = "reset_primary" /\ \A n \in Nodes : sent[n] = <<>>
      /\ UNCHANGED <<scenario, duration, fsm, nodes, run, ops, autoStopped>>
  BY DEF ResetPrimary
<1>2. ASSUME Calm PROVE \A n \in Nodes : node[n].ros = "UNCONFIGURED"
  BY <1>1, <1>2 DEF IInv, CalmInv, Followed, EndsAt, End
<1>3. CASE /\ fsm.state = "UNCONFIGURED" \/ faults < MaxFaults
           /\ faults' = IF fsm.state = "UNCONFIGURED" THEN faults ELSE faults + 1
           /\ mirror' = "UNCONFIGURED" /\ ResetDone(r) /\ UNCHANGED <<queue, reply, overlapped>>
  <2>1. r \in Tasks /\ reply \in [Tasks -> {"none", "waiting", "ok", "rejected"}]
    BY TaskNames DEF IInv, Typed
  <2>2. faults' \in 0..MaxFaults /\ (faults' = 0 => faults = 0 /\ fsm.state = "UNCONFIGURED")
    BY <1>3, BridgeAssumption DEF IInv, Typed
  <2>3. Calm' => Calm  BY <1>3, <2>2 DEF Calm
  <2>4. Calm' => reply[r] = "none"
    BY <1>1, <2>1, <2>3 DEF IInv, CalmInv, OneCall, Calling
  <2> QED  BY <1>1, <1>2, <1>3, <2>1, <2>2, <2>3, <2>4, ResetDoneInv DEF Calm
<1>4. CASE /\ fsm.state = "ACTIVE"
           /\ Call(r, "DEACTIVATE", NoScenario) /\ Goto(r, "reset_stop")
           /\ UNCHANGED <<mirror, faults>>
  <2>1. Asked["reset_stop"] = "DEACTIVATE" /\ Legal["DEACTIVATE"] = "ACTIVE" /\ mirror' \in States
    BY <1>4 DEF IInv, Typed, Asked, Legal
  <2>2. Calm' => Calm  BY <1>4 DEF Calm, Call
  <2> QED  BY <1>1, <1>2, <1>4, <2>1, <2>2, ResetCallInv
<1>5. CASE /\ fsm.state = "INACTIVE"
           /\ Call(r, "CLEANUP", NoScenario) /\ Goto(r, "reset_clean")
           /\ UNCHANGED <<mirror, faults>>
  <2>1. Asked["reset_clean"] = "CLEANUP" /\ Legal["CLEANUP"] = "INACTIVE" /\ mirror' \in States
    BY <1>5 DEF IInv, Typed, Asked, Legal
  <2>2. Calm' => Calm  BY <1>5 DEF Calm, Call
  <2> QED  BY <1>1, <1>2, <1>5, <2>1, <2>2, ResetCallInv
<1> QED  BY <1>3, <1>4, <1>5 DEF ResetPrimary

(* Stopped, the primary is cleaned up.                                        *)
LEMMA ResetStoppedInv ==
    ASSUME IInv, NEW r \in Requests, ResetStopped(r) PROVE IInv'
<1> USE DEF nodes
<1>1. /\ task[r].pc = "reset_stop" /\ reply[r] = "ok" /\ mirror' \in States
      /\ Call(r, "CLEANUP", NoScenario) /\ Goto(r, "reset_clean")
      /\ UNCHANGED <<scenario, duration, fsm, nodes, run, ops, faults, autoStopped>>
  BY DEF ResetStopped, States
<1>2. ASSUME Calm'
      PROVE  /\ fsm.state = "INACTIVE"
             /\ \A n \in Nodes : sent[n] = <<>> /\ node[n].ros = "UNCONFIGURED"
  <2>1. Calm  BY <1>1, <1>2 DEF Calm, Call
  <2> QED  BY <1>1, <2>1 DEF IInv, CalmInv, Followed, Expects
<1>3. Asked["reset_clean"] = "CLEANUP" /\ Legal["CLEANUP"] = "INACTIVE"  BY DEF Asked, Legal
<1> QED  BY <1>1, <1>2, <1>3, ResetCallInv

(* Cleaned up, the reset is done.                                             *)
LEMMA ResetCleanedInv ==
    ASSUME IInv, NEW r \in Requests, ResetCleaned(r) PROVE IInv'
<1> USE DEF nodes
<1>1. /\ task[r].pc = "reset_clean" /\ reply[r] = "ok" /\ mirror' = "UNCONFIGURED"
      /\ ResetDone(r) /\ reply' = [reply EXCEPT ![r] = "none"]
      /\ UNCHANGED <<scenario, duration, fsm, queue, nodes, run, ops, faults, autoStopped,
                     overlapped>>
  BY DEF ResetCleaned, Succeeded
<1>2. /\ reply' \in [Tasks -> {"none", "waiting", "ok", "rejected"}] /\ reply'[r] = "none"
      /\ \A t \in Tasks : t # r => reply'[t] = reply[t]
      /\ faults' \in 0..MaxFaults
  BY <1>1, TaskNames DEF IInv, Typed
<1>3. ASSUME Calm'
      PROVE  /\ fsm.state = "UNCONFIGURED"
             /\ \A n \in Nodes : sent[n] = <<>> /\ node[n].ros = "UNCONFIGURED"
  <2>1. Calm  BY <1>1, <1>3 DEF Calm
  <2> QED  BY <1>1, <2>1 DEF IInv, CalmInv, Followed, Expects
<1> QED  BY <1>1, <1>2, <1>3, ResetDoneInv

(* A configure whose injection fails ends with everything unconfigured; one    *)
(* that goes on has given every node the parameters of its scenario.          *)
LEMMA InjectInv ==
    ASSUME IInv, NEW r \in Requests, NEW reached \in SUBSET Nodes, Inject(r, reached)
    PROVE  IInv'
<1> USE DEF bridge
<1>1. r \in Tasks /\ r # "timer" /\ r # "backup" /\ r # "nobody"  BY TaskNames
<1>2. /\ task[r].pc = "inject" /\ task[r].arg \in Scenarios /\ task[r].arg \in Ids
      /\ task[r].op = "configure"
  BY DEF IInv, Shapes, Inject, Ids
<1>3. /\ param' \in [Nodes -> Ids]
      /\ Provides(task[r].arg) \subseteq reached =>
            \A n \in Provides(task[r].arg) : param'[n] = task[r].arg
  BY <1>2 DEF IInv, Typed, Inject, Provides
<1>5. UNCHANGED <<bridge, fsm, node, sent, run, ops, faults, autoStopped>>  BY DEF Inject
<1>6. CASE Finish(r) /\ UNCHANGED <<queue, reply, overlapped>>
  <2>1. Finish(r) /\ UNCHANGED <<queue, reply, overlapped>>  BY <1>6
  <2>2. /\ task' \in [Tasks -> TaskRecord] /\ \A t \in Tasks : t # r => task'[t] = task[t]
        /\ task'[r].pc = "idle" /\ task'[r].op = "none"
    BY <1>1, <2>1, FinishLeaves DEF IInv, Typed
  <2>3. Typed'  BY <1>3, <1>5, <2>1, <2>2 DEF IInv, Typed
  <2>4. Shapes'  BY <1>1, <2>2, TaskNames DEF IInv, Shapes, Resets
  <2>5. ASSUME Calm' PROVE CalmInv'
    <3>1. CalmInv  BY <1>5, <2>1, <2>5 DEF IInv, Calm
    <3>2. /\ \A q \in Requests : task'[q].pc = "idle" /\ (q # r => task[q].pc = "idle")
          /\ task'["timer"].pc = "idle" /\ task'["backup"].pc = "idle"
          /\ \A t \in Tasks : t # r => reply[t] = "none"
          /\ queue # <<>> /\ fsm.state # "ACTIVE" => queue[1].by = r /\ reply[r] = "waiting"
      <4>1. task[r].pc \in Resets  BY <1>2 DEF Resets
      <4> QED  BY <1>1, <2>2, <3>1, <4>1, ResetAlone, TaskNames
    <3>3. fsm.state = "UNCONFIGURED" /\ mirror = "UNCONFIGURED"
      BY <1>2, <3>1 DEF CalmInv, Expects
    <3>4. \A t \in Tasks : reply[t] = "none"
      BY <1>1, <1>2, <3>1, <3>2 DEF CalmInv, OneCall, Calling
    <3>5. queue = <<>>  BY <1>1, <3>2, <3>3, <3>4
    <3>6. \A t \in Tasks : task'[t].pc \notin Calling
      BY <3>2, TaskNames DEF Calling
    <3>7. Alone' /\ OneCall' /\ TimerRuns'
      BY <2>1, <3>2, <3>4, <3>5, <3>6 DEF Alone, OneCall, TimerRuns
    <3>8. Expects' /\ Seen'  BY <1>5, <3>2, <3>3 DEF Expects, Seen
    <3>9. \A n \in Nodes : sent[n] = <<>> /\ node[n].ros = "UNCONFIGURED"
      BY <1>2, <3>1 DEF CalmInv, Followed
    <3>10. Chained' /\ \A n \in Nodes : EndsAt(n)' = "UNCONFIGURED"
      BY <1>5, <3>1, <3>9 DEF CalmInv, Chained, EndsAt, End
    <3>11. Followed' /\ Provided' /\ Recorded'
      BY <1>5, <3>2, <3>3, <3>10 DEF Followed, Provided, Recorded
    <3> QED  BY <3>7, <3>8, <3>10, <3>11 DEF CalmInv
  <2> QED  BY <2>3, <2>4, <2>5 DEF IInv
<1>7. CASE /\ Provides(task[r].arg) \subseteq reached
           /\ Call(r, "CONFIGURE", task[r].arg) /\ Goto(r, "configure")
  <2>1. Call(r, "CONFIGURE", task[r].arg) /\ Goto(r, "configure")  BY <1>7
  <2>2. /\ task' \in [Tasks -> TaskRecord] /\ \A t \in Tasks : t # r => task'[t] = task[t]
        /\ task'[r].pc = "configure" /\ task'[r].op = task[r].op /\ task'[r].arg = task[r].arg
    BY <1>1, <2>1, GotoLeaves DEF IInv, Typed, Resets
  <2>3. /\ queue' \in Seq(CallRecord) /\ overlapped' \in BOOLEAN
        /\ reply' \in [Tasks -> {"none", "waiting", "ok", "rejected"}]
        /\ reply'[r] = "waiting" /\ \A u \in Tasks \ {r} : reply'[u] = reply[u]
        /\ overlapped => overlapped'
        /\ ~overlapped' => /\ queue = <<>> /\ queue' # <<>> /\ Len(queue') = 1
                           /\ queue'[1] = [by |-> r, tr |-> "CONFIGURE", arg |-> task[r].arg]
                           /\ \A u \in Tasks \ {r} : reply[u] = "none"
                           /\ \A u \in Requests \ {r} : task[u].pc = "idle"
    <3>1. "CONFIGURE" \in Trs  BY DEF Trs
    <3>2. /\ queue \in Seq(CallRecord) /\ overlapped \in BOOLEAN
          /\ reply \in [Tasks -> {"none", "waiting", "ok", "rejected"}]
      BY DEF IInv, Typed
    <3> QED  BY ONLY <1>1, <1>2, <2>1, <3>1, <3>2, CallLeaves
  <2>4. Typed'  BY <1>3, <1>5, <2>2, <2>3 DEF IInv, Typed
  <2>5. Shapes'  BY <1>1, <1>2, <2>2, TaskNames DEF IInv, Shapes, Resets
  <2>6. ASSUME Calm' PROVE CalmInv'
    <3>1. CalmInv  BY <1>5, <2>3, <2>6 DEF IInv, Calm
    <3>2. /\ \A q \in Requests : q # r => task[q].pc = "idle" /\ task'[q].pc = "idle"
          /\ task'["timer"].pc = "idle" /\ task'["backup"].pc = "idle"
          /\ \A t \in Tasks : t # r => reply'[t] = "none"
      <4>1. task[r].pc \in Resets  BY <1>2 DEF Resets
      <4> QED  BY <1>1, <2>2, <2>3, <3>1, <4>1, ResetAlone, TaskNames
    <3>3. /\ queue' # <<>> /\ Len(queue') = 1 /\ queue'[1].by = r
          /\ queue'[1].tr = "CONFIGURE" /\ queue'[1].arg = task'[r].arg
      BY <2>2, <2>3, <2>6 DEF Calm
    <3>4. \A t \in Tasks : task'[t].pc \in Calling <=> t = r
      BY <2>2, <3>2, TaskNames DEF Calling
    <3>5. Alone' /\ TimerRuns'  BY <2>2, <3>2 DEF Alone, TimerRuns
    <3>6. OneCall'
      BY <1>1, <2>2, <2>3, <3>2, <3>3, <3>4 DEF OneCall, Asked
    <3>7. fsm.state = "UNCONFIGURED"  BY <1>2, <3>1 DEF CalmInv, Expects
    <3>8. \A s : Provides(s)' = Provides(s)  BY DEF Provides
    <3>9. Expects'  BY <1>3, <1>5, <1>7, <2>2, <2>3, <3>2, <3>7, <3>8 DEF Expects
    <3>10. ~Settled'  BY <2>2 DEF Settled, Resets
    <3>11. Chained'  BY <1>5, <3>1 DEF CalmInv, Chained
    <3>12. Seen' /\ Followed' /\ Provided' /\ Recorded'
      BY <1>2, <1>5, <2>2, <3>1, <3>2, <3>10 DEF CalmInv, Seen, Followed, Provided, Recorded
    <3> QED  BY <3>5, <3>6, <3>9, <3>11, <3>12 DEF CalmInv
  <2> QED  BY <2>4, <2>5, <2>6 DEF IInv
<1> QED  BY <1>6, <1>7 DEF Inject

(* Sending one transition to every node after what is on its way already.     *)
LEMMA BroadcastLeaves ==
    ASSUME sent \in [Nodes -> Seq(Trs)], NEW tr \in Trs, NEW reached \in SUBSET Nodes,
           Broadcast(tr, reached)
    PROVE  /\ sent' \in [Nodes -> Seq(Trs)]
           /\ \A n \in reached :
                 /\ sent'[n] = Append(sent[n], tr) /\ sent'[n] # <<>>
                 /\ Len(sent'[n]) = Len(sent[n]) + 1 /\ sent'[n][Len(sent[n]) + 1] = tr
                 /\ \A i \in 1..Len(sent[n]) : sent'[n][i] = sent[n][i]
                 /\ sent[n] = <<>> => sent'[n][1] = tr
                 /\ sent[n] # <<>> => sent'[n][1] = sent[n][1]
<1>1. ASSUME NEW q \in Seq(Trs)
      PROVE  /\ Append(q, tr) \in Seq(Trs) /\ Append(q, tr) # <<>>
             /\ Len(Append(q, tr)) = Len(q) + 1 /\ Append(q, tr)[Len(q) + 1] = tr
             /\ \A i \in 1..Len(q) : Append(q, tr)[i] = q[i]
             /\ q = <<>> => Append(q, tr)[1] = tr
             /\ q # <<>> => Append(q, tr)[1] = q[1]
  OBVIOUS
<1> QED  BY <1>1 DEF Broadcast

(* A transition that fits where a chain ends makes the chain one longer.      *)
LEMMA ChainGrows ==
    ASSUME NEW q \in Seq(Trs), NEW state, NEW tr \in Trs, Chain(q, state), Fits(tr, End(q, state)),
           tr # "CONFIGURE" \/ q = <<>>
    PROVE  Chain(Append(q, tr), state) /\ End(Append(q, tr), state) = Reached[tr]
<1> DEFINE p == Append(q, tr)
<1>1. /\ p # <<>> /\ Len(p) = Len(q) + 1 /\ Len(q) \in Nat /\ p[Len(p)] = tr
      /\ \A i \in 1..Len(q) : p[i] = q[i]
  OBVIOUS
<1> HIDE DEF p
<1>2. End(p, state) = Reached[tr]  BY <1>1 DEF End
<1>3. CASE q = <<>>
  <2>1. Len(q) = 0  BY <1>3
  <2> QED  BY <1>1, <1>2, <1>3, <2>1 DEF Chain, End, p
<1>4. CASE q # <<>>
  <2>1. Len(q) >= 1 /\ p[1] = q[1]  BY <1>1, <1>4
  <2>2. Fits(p[1], state)  BY <1>4, <2>1 DEF Chain
  <2>3. ASSUME NEW i \in 1..(Len(p) - 1)
        PROVE  Fits(p[i + 1], Reached[p[i]]) /\ p[i + 1] # "CONFIGURE"
    <3>1. CASE i = Len(q)
      <4>1. p[i + 1] = tr /\ p[i] = q[Len(q)]  BY <1>1, <2>1, <3>1
      <4> QED  BY <1>4, <4>1 DEF End
    <3>2. CASE i # Len(q)
      <4>1. i \in 1..(Len(q) - 1) /\ i + 1 \in 1..Len(q) /\ i \in 1..Len(q)  BY <1>1, <3>2
      <4>2. p[i + 1] = q[i + 1] /\ p[i] = q[i]  BY <1>1, <4>1
      <4> QED  BY <4>1, <4>2 DEF Chain
    <3> QED  BY <3>1, <3>2
  <2> QED  BY <1>2, <2>2, <2>3 DEF Chain, p
<1> QED  BY <1>3, <1>4

(* The primary has configured: the bridge takes note and tells the nodes.     *)
LEMMA ConfiguredInv ==
    ASSUME IInv, NEW r \in Requests, NEW reached \in SUBSET Nodes, Configured(r, reached)
    PROVE  IInv'
<1>1. r \in Tasks /\ r # "timer" /\ r # "backup"  BY TaskNames
<1>2. /\ task[r].pc = "configure" /\ reply[r] = "ok" /\ task[r].arg \in Scenarios
      /\ task[r].arg \in Ids /\ scenario' = task[r].arg /\ mirror' = "INACTIVE"
  BY DEF IInv, Shapes, Configured, Ids
<1>3. /\ task' \in [Tasks -> TaskRecord] /\ \A t \in Tasks : t # r => task'[t] = task[t]
      /\ task'[r].pc = "idle" /\ task'[r].op = "none"
  BY <1>1, FinishLeaves DEF IInv, Typed, Configured
<1>4. /\ reply' \in [Tasks -> {"none", "waiting", "ok", "rejected"}] /\ reply'[r] = "none"
      /\ \A t \in Tasks : t # r => reply'[t] = reply[t]
  BY <1>1 DEF IInv, Typed, Configured
<1>5. faults' \in 0..MaxFaults /\ faults' = Spent(reached, faults) /\ faults \in Nat
  BY BridgeAssumption DEF IInv, Typed, Configured, Spent, Reach
<1>6. UNCHANGED <<duration, fsm, queue, param, node, run, ops, autoStopped, overlapped>>
  BY DEF Configured
<1>7. /\ sent' \in [Nodes -> Seq(Trs)]
      /\ \A n \in reached : sent'[n] = Append(sent[n], "CONFIGURE") /\ sent'[n] # <<>>
                            /\ (sent[n] = <<>> => sent'[n][1] = "CONFIGURE")
  BY BroadcastLeaves DEF IInv, Typed, Configured, Trs
<1>8. Typed'  BY <1>2, <1>3, <1>4, <1>5, <1>6, <1>7 DEF IInv, Typed, States
<1>9. Shapes'  BY <1>1, <1>3, TaskNames DEF IInv, Shapes, Resets
<1>10. ASSUME Calm' PROVE CalmInv'
  <2>1. reached = Nodes /\ CalmInv  BY <1>5, <1>6, <1>10, AllReached DEF IInv, Calm
  <2>2. /\ fsm.state = "INACTIVE" /\ fsm.scenario = task[r].arg
        /\ \A n \in Provides(task[r].arg) : param[n] = task[r].arg
        /\ \A n \in Nodes : sent[n] = <<>> /\ node[n].ros = "UNCONFIGURED"
    BY <1>2, <2>1 DEF CalmInv, Expects, Followed
  <2>3. /\ \A q \in Requests : task'[q].pc = "idle"
        /\ task'["timer"].pc = "idle" /\ task'["backup"].pc = "idle"
        /\ \A t \in Tasks : reply'[t] = "none"
        /\ queue' = <<>>
    <3>1. task[r].pc \in Resets  BY <1>2 DEF Resets
    <3> QED  BY <1>1, <1>2, <1>3, <1>4, <1>6, <2>1, <2>2, <3>1, ResetAlone, TaskNames
  <2>4. \A t \in Tasks : task'[t].pc \notin Calling  BY <2>3, TaskNames DEF Calling
  <2>5. Alone' /\ OneCall' /\ TimerRuns'  BY <2>3, <2>4 DEF Alone, OneCall, TimerRuns, Resets
  <2>6. Expects' /\ Seen'  BY <1>2, <1>6, <2>2, <2>3 DEF Expects, Seen
  <2>7. Chained' /\ \A n \in Nodes : EndsAt(n)' = "INACTIVE"
    <3>1. "CONFIGURE" \in Trs /\ Reached["CONFIGURE"] = "INACTIVE" /\ Fits("CONFIGURE", "UNCONFIGURED")
      BY DEF Trs, Reached, Fits, Legal
    <3>2. ASSUME NEW n \in Nodes
          PROVE  /\ Chain(sent'[n], node'[n].ros)
                 /\ End(sent'[n], node'[n].ros) = "INACTIVE"
      <4>1. /\ sent[n] \in Seq(Trs) /\ sent[n] = <<>> /\ node'[n] = node[n]
            /\ node[n].ros = "UNCONFIGURED" /\ sent'[n] = Append(sent[n], "CONFIGURE")
        BY <1>6, <1>7, <2>1, <2>2 DEF IInv, Typed
      <4>2. Chain(sent[n], node[n].ros) /\ End(sent[n], node[n].ros) = "UNCONFIGURED"
        BY <2>1, <4>1 DEF CalmInv, Chained, End
      <4>3. Fits("CONFIGURE", End(sent[n], node[n].ros))  BY <3>1, <4>2
      <4>4. /\ Chain(Append(sent[n], "CONFIGURE"), node[n].ros)
            /\ End(Append(sent[n], "CONFIGURE"), node[n].ros) = Reached["CONFIGURE"]
        BY ONLY <3>1, <4>1, <4>2, <4>3, ChainGrows
      <4> QED  BY <3>1, <4>1, <4>4
    <3> QED  BY <3>2 DEF Chained, EndsAt
  <2>8. Followed'  BY <1>6, <2>2, <2>3, <2>7 DEF Followed
  <2>9. Provided' /\ Recorded'
    <3>1. \A s : Provides(s) \subseteq Nodes /\ Provides(s)' = Provides(s)  BY DEF Provides
    <3> QED  BY <1>2, <1>6, <1>7, <2>1, <2>2, <3>1 DEF Provided, Recorded
  <2> QED  BY <2>5, <2>6, <2>7, <2>8, <2>9 DEF CalmInv
<1> QED  BY <1>8, <1>9, <1>10 DEF IInv

-----------------------------------------------------------------------------
(* activate and deactivate.                                                  *)

(* A request that gets a rejection ends, and nothing has changed; one that    *)
(* gives up is a fault.                                                       *)
LEMMA RequestFailsInv ==
    ASSUME IInv, NEW r \in Requests, RequestFails(r) PROVE IInv'
<1> USE DEF bridge, nodes
<1>1. r \in Tasks /\ r # "timer" /\ r # "backup"  BY TaskNames
<1>2. /\ task' \in [Tasks -> TaskRecord] /\ \A t \in Tasks : t # r => task'[t] = task[t]
      /\ task'[r].pc = "idle" /\ task'[r].op = "none"
  BY <1>1, FinishLeaves DEF IInv, Typed, RequestFails
<1>3. /\ reply' \in [Tasks -> {"none", "waiting", "ok", "rejected"}] /\ reply'[r] = "none"
      /\ \A t \in Tasks : t # r => reply'[t] = reply[t]
  BY <1>1 DEF IInv, Typed, RequestFails, Failed
<1>4. /\ queue' \in Seq(CallRecord) /\ faults' \in 0..MaxFaults /\ faults \in Nat
      /\ \/ reply[r] = "rejected" /\ UNCHANGED <<queue, faults>>
         \/ faults' = faults + 1
  BY BridgeAssumption, DisownLeaves DEF IInv, Typed, RequestFails, Failed
<1>5. /\ task[r].pc \in Calling /\ UNCHANGED <<bridge, fsm, nodes, run, ops, autoStopped, overlapped>>
  BY DEF RequestFails, Calling
<1>6. Typed'  BY <1>2, <1>3, <1>4, <1>5 DEF IInv, Typed
<1>7. Shapes'  BY <1>1, <1>2, TaskNames DEF IInv, Shapes, Resets
<1>8. ASSUME Calm' PROVE CalmInv'
  <2>1. reply[r] = "rejected" /\ UNCHANGED <<queue, faults>>  BY <1>4, <1>8 DEF Calm
  <2>2. CalmInv  BY <1>5, <1>8, <2>1 DEF IInv, Calm
  <2>3. task[r].pc \in {"activate", "deactivate"}
    BY <1>5, <2>1, <2>2 DEF CalmInv, Expects, Calling
  <2>4. \A q \in Requests : task'[q].pc = "idle"
    BY <1>1, <1>2, <2>2, <2>3, TaskNames DEF CalmInv, Alone
  <2>5. \A t \in Tasks : reply'[t] = "none" /\ (t # r => reply[t] = "none")
    BY <1>1, <1>3, <2>1, <2>2 DEF CalmInv, OneCall
  <2>6. queue = <<>>
    <3>1. queue # <<>> => queue[1] \in CallRecord  BY DEF IInv, Typed
    <3>2. \A q \in Requests : task[q].pc \notin {"reset", "reset_primary"}
      BY <1>1, <1>2, <2>3, <2>4, TaskNames
    <3> QED  BY <2>1, <2>2, <2>5, <3>1, <3>2 DEF CalmInv, OneCall, CallRecord
  <2>7. task'["timer"].pc = task["timer"].pc /\ task["timer"].pc # "deactivate"
    BY <1>1, <1>2, <2>2, <2>5, TaskNames DEF CalmInv, OneCall, Calling
  <2>8. Alone'  BY <1>1, <1>2, <2>2, <2>4, TaskNames DEF CalmInv, Alone, Resets
  <2>9. OneCall'
    <3>1. \A t \in Tasks : task'[t].pc \notin Calling
      BY <1>1, <1>2, <2>2, <2>5 DEF CalmInv, OneCall, Calling
    <3> QED  BY <2>1, <2>5, <2>6, <3>1 DEF OneCall
  <2>10. Settled /\ Settled'
    BY <1>1, <1>2, <2>3, <2>4, TaskNames DEF Settled, Resets
  <2>11. \A t \in Tasks : reply[t] # "ok"  BY <2>1, <2>5
  <2>12. TimerRuns'
    BY <1>5, <2>2, <2>7, <2>11, TaskNames DEF CalmInv, TimerRuns
  <2>13. Expects' /\ Seen'
    BY <1>5, <2>2, <2>4, <2>10, <2>11 DEF CalmInv, Expects, Seen
  <2>14. Chained' /\ \A n \in Nodes : EndsAt(n)' = EndsAt(n)
    BY <1>5, <2>2 DEF CalmInv, Chained, EndsAt
  <2>15. Followed'
    BY <1>5, <2>2, <2>4, <2>10, <2>11, <2>14, TaskNames DEF CalmInv, Followed
  <2>16. Provided'  BY <1>5, <2>2, <2>10 DEF CalmInv, Provided
  <2>17. Recorded'
    <3>1. \A q \in Requests : task[q].pc # "schedule"  BY <1>2, <2>3, <2>4, TaskNames
    <3> QED  BY <1>5, <2>2, <2>10, <2>11, <3>1, TaskNames DEF CalmInv, Recorded
  <2> QED  BY <2>8, <2>9, <2>12, <2>13, <2>14, <2>15, <2>16, <2>17 DEF CalmInv
<1> QED  BY <1>6, <1>7, <1>8 DEF IInv

(* A request or the timer starts a call from a settled state.                 *)
LEMMA CallInv ==
    ASSUME IInv, NEW t \in Tasks, NEW pc \in {"activate", "deactivate"},
           \/ t \in Requests /\ task[t].pc = "idle"
           \/ t = "timer" /\ task[t].pc = "asleep" /\ pc = "deactivate" /\ mirror # "INACTIVE",
           Call(t, Asked[pc], NoScenario), Goto(t, pc), ops' \in 0..MaxOps,
           UNCHANGED <<bridge, fsm, nodes, run, faults, autoStopped>>
    PROVE  IInv'
<1> USE DEF bridge, nodes
<1>1. t # "nobody" /\ t # "backup" /\ (t \in Requests => t # "timer")  BY TaskNames DEF IInv, Shapes
<1>2. /\ task' \in [Tasks -> TaskRecord] /\ \A u \in Tasks : u # t => task'[u] = task[u]
      /\ task'[t].pc = pc /\ task'[t].op = task[t].op /\ task'[t].arg = task[t].arg
  BY GotoLeaves DEF IInv, Typed, Resets
<1>3. /\ queue' \in Seq(CallRecord) /\ overlapped' \in BOOLEAN
      /\ reply' \in [Tasks -> {"none", "waiting", "ok", "rejected"}]
      /\ reply'[t] = "waiting" /\ \A u \in Tasks \ {t} : reply'[u] = reply[u]
      /\ overlapped => overlapped'
      /\ ~overlapped' => /\ queue = <<>> /\ queue' # <<>> /\ Len(queue') = 1
                         /\ queue'[1] = [by |-> t, tr |-> Asked[pc], arg |-> NoScenario]
                         /\ \A u \in Tasks \ {t} : reply[u] = "none"
                         /\ \A u \in Requests \ {t} : task[u].pc = "idle"
  <2>1. Asked[pc] \in Trs /\ NoScenario \in Ids  BY DEF Asked, Trs, Ids
  <2>2. /\ queue \in Seq(CallRecord) /\ overlapped \in BOOLEAN
        /\ reply \in [Tasks -> {"none", "waiting", "ok", "rejected"}]
    BY DEF IInv, Typed
  <2> QED  BY ONLY <2>1, <2>2, CallLeaves, Call(t, Asked[pc], NoScenario), t \in Tasks
<1>4. Typed'  BY <1>2, <1>3 DEF IInv, Typed
<1>5. Shapes'  BY <1>1, <1>2, TaskNames DEF IInv, Shapes, Resets
<1>6. ASSUME Calm' PROVE CalmInv'
  <2>1. CalmInv  BY <1>3, <1>6 DEF IInv, Calm
  <2>2. \A q \in Requests : /\ task[q].pc = "idle"
                            /\ q # t => task'[q].pc = "idle"
    BY <1>2, <1>3, <1>6, TaskNames DEF Calm
  <2>3. \A u \in Tasks : /\ reply[u] = "none"
                         /\ u # t => reply'[u] = "none" /\ task'[u].pc \notin Calling
    <3>1. \A u \in Tasks : u # t => reply[u] = "none" /\ task[u].pc \notin Calling
      BY <1>3, <1>6, <2>1 DEF Calm, CalmInv, OneCall
    <3>2. reply[t] = "none"  BY <2>1, <2>2 DEF CalmInv, OneCall, Calling
    <3> QED  BY <1>2, <1>3, <3>1, <3>2
  <2>4. /\ queue' # <<>> /\ Len(queue') = 1
        /\ queue'[1].by = t /\ queue'[1].tr = Asked[pc] /\ Asked[pc] # "CONFIGURE"
    BY <1>3, <1>6 DEF Calm, Asked
  <2>5. Alone'
    BY <1>1, <1>2, <2>1, <2>2, TaskNames DEF CalmInv, Alone, Resets
  <2>6. OneCall'
    <3>1. task'[t].pc \in Calling  BY <1>2 DEF Calling
    <3> QED  BY <1>1, <1>2, <1>3, <2>3, <2>4, <3>1 DEF OneCall
  <2>7. Settled /\ Settled'
    <3>1. \A q \in Requests : task'[q].pc \in {"idle", "activate", "deactivate"}
      BY <1>2, <2>2
    <3> QED  BY <2>2, <3>1 DEF Settled, Resets
  <2>8. mirror = fsm.state  BY <2>1, <2>3, <2>7 DEF CalmInv, Seen
  <2>9. TimerRuns'
    <3>1. task["timer"].pc \in {"idle", "asleep"}
      BY <2>1, <2>3, TaskNames DEF IInv, Shapes, CalmInv, OneCall, Calling
    <3>2. task["timer"].pc = "asleep" => fsm.state = "ACTIVE"
      BY <2>1, <2>2 DEF CalmInv, TimerRuns
    <3>3. CASE t = "timer"
      BY <1>2, <1>3, <2>2, <2>8, <3>2, <3>3, TaskNames DEF TimerRuns
    <3>4. CASE t # "timer"
      BY <1>2, <3>1, <3>2, <3>4, TaskNames DEF TimerRuns
    <3> QED  BY <3>3, <3>4
  <2>10. Expects'
    BY <1>2, <1>3, <2>2, TaskNames DEF Expects
  <2>11. Seen'  BY <2>8 DEF Seen
  <2>12. Chained' /\ \A n \in Nodes : EndsAt(n)' = EndsAt(n)
    BY <2>1 DEF CalmInv, Chained, EndsAt
  <2>13. Followed'
    <3>1. \A q \in Requests : task'[q].pc \in {"idle", "activate", "deactivate"}
      BY <1>2, <2>2
    <3> QED  BY <2>1, <2>2, <2>7, <2>12, <3>1 DEF CalmInv, Followed
  <2>14. Provided' /\ Recorded'
    BY <2>1, <2>2, <2>7 DEF CalmInv, Provided, Recorded
  <2> QED  BY <2>5, <2>6, <2>9, <2>10, <2>11, <2>12, <2>13, <2>14 DEF CalmInv
<1> QED  BY <1>4, <1>5, <1>6 DEF IInv

(* An activate asks the primary.                                              *)
LEMMA StartActivateInv ==
    ASSUME IInv, NEW r \in Requests, StartActivate(r) PROVE IInv'
<1>1. r \in Tasks  BY TaskNames
<1>2. /\ task[r].pc = "idle" /\ Asked["activate"] = "ACTIVATE" /\ ops' \in 0..MaxOps
      /\ Call(r, "ACTIVATE", NoScenario) /\ Goto(r, "activate")
      /\ UNCHANGED <<bridge, fsm, nodes, run, faults, autoStopped>>
  BY BridgeAssumption DEF IInv, Typed, StartActivate, Asked
<1>3. Call(r, Asked["activate"], NoScenario) /\ "activate" \in {"activate", "deactivate"}
  BY <1>2
<1> QED  BY ONLY IInv, r \in Requests, <1>1, <1>2, <1>3, CallInv

(* The primary is active: the bridge takes note and tells the nodes.          *)
LEMMA ActivatedInv ==
    ASSUME IInv, NEW r \in Requests, NEW reached \in SUBSET Nodes, Activated(r, reached)
    PROVE  IInv'
<1>1. r \in Tasks /\ r # "timer" /\ r # "backup"  BY TaskNames
<1>2. task[r].pc = "activate" /\ reply[r] = "ok" /\ mirror' = "ACTIVE"  BY DEF Activated
<1>3. /\ task' \in [Tasks -> TaskRecord] /\ \A t \in Tasks : t # r => task'[t] = task[t]
      /\ task'[r].pc = "schedule" /\ task'[r].op = task[r].op /\ task'[r].arg = task[r].arg
  BY <1>1, GotoLeaves DEF IInv, Typed, Activated, Resets
<1>4. /\ reply' \in [Tasks -> {"none", "waiting", "ok", "rejected"}] /\ reply'[r] = "none"
      /\ \A t \in Tasks : t # r => reply'[t] = reply[t]
  BY <1>1 DEF IInv, Typed, Activated
<1>5. faults' \in 0..MaxFaults /\ faults' = Spent(reached, faults) /\ faults \in Nat
  BY BridgeAssumption DEF IInv, Typed, Activated, Spent, Reach
<1>6. UNCHANGED <<scenario, duration, fsm, queue, param, node, run, ops, autoStopped, overlapped>>
  BY DEF Activated
<1>7. /\ sent' \in [Nodes -> Seq(Trs)] /\ "ACTIVATE" \in Trs
      /\ \A n \in reached : /\ sent'[n] = Append(sent[n], "ACTIVATE") /\ sent'[n] # <<>>
                            /\ sent[n] # <<>> => sent'[n][1] = sent[n][1]
  BY BroadcastLeaves DEF IInv, Typed, Activated, Trs
<1>8. Typed'  BY <1>2, <1>3, <1>4, <1>5, <1>6, <1>7 DEF IInv, Typed, States
<1>9. Shapes'  BY <1>1, <1>3, TaskNames DEF IInv, Shapes, Resets
<1>10. ASSUME Calm' PROVE CalmInv'
  <2>1. reached = Nodes /\ CalmInv  BY <1>5, <1>6, <1>10, AllReached DEF IInv, Calm
  <2>2. fsm.state = "ACTIVE"  BY <1>2, <2>1 DEF CalmInv, Expects
  <2>3. /\ \A q \in Requests : q # r => task[q].pc = "idle" /\ task'[q].pc = "idle"
        /\ \A t \in Tasks : t # r => reply[t] = "none"
        /\ \A t \in Tasks : reply'[t] = "none"
    BY <1>1, <1>2, <1>3, <1>4, <2>1, TaskNames DEF CalmInv, Alone, OneCall
  <2>4. queue = <<>>
    <3>1. queue # <<>> => queue[1] \in CallRecord  BY DEF IInv, Typed
    <3>2. \A q \in Requests : task[q].pc \notin {"reset", "reset_primary"}
      BY <1>2, <2>3
    <3> QED  BY <1>2, <2>1, <2>3, <3>1, <3>2 DEF CalmInv, OneCall, CallRecord
  <2>5. Alone'
    BY <1>1, <1>2, <1>3, <2>1, <2>3, TaskNames DEF CalmInv, Alone, Resets
  <2>6. OneCall'
    <3>1. \A t \in Tasks : task'[t].pc \notin Calling
      BY <1>1, <1>3, <2>1, <2>3 DEF CalmInv, OneCall, Calling
    <3> QED  BY <1>6, <2>3, <2>4, <3>1 DEF OneCall
  <2>7. TimerRuns'
    BY <1>1, <1>2, <1>3, <1>6, <2>1, <2>2, TaskNames DEF CalmInv, TimerRuns
  <2>8. Expects' /\ Seen'  BY <1>2, <1>3, <1>6, <2>2, <2>3 DEF Expects, Seen
  <2>9. Settled /\ Settled'
    BY <1>2, <1>3, <2>3 DEF Settled, Resets
  <2>10. \A n \in Nodes : EndsAt(n) \in {"INACTIVE", "ACTIVE"}
    BY <2>1, <2>2, <2>9 DEF CalmInv, Followed
  <2>11. Chained' /\ \A n \in Nodes : EndsAt(n)' = "ACTIVE"
    <3>1. /\ "ACTIVATE" # "CONFIGURE" /\ Reached["ACTIVATE"] = "ACTIVE"
          /\ Fits("ACTIVATE", "INACTIVE") /\ Fits("ACTIVATE", "ACTIVE")
      BY DEF Reached, Fits, Legal
    <3>2. ASSUME NEW n \in Nodes
          PROVE  /\ Chain(sent'[n], node'[n].ros)
                 /\ End(sent'[n], node'[n].ros) = "ACTIVE"
      <4>1. /\ sent[n] \in Seq(Trs) /\ node'[n] = node[n]
            /\ sent'[n] = Append(sent[n], "ACTIVATE")
        BY <1>6, <1>7, <2>1 DEF IInv, Typed
      <4>2. Chain(sent[n], node[n].ros) /\ End(sent[n], node[n].ros) \in {"INACTIVE", "ACTIVE"}
        BY <2>1, <2>10 DEF CalmInv, Chained, EndsAt
      <4>3. Fits("ACTIVATE", End(sent[n], node[n].ros))  BY <3>1, <4>2
      <4>4. /\ Chain(Append(sent[n], "ACTIVATE"), node[n].ros)
            /\ End(Append(sent[n], "ACTIVATE"), node[n].ros) = Reached["ACTIVATE"]
        BY ONLY <1>7, <3>1, <4>1, <4>2, <4>3, ChainGrows
      <4> QED  BY <3>1, <4>1, <4>4
    <3> QED  BY <3>2 DEF Chained, EndsAt
  <2>12. Followed'
    BY <1>3, <1>6, <2>2, <2>3, <2>11 DEF Followed
  <2>13. Provided'
    <3>1. \A s : Provides(s) \subseteq Nodes /\ Provides(s)' = Provides(s)  BY DEF Provides
    <3> QED  BY <1>6, <1>7, <2>1, <2>9, <3>1 DEF CalmInv, Provided
  <2>14. Recorded'  BY <1>3 DEF Recorded
  <2> QED  BY <2>5, <2>6, <2>7, <2>8, <2>11, <2>12, <2>13, <2>14 DEF CalmInv
<1> QED  BY <1>8, <1>9, <1>10 DEF IInv

(* The timers start with the run that is active.                              *)
LEMMA ScheduleTimersInv ==
    ASSUME IInv, NEW r \in Requests, ScheduleTimers(r) PROVE IInv'
<1> USE DEF bridge, nodes
<1> DEFINE asleep == [Idle EXCEPT !.pc = IF duration THEN "asleep" ELSE "idle"]
<1>1. r \in Tasks /\ r # "timer" /\ r # "backup"  BY TaskNames
<1>2. /\ asleep \in TaskRecord /\ asleep.pc \in {"idle", "asleep"}
      /\ Idle \in TaskRecord /\ Idle.pc = "idle" /\ Idle.op = "none"
  BY DEF Idle, TaskRecord, Ids
<1>3. /\ task[r].pc = "schedule"
      /\ task' = [task EXCEPT ![r] = Idle, !["timer"] = asleep, !["backup"] = asleep]
      /\ UNCHANGED <<bridge, fsm, nodes, ops, faults, autoStopped, overlapped>>
  BY DEF ScheduleTimers
<1> HIDE DEF asleep
<1>4. /\ task' \in [Tasks -> TaskRecord] /\ task'[r] = Idle
      /\ task'["timer"] = asleep /\ task'["backup"] = asleep
      /\ \A q \in Requests : q # r => task'[q] = task[q]
  BY <1>1, <1>2, <1>3, TaskNames DEF IInv, Typed
<1>5. /\ reply' \in [Tasks -> {"none", "waiting", "ok", "rejected"}] /\ reply'["timer"] = "none"
      /\ \A t \in Tasks : t # "timer" => reply'[t] = reply[t]
      /\ queue' = Disown(queue, {"timer"}) /\ queue' \in Seq(CallRecord)
      /\ Len(queue') = Len(queue) /\ queue \in Seq(CallRecord)
  BY TaskNames, DisownLeaves DEF IInv, Typed, ScheduleTimers
<1>6. run' \in Ids /\ run' = IF scenario # NoScenario THEN scenario ELSE run
  BY DEF IInv, Typed, ScheduleTimers
<1>7. Typed'  BY <1>3, <1>4, <1>5, <1>6 DEF IInv, Typed
<1>8. Shapes'  BY <1>2, <1>4 DEF IInv, Shapes, Resets
<1>9. ASSUME Calm' PROVE CalmInv'
  <2>1. CalmInv  BY <1>3, <1>9 DEF IInv, Calm
  <2>2. fsm.state = "ACTIVE"  BY <1>3, <2>1 DEF CalmInv, Expects
  <2>3. \A q \in Requests : /\ q # r => task[q].pc = "idle"
                            /\ task'[q].pc = "idle"
    BY <1>2, <1>3, <1>4, <2>1 DEF CalmInv, Alone
  <2>4. \A t \in Tasks : reply[t] = "none" /\ reply'[t] = "none"
    <3>1. task["timer"].pc # "deactivate"  BY <1>3, <2>1 DEF CalmInv, TimerRuns
    <3>2. \A t \in Tasks : task[t].pc \notin Calling
      BY <1>3, <2>3, <3>1, TaskNames DEF IInv, Shapes, Calling
    <3> QED  BY <1>5, <2>1, <3>2 DEF CalmInv, OneCall
  <2>5. queue' = <<>>
    <3>1. queue # <<>> => queue[1] \in CallRecord  BY DEF IInv, Typed
    <3>2. \A q \in Requests : task[q].pc \notin {"reset", "reset_primary"}
      BY <1>3, <2>3
    <3>3. queue = <<>>  BY <2>1, <2>4, <3>1, <3>2 DEF CalmInv, OneCall, CallRecord
    <3> QED  BY <1>5, <3>3
  <2>6. Alone'  BY <1>2, <1>4, <2>3 DEF Alone, Resets
  <2>7. OneCall'
    <3>1. \A t \in Tasks : task'[t].pc \notin Calling
      BY <1>2, <1>4, <2>3, TaskNames DEF Calling
    <3> QED  BY <2>4, <2>5, <3>1 DEF OneCall
  <2>8. TimerRuns'  BY <1>2, <1>3, <1>4, <2>2 DEF TimerRuns
  <2>9. Settled /\ Settled'  BY <1>3, <2>3 DEF Settled, Resets
  <2>10. Expects' /\ Seen'
    BY <1>3, <2>1, <2>3, <2>4, <2>9 DEF CalmInv, Expects, Seen
  <2>11. Chained' /\ \A n \in Nodes : EndsAt(n)' = EndsAt(n)
    BY <1>3, <2>1 DEF CalmInv, Chained, EndsAt
  <2>12. Followed'
    BY ZenonT(60), <1>3, <2>1, <2>2, <2>3, <2>4, <2>9, <2>11, TaskNames DEF CalmInv, Followed
  <2>13. Provided'  BY <1>3, <2>1, <2>9 DEF CalmInv, Provided
  <2>14. Recorded'
    BY <1>3, <1>6, <2>1, <2>2, <2>9, BridgeAssumption DEF CalmInv, Provided, Recorded
  <2> QED  BY <2>6, <2>7, <2>8, <2>10, <2>11, <2>12, <2>13, <2>14 DEF CalmInv
<1> QED  BY <1>7, <1>8, <1>9 DEF IInv

(* Answering at once ends the timers of a run that is not there.              *)
LEMMA DeactivateAlreadyInv ==
    ASSUME IInv, NEW t, DeactivateAlready(t), ops' \in 0..MaxOps PROVE IInv'
<1> USE DEF bridge, primary, nodes
<1>1. /\ mirror = "INACTIVE" /\ task' \in [Tasks -> TaskRecord]
      /\ task'["timer"].pc = "idle" /\ task'["backup"].pc = "idle"
      /\ \A r \in Requests : task'[r] = task[r]
      /\ UNCHANGED <<bridge, primary, nodes, run, faults, autoStopped, overlapped>>
  BY CancelledLeaves DEF IInv, Typed, DeactivateAlready
<1>2. Typed' /\ Shapes'  BY <1>1 DEF IInv, Typed, Shapes
<1>3. ASSUME Calm' PROVE CalmInv'
  <2>1. CalmInv  BY <1>1, <1>3 DEF IInv, Calm
  <2>2. task["timer"].pc # "deactivate" /\ task["backup"].pc # "deactivate"
    BY <1>1, <2>1 DEF IInv, Shapes, CalmInv, TimerRuns
  <2>3. \A u \in Tasks : /\ task'[u].pc \in Calling <=> task[u].pc \in Calling
                         /\ task[u].pc \in Calling => task'[u] = task[u]
    BY <1>1, <2>2, TaskNames DEF IInv, Shapes, Calling
  <2>4. Alone'  BY <1>1, <2>1 DEF CalmInv, Alone
  <2>5. OneCall'
    <3>1. queue # <<>> => queue[1] \in CallRecord  BY DEF IInv, Typed
    <3>2. queue # <<>> /\ queue[1].by # "nobody" => queue[1].by \in Tasks
                                                    /\ task[queue[1].by].pc \in Calling
      BY <2>1, <3>1 DEF CalmInv, OneCall, CallRecord
    <3> QED  BY <1>1, <2>1, <2>3, <3>2 DEF CalmInv, OneCall
  <2>6. TimerRuns' /\ Expects' /\ Chained'
    BY <1>1, <2>1 DEF CalmInv, TimerRuns, Expects, Chained
  <2>7. Seen' /\ Provided' /\ Recorded'
    BY <1>1, <2>1 DEF CalmInv, Seen, Provided, Recorded, Settled
  <2>8. Followed'
    BY <1>1, <2>1 DEF CalmInv, Followed, Settled, EndsAt
  <2> QED  BY <2>4, <2>5, <2>6, <2>7, <2>8 DEF CalmInv
<1> QED  BY <1>2, <1>3 DEF IInv

(* A deactivate asks the primary, unless the bridge believes it has stopped.   *)
LEMMA StartDeactivateInv ==
    ASSUME IInv, NEW r \in Requests, StartDeactivate(r) PROVE IInv'
<1>1. r \in Tasks /\ task[r].pc = "idle" /\ ops' \in 0..MaxOps
  BY BridgeAssumption, TaskNames DEF IInv, Typed, StartDeactivate
<1>2. CASE DeactivateAlready(r)  BY <1>1, <1>2, DeactivateAlreadyInv
<1>3. CASE DeactivateCall(r)
  <2>1. /\ Call(r, Asked["deactivate"], NoScenario) /\ Goto(r, "deactivate")
        /\ UNCHANGED <<bridge, fsm, nodes, run, faults, autoStopped>>
        /\ "deactivate" \in {"activate", "deactivate"}
    BY <1>3 DEF DeactivateCall, Asked
  <2> QED  BY ONLY IInv, r \in Requests, <1>1, <2>1, CallInv
<1> QED  BY <1>2, <1>3 DEF StartDeactivate

(* The primary has stopped: the bridge takes note, ends the timers and tells  *)
(* the nodes.                                                                 *)
LEMMA DeactivatedInv ==
    ASSUME IInv, NEW r \in Requests, NEW reached \in SUBSET Nodes, Deactivated(r, reached)
    PROVE  IInv'
<1>1. r \in Tasks /\ r # "timer" /\ r # "backup"  BY TaskNames
<1>2. task[r].pc = "deactivate" /\ reply[r] = "ok" /\ mirror' = "INACTIVE"  BY DEF Deactivated
<1>3. /\ task' \in [Tasks -> TaskRecord] /\ task'[r].pc = "idle" /\ task'[r].op = "none"
      /\ task'["timer"].pc = "idle" /\ task'["backup"].pc = "idle"
      /\ \A q \in Requests : q # r => task'[q] = task[q]
  <2>1. Idle \in TaskRecord /\ Idle.pc = "idle" /\ Idle.op = "none"
    BY DEF Idle, TaskRecord, Ids
  <2>2. task' = [Cancelled(task) EXCEPT ![r] = Idle] /\ task \in [Tasks -> TaskRecord]
    BY DEF IInv, Typed, Deactivated
  <2> QED  BY <1>1, <2>1, <2>2, CancelledLeaves, TaskNames
<1>4. /\ reply' \in [Tasks -> {"none", "waiting", "ok", "rejected"}]
      /\ reply'[r] = "none" /\ reply'["timer"] = "none"
      /\ \A t \in Tasks : t # r /\ t # "timer" => reply'[t] = reply[t]
  BY <1>1, TaskNames DEF IInv, Typed, Deactivated
<1>5. /\ queue' = Disown(queue, {"timer"}) /\ queue' \in Seq(CallRecord)
      /\ Len(queue') = Len(queue) /\ queue \in Seq(CallRecord)
  BY DisownLeaves DEF IInv, Typed, Deactivated
<1>6. faults' \in 0..MaxFaults /\ faults' = Spent(reached, faults) /\ faults \in Nat
  BY BridgeAssumption DEF IInv, Typed, Deactivated, Spent, Reach
<1>7. UNCHANGED <<scenario, duration, fsm, param, node, run, ops, autoStopped, overlapped>>
  BY DEF Deactivated
<1>8. /\ sent' \in [Nodes -> Seq(Trs)] /\ "DEACTIVATE" \in Trs
      /\ \A n \in reached : /\ sent'[n] = Append(sent[n], "DEACTIVATE") /\ sent'[n] # <<>>
                            /\ sent[n] # <<>> => sent'[n][1] = sent[n][1]
  BY BroadcastLeaves DEF IInv, Typed, Deactivated, Trs
<1>9. Typed'  BY <1>2, <1>3, <1>4, <1>5, <1>6, <1>7, <1>8 DEF IInv, Typed, States
<1>10. Shapes'  BY <1>1, <1>3, TaskNames DEF IInv, Shapes, Resets
<1>11. ASSUME Calm' PROVE CalmInv'
  <2>1. reached = Nodes /\ CalmInv  BY <1>6, <1>7, <1>11, AllReached DEF IInv, Calm
  <2>2. fsm.state = "INACTIVE"  BY <1>2, <2>1 DEF CalmInv, Expects
  <2>3. /\ \A q \in Requests : /\ q # r => task[q].pc = "idle"
                               /\ task'[q].pc = "idle"
        /\ \A t \in Tasks : t # r => reply[t] = "none"
        /\ \A t \in Tasks : reply'[t] = "none"
    BY <1>1, <1>2, <1>3, <1>4, <2>1 DEF CalmInv, Alone, OneCall
  <2>4. queue' = <<>>
    <3>1. queue # <<>> => queue[1] \in CallRecord  BY <1>5
    <3>2. \A q \in Requests : task[q].pc \notin {"reset", "reset_primary"}
      BY <1>2, <2>3
    <3>3. queue = <<>>  BY <1>2, <2>1, <2>3, <3>1, <3>2 DEF CalmInv, OneCall, CallRecord
    <3> QED  BY <1>5, <3>3
  <2>5. Alone' /\ TimerRuns'  BY <1>3, <2>3 DEF Alone, TimerRuns, Resets
  <2>6. OneCall'
    <3>1. \A t \in Tasks : task'[t].pc \notin Calling
      BY <1>3, <2>3, TaskNames DEF Calling
    <3> QED  BY <2>3, <2>4, <3>1 DEF OneCall
  <2>7. Expects' /\ Seen'  BY <1>2, <1>7, <2>2, <2>3 DEF Expects, Seen
  <2>8. Settled /\ Settled'  BY <1>2, <2>3 DEF Settled, Resets
  <2>9. \A n \in Nodes : EndsAt(n) \in {"INACTIVE", "ACTIVE"}
    BY <2>1, <2>2, <2>8 DEF CalmInv, Followed
  <2>10. Chained' /\ \A n \in Nodes : EndsAt(n)' = "INACTIVE"
    <3>1. /\ "DEACTIVATE" # "CONFIGURE" /\ Reached["DEACTIVATE"] = "INACTIVE"
          /\ Fits("DEACTIVATE", "INACTIVE") /\ Fits("DEACTIVATE", "ACTIVE")
      BY DEF Reached, Fits, Legal
    <3>2. ASSUME NEW n \in Nodes
          PROVE  /\ Chain(sent'[n], node'[n].ros)
                 /\ End(sent'[n], node'[n].ros) = "INACTIVE"
      <4>1. /\ sent[n] \in Seq(Trs) /\ node'[n] = node[n]
            /\ sent'[n] = Append(sent[n], "DEACTIVATE")
        BY <1>7, <1>8, <2>1 DEF IInv, Typed
      <4>2. Chain(sent[n], node[n].ros) /\ End(sent[n], node[n].ros) \in {"INACTIVE", "ACTIVE"}
        BY <2>1, <2>9 DEF CalmInv, Chained, EndsAt
      <4>3. Fits("DEACTIVATE", End(sent[n], node[n].ros))  BY <3>1, <4>2
      <4>4. /\ Chain(Append(sent[n], "DEACTIVATE"), node[n].ros)
            /\ End(Append(sent[n], "DEACTIVATE"), node[n].ros) = Reached["DEACTIVATE"]
        BY ONLY <1>8, <3>1, <4>1, <4>2, <4>3, ChainGrows
      <4> QED  BY <3>1, <4>1, <4>4
    <3> QED  BY <3>2 DEF Chained, EndsAt
  <2>11. Followed'  BY <1>7, <2>2, <2>3, <2>10 DEF Followed
  <2>12. Provided'
    <3>1. \A s : Provides(s) \subseteq Nodes /\ Provides(s)' = Provides(s)  BY DEF Provides
    <3> QED  BY <1>7, <1>8, <2>1, <2>8, <3>1 DEF CalmInv, Provided
  <2>13. Recorded'  BY <1>7, <2>2 DEF Recorded
  <2> QED  BY <2>5, <2>6, <2>7, <2>10, <2>11, <2>12, <2>13 DEF CalmInv
<1> QED  BY <1>9, <1>10, <1>11 DEF IInv
-----------------------------------------------------------------------------
(* The timers.                                                               *)

(* The timer stops the run as a request would.                                *)
LEMMA TimerExpiresInv == ASSUME IInv, TimerExpires PROVE IInv'
<1>1. "timer" \in Tasks /\ task["timer"].pc = "asleep" /\ ops' \in 0..MaxOps
  BY TaskNames DEF IInv, Typed, TimerExpires
<1>2. CASE DeactivateAlready("timer")  BY <1>1, <1>2, DeactivateAlreadyInv
<1>3. CASE DeactivateCall("timer")
  <2>1. /\ Call("timer", Asked["deactivate"], NoScenario) /\ Goto("timer", "deactivate")
        /\ UNCHANGED <<bridge, fsm, nodes, run, faults, autoStopped>> /\ mirror # "INACTIVE"
        /\ "deactivate" \in {"activate", "deactivate"}
    BY <1>3 DEF DeactivateCall, Asked
  <2> QED  BY ONLY IInv, <1>1, <2>1, CallInv
<1> QED  BY <1>2, <1>3 DEF TimerExpires

(* The run has stopped for the bridge too; the nodes are not told, and that   *)
(* is recorded in autoStopped.                                                *)
LEMMA TimerStoppedInv == ASSUME IInv, TimerStopped PROVE IInv'
<1> USE DEF nodes
<1>1. /\ task["timer"].pc = "deactivate" /\ reply["timer"] = "ok" /\ mirror' = "INACTIVE"
      /\ task' \in [Tasks -> TaskRecord]
      /\ task'["timer"].pc = "idle" /\ task'["backup"].pc = "idle"
      /\ \A r \in Requests : task'[r] = task[r]
      /\ UNCHANGED <<scenario, duration, fsm, nodes, run, ops, autoStopped, overlapped, queue,
                     faults>>
  BY CancelledLeaves DEF IInv, Typed, TimerStopped, Succeeded
<1>2. /\ reply' \in [Tasks -> {"none", "waiting", "ok", "rejected"}] /\ reply'["timer"] = "none"
      /\ \A t \in Tasks : t # "timer" => reply'[t] = reply[t]
  BY TaskNames DEF IInv, Typed, TimerStopped, Succeeded
<1>3. Typed' /\ Shapes'  BY <1>1, <1>2 DEF IInv, Typed, Shapes, States
<1>4. ASSUME Calm' PROVE CalmInv'
  <2>1. CalmInv  BY <1>1, <1>4 DEF IInv, Calm
  <2>2. /\ fsm.state = "INACTIVE"
        /\ \A r \in Requests : task[r].pc = "idle" /\ task'[r].pc = "idle"
    BY <1>1, <2>1 DEF CalmInv, TimerRuns
  <2>3. \A t \in Tasks : reply'[t] = "none" /\ (t # "timer" => reply[t] = "none")
    BY <1>1, <1>2, <2>1, TaskNames DEF CalmInv, OneCall
  <2>4. queue = <<>>
    <3>1. queue # <<>> => queue[1] \in CallRecord  BY DEF IInv, Typed
    <3> QED  BY <1>1, <2>1, <2>2, <2>3, <3>1 DEF CalmInv, OneCall, CallRecord
  <2>5. \A t \in Tasks : task'[t].pc \notin Calling  BY <1>1, <2>2, TaskNames DEF Calling
  <2>6. Alone' /\ OneCall' /\ TimerRuns'
    BY <1>1, <2>2, <2>3, <2>4, <2>5 DEF Alone, OneCall, TimerRuns
  <2>7. Expects' /\ Seen'  BY <1>1, <2>2 DEF Expects, Seen
  <2>8. Settled /\ Settled'  BY <2>2 DEF Settled, Resets
  <2>9. Chained' /\ \A n \in Nodes : EndsAt(n)' = EndsAt(n)
    BY <1>1, <2>1 DEF CalmInv, Chained, EndsAt
  <2>10. Followed'
    BY <1>1, <2>1, <2>2, <2>8, <2>9 DEF CalmInv, Followed
  <2>11. Provided' /\ Recorded'
    BY <1>1, <2>1, <2>2, <2>8 DEF CalmInv, Provided, Recorded
  <2> QED  BY <2>6, <2>7, <2>9, <2>10, <2>11 DEF CalmInv
<1> QED  BY <1>3, <1>4 DEF IInv

(* The timer's call fails only where a call was lost or requests overlapped.  *)
LEMMA TimerFailsInv == ASSUME IInv, TimerFails PROVE IInv'
<1> USE DEF bridge, nodes
<1>1. /\ task["timer"].pc = "deactivate"
      /\ task' \in [Tasks -> TaskRecord] /\ \A t \in Tasks : t # "timer" => task'[t] = task[t]
      /\ task'["timer"].pc = "idle"
      /\ UNCHANGED <<bridge, fsm, nodes, run, ops, autoStopped, overlapped>>
  BY TaskNames, FinishLeaves DEF IInv, Typed, TimerFails
<1>2. /\ reply' \in [Tasks -> {"none", "waiting", "ok", "rejected"}]
      /\ queue' \in Seq(CallRecord) /\ faults' \in 0..MaxFaults /\ faults \in Nat
      /\ \/ reply["timer"] = "rejected" /\ faults' = faults
         \/ faults' = faults + 1
  BY BridgeAssumption, DisownLeaves, TaskNames DEF IInv, Typed, TimerFails, Failed
<1>3. Typed' /\ Shapes'  BY ZenonT(60), <1>1, <1>2, TaskNames DEF IInv, Typed, Shapes
<1>4. ~Calm'
  <2> SUFFICES ASSUME Calm' PROVE FALSE  OBVIOUS
  <2>1. reply["timer"] = "rejected" /\ Calm  BY <1>1, <1>2 DEF Calm
  <2> QED  BY <1>1, <2>1 DEF IInv, CalmInv, TimerRuns
<1> QED  BY <1>3, <1>4 DEF IInv

(* The backup only comes to expire after the timer's call has failed.         *)
LEMMA BackupExpiresInv == ASSUME IInv, BackupExpires PROVE IInv'
<1> USE DEF primary, nodes
<1>1. /\ task["backup"].pc = "asleep" /\ task["timer"].pc = "idle" /\ mirror' = "INACTIVE"
      /\ task' \in [Tasks -> TaskRecord]
      /\ task'["timer"].pc = "idle" /\ task'["backup"].pc = "idle"
      /\ \A r \in Requests : task'[r] = task[r]
      /\ UNCHANGED <<scenario, duration, primary, nodes, run, ops, faults, autoStopped, overlapped>>
  BY CancelledLeaves DEF IInv, Typed, BackupExpires
<1>2. Typed' /\ Shapes'  BY <1>1 DEF IInv, Typed, Shapes, States
<1>3. ~Calm'  BY <1>1 DEF Calm, IInv, CalmInv, Alone
<1> QED  BY <1>2, <1>3 DEF IInv
-----------------------------------------------------------------------------
(* The invariant is inductive.                                               *)
LEMMA NextInv == ASSUME IInv, [Next]_vars PROVE IInv'
<1>1. ASSUME NEW r \in Requests, Request(r) PROVE IInv'
  <2>1. ASSUME NEW s \in Scenarios, StartReset(r, "configure", s) PROVE IInv'
    <3>1. s \in Ids /\ "configure" \in {"configure", "cleanup"}  BY DEF Ids
    <3> QED  BY <2>1, <3>1, StartResetInv
  <2>2. ASSUME StartReset(r, "cleanup", NoScenario) PROVE IInv'
    <3>1. NoScenario \in Ids /\ "cleanup" \in {"configure", "cleanup"}
          /\ "cleanup" # "configure"
      BY DEF Ids
    <3> QED  BY <2>2, <3>1, StartResetInv
  <2> QED
    BY <1>1, <2>1, <2>2, ResetNodesInv, InjectInv, ConfiguredInv, ActivatedInv, DeactivatedInv,
       ResetPrimaryInv, ResetStoppedInv, ResetCleanedInv, RequestFailsInv, StartActivateInv,
       ScheduleTimersInv, StartDeactivateInv
    DEF Request
<1>2. ASSUME Timers PROVE IInv'
  BY <1>2, TimerExpiresInv, TimerStoppedInv, TimerFailsInv, BackupExpiresInv DEF Timers
<1>3. ASSUME UNCHANGED vars PROVE IInv'
  <2> USE <1>3 DEF vars, bridge, primary, nodes
  <2>1. Typed' /\ Shapes'  BY DEF IInv, Typed, Shapes
  <2>2. Calm' => Alone' /\ OneCall' /\ TimerRuns' /\ Expects' /\ Chained'
    BY DEF IInv, Calm, CalmInv, Alone, OneCall, TimerRuns, Expects, Chained
  <2>3. Calm' => Seen' /\ Followed' /\ Provided' /\ Recorded'
    BY DEF IInv, Calm, CalmInv, Settled, Seen, Followed, EndsAt, Provided, Recorded
  <2> QED  BY <2>1, <2>2, <2>3 DEF IInv, CalmInv
<1> QED  BY <1>1, <1>2, <1>3, PrimaryHandlesInv, NodeHandlesInv DEF Next

(* The inductive invariant holds in every state of the bridge.               *)
LEMMA InvAlways == Spec => []IInv
<1>1. Init => IInv  BY InitInv
<1>2. IInv /\ [Next]_vars => IInv'  BY NextInv
<1> QED  BY <1>1, <1>2, PTL DEF Spec

(* BridgeAndNodesAgree: with any number of clients, nodes and scenarios, as    *)
(* long as no call was lost and no two requests were under way at once, the    *)
(* mirror of the bridge is the primary's state whenever nothing is under way,  *)
(* and unless the timer stopped the last run every node is where the primary   *)
(* is, with its scenario, and the run directory is of that scenario.          *)
THEOREM BridgeAgrees == Spec => []BridgeAndNodesAgree
<1>1. IInv => TypeOK
  BY DEF IInv, Typed, TypeOK, TaskRecord, Resets, Ids
<1>2. ASSUME IInv, Quiescent, Calm
      PROVE  /\ Settled /\ \A t \in Tasks : reply[t] = "none"
             /\ \A r \in Requests : task[r].pc = "idle"
             /\ \A n \in Nodes : EndsAt(n) = node[n].ros /\ sent[n] = <<>>
  <2>1. \A r \in Requests : task[r].pc = "idle"  BY <1>2 DEF Quiescent
  <2>2. \A t \in Tasks : task[t].pc \notin Calling
    BY <1>2, <2>1, TaskNames DEF IInv, Shapes, Quiescent, Calling
  <2>3. \A t \in Tasks : reply[t] = "none"  BY <1>2, <2>2 DEF IInv, CalmInv, OneCall
  <2>4. \A n \in Nodes : EndsAt(n) = node[n].ros /\ sent[n] = <<>>
    BY <1>2 DEF Quiescent, EndsAt, End
  <2> QED  BY <2>1, <2>3, <2>4 DEF Settled, Resets
<1>3. IInv => MirrorAgrees
  BY <1>2 DEF MirrorAgrees, IInv, Calm, CalmInv, Seen
<1>4. IInv => NodesFollow
  <2> SUFFICES ASSUME IInv, Quiescent, Calm, ~autoStopped, NEW n \in Nodes
               PROVE  /\ node[n].ros = fsm.state
                      /\ fsm.state # "UNCONFIGURED" /\ n \in Provides(fsm.scenario)
                            => node[n].scenario = fsm.scenario
                      /\ fsm.state = "ACTIVE" => run = fsm.scenario
    BY DEF NodesFollow, Calm
  <2>1. node[n].ros = fsm.state  BY <1>2 DEF IInv, CalmInv, Followed
  <2>2. fsm.state # "UNCONFIGURED" /\ n \in Provides(fsm.scenario)
           => node[n].scenario = fsm.scenario
    BY <1>2 DEF IInv, CalmInv, Provided
  <2>3. fsm.state = "ACTIVE" => run = fsm.scenario  BY <1>2 DEF IInv, CalmInv, Recorded
  <2> QED  BY <2>1, <2>2, <2>3
<1>5. IInv => BridgeAndNodesAgree  BY <1>1, <1>3, <1>4 DEF BridgeAndNodesAgree
<1> QED  BY <1>5, InvAlways, PTL


(* Once a call was lost or calls overlapped, that stays recorded.             *)
LEMMA CalmBefore == ASSUME IInv, [Next]_vars, Calm' PROVE Calm
<1>1. faults \in Nat /\ overlapped \in BOOLEAN  BY BridgeAssumption DEF IInv, Typed
<1>2. \A t, tr, s : Call(t, tr, s) => (overlapped => overlapped')  BY <1>1 DEF Call
<1>3. \A t : Failed(t) => faults' >= faults  BY <1>1 DEF Failed
<1>4. \A reached : faults' = Spent(reached, faults) => faults' >= faults  BY <1>1 DEF Spent
<1> DEFINE Kept == faults' >= faults /\ (overlapped => overlapped')
<1>5. ASSUME NEW r \in Requests, Request(r) PROVE Kept
  <2>1. ASSUME NEW op, NEW s, StartReset(r, op, s) PROVE Kept
    BY <1>1, <2>1 DEF StartReset
  <2>2. ASSUME NEW reached \in SUBSET Nodes, ResetNodes(r, reached) PROVE Kept
    BY <1>4, <2>2 DEF ResetNodes
  <2>3. ASSUME NEW reached \in SUBSET Nodes, Inject(r, reached) PROVE Kept
    BY <1>1, <1>2, <2>3 DEF Inject
  <2>4. ASSUME NEW reached \in SUBSET Nodes, Configured(r, reached) PROVE Kept
    BY <1>4, <2>4 DEF Configured
  <2>5. ASSUME NEW reached \in SUBSET Nodes, Activated(r, reached) PROVE Kept
    BY <1>4, <2>5 DEF Activated
  <2>6. ASSUME NEW reached \in SUBSET Nodes, Deactivated(r, reached) PROVE Kept
    BY <1>4, <2>6 DEF Deactivated
  <2>7. ASSUME ResetPrimary(r) PROVE Kept
    BY <1>1, <1>2, <2>7 DEF ResetPrimary
  <2>8. ASSUME ResetStopped(r) \/ ResetCleaned(r) PROVE Kept
    BY <1>1, <1>2, <2>8 DEF ResetStopped, ResetCleaned, Succeeded
  <2>9. ASSUME RequestFails(r) PROVE Kept
    BY <1>3, <2>9 DEF RequestFails
  <2>10. ASSUME StartActivate(r) \/ ScheduleTimers(r) PROVE Kept
    BY <1>1, <1>2, <2>10 DEF StartActivate, ScheduleTimers
  <2>11. ASSUME StartDeactivate(r) PROVE Kept
    BY <1>1, <1>2, <2>11 DEF StartDeactivate, DeactivateAlready, DeactivateCall
  <2> QED
    BY <1>5, <2>1, <2>2, <2>3, <2>4, <2>5, <2>6, <2>7, <2>8, <2>9, <2>10, <2>11 DEF Request
<1>6. ASSUME Timers PROVE Kept
  BY <1>1, <1>2, <1>3, <1>6
  DEF Timers, TimerExpires, DeactivateAlready, DeactivateCall, TimerStopped, Succeeded,
      TimerFails, BackupExpires
<1>7. ASSUME PrimaryHandles \/ (\E n \in Nodes : NodeHandles(n)) \/ UNCHANGED vars PROVE Kept
  <2>1. UNCHANGED <<faults, overlapped>>  BY <1>7 DEF PrimaryHandles, NodeHandles, vars
  <2> QED  BY <1>1, <2>1
<1>8. Kept  BY <1>5, <1>6, <1>7 DEF Next
<1> QED  BY <1>1, <1>8 DEF Calm

(* The primary's state and what the nodes were given change in two actions     *)
(* only: the primary takes a call, or a configure injects.                    *)
LEMMA WhoChanges ==
    ASSUME [Next]_vars
    PROVE  \/ UNCHANGED <<fsm, param>> \/ PrimaryHandles
           \/ \E r \in Requests, reached \in SUBSET Nodes : Inject(r, reached)
<1> USE DEF primary, nodes
<1>1. ASSUME NEW r \in Requests, Request(r)
      PROVE  UNCHANGED <<fsm, param>> \/ \E reached \in SUBSET Nodes : Inject(r, reached)
  BY <1>1
  DEF Request, StartReset, ResetNodes, Configured, Activated, Deactivated, ResetPrimary,
      ResetStopped, ResetCleaned, RequestFails, StartActivate, ScheduleTimers,
      StartDeactivate, DeactivateAlready, DeactivateCall
<1>2. ASSUME Timers PROVE UNCHANGED <<fsm, param>>
  BY <1>2
  DEF Timers, TimerExpires, DeactivateAlready, DeactivateCall, TimerStopped, TimerFails,
      BackupExpires
<1>3. ASSUME (\E n \in Nodes : NodeHandles(n)) \/ UNCHANGED vars PROVE UNCHANGED <<fsm, param>>
  BY <1>3 DEF NodeHandles, vars
<1> QED  BY <1>1, <1>2, <1>3 DEF Next

(* ConfiguredIsInjected is inductive relative to IInv.                         *)
LEMMA InjectedStep ==
    ASSUME IInv, ConfiguredIsInjected, [Next]_vars PROVE ConfiguredIsInjected'
<1> SUFFICES ASSUME Calm', fsm'.state # "UNCONFIGURED"
             PROVE  \A n \in Provides(fsm'.scenario) : param'[n] = fsm'.scenario
  BY DEF ConfiguredIsInjected, Calm, Provides
<1>1. Calm /\ CalmInv  BY CalmBefore DEF IInv
<1>2. CASE UNCHANGED <<fsm, param>>  BY <1>1, <1>2 DEF ConfiguredIsInjected, Calm
<1>3. CASE PrimaryHandles
  <2> DEFINE c == queue[1]
             ok == fsm.state = Legal[c.tr]
  <2>1. /\ queue # <<>> /\ c = Head(queue) /\ c \in CallRecord
        /\ c.tr \in Trs /\ c.arg \in Ids /\ UNCHANGED param
        /\ fsm \in Machine /\ fsm' = IF ok THEN Transition(fsm, c.tr, c.arg) ELSE fsm
    <3>1. queue # <<>> /\ c = Head(queue) /\ c \in CallRecord /\ UNCHANGED param /\ fsm \in Machine
      BY <1>3 DEF IInv, Typed, PrimaryHandles, nodes
    <3>2. fsm' = IF ok THEN Transition(fsm, c.tr, c.arg) ELSE fsm
      BY <1>3, <3>1 DEF PrimaryHandles
    <3>3. c.tr \in Trs /\ c.arg \in Ids  BY <3>1 DEF CallRecord
    <3> QED  BY <3>1, <3>2, <3>3
  <2>2. /\ ok => /\ fsm'.state = Reached[c.tr]
                 /\ c.tr = "CONFIGURE" => fsm'.scenario = c.arg
                 /\ c.tr \in {"ACTIVATE", "DEACTIVATE"} => fsm'.scenario = fsm.scenario
        /\ ~ok => fsm' = fsm
    BY ONLY <2>1, TransitionLeaves
  <2>3. CASE ~ok  BY <1>1, <2>1, <2>2, <2>3 DEF ConfiguredIsInjected, Calm
  <2>4. CASE ok /\ c.tr \in {"ACTIVATE", "DEACTIVATE"}
    <3>1. fsm.state # "UNCONFIGURED"  BY <2>4 DEF Legal
    <3> QED  BY <1>1, <2>1, <2>2, <2>4, <3>1 DEF ConfiguredIsInjected, Calm
  <2>5. CASE ok /\ c.tr = "CLEANUP"  BY <2>2, <2>5 DEF Reached
  <2>6. CASE ok /\ c.tr = "CONFIGURE"
    <3>1. /\ c.by # "nobody" /\ reply[c.by] = "waiting"
          /\ c.tr = Asked[task[c.by].pc] /\ c.arg = task[c.by].arg
      BY <1>1, <2>1, <2>6 DEF CalmInv, OneCall
    <3>2. c.by \in Tasks  BY <2>1, <3>1 DEF CallRecord
    <3>3. task[c.by].pc \in Calling  BY <1>1, <3>1, <3>2 DEF CalmInv, OneCall
    <3>4. task[c.by].pc = "configure"  BY <2>6, <3>1, <3>3 DEF Asked, Calling
    <3>5. c.by \in Requests  BY <3>2, <3>4, TaskNames DEF IInv, Shapes
    <3>6. \A n \in Provides(c.arg) : param[n] = c.arg
      BY <1>1, <3>1, <3>4, <3>5 DEF CalmInv, Expects
    <3> QED  BY <2>1, <2>2, <2>6, <3>6
  <2> QED  BY <2>1, <2>3, <2>4, <2>5, <2>6 DEF Trs
<1>4. ASSUME NEW r \in Requests, NEW reached \in SUBSET Nodes, Inject(r, reached) PROVE FALSE
  <2>1. task[r].pc = "inject" /\ UNCHANGED fsm  BY <1>4 DEF Inject
  <2> QED  BY <1>1, <2>1 DEF CalmInv, Expects
<1> QED  BY <1>2, <1>3, <1>4, WhoChanges

(* ConfiguredIsInjected: with any number of clients, nodes and scenarios, as   *)
(* long as no call to the primary was lost and no two overlapped, whatever     *)
(* injections have failed: a primary that is not UNCONFIGURED has a scenario   *)
(* whose parameters every node it has some for was given last.  A configure    *)
(* that fails to inject has therefore left the primary UNCONFIGURED, and it    *)
(* stays so until a configure has reached them all.                           *)
THEOREM ConfiguredInjected == Spec => []ConfiguredIsInjected
<1>1. Init => ConfiguredIsInjected  BY DEF Init, NewMachine, ConfiguredIsInjected
<1>2. IInv /\ ConfiguredIsInjected /\ [Next]_vars => ConfiguredIsInjected'  BY InjectedStep
<1> QED  BY <1>1, <1>2, InvAlways, PTL DEF Spec
=============================================================================
