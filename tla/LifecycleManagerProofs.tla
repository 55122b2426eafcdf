------------------------ MODULE LifecycleManagerProofs ------------------------
(***************************************************************************)
(* Proofs about LifecycleManagerNode, for any scenarios, clients, rates and  *)
(* clock bounds: simulated time stays within what the wall clock allows, the *)
(* run, its clients and its latched topics stay together, and a stopped      *)
(* clock stays stopped.                                                      *)
(*                                                                          *)
(* NeverAheadOfWall is not inductive: it rests on the anchors, which put the *)
(* time to catch up with within what is due, on the clock mode, which does   *)
(* not change while a run is configured, and on the machine and rclpy being   *)
(* in the same state between callbacks.  IInv says so.                        *)
(***************************************************************************)
EXTENDS LifecycleManagerNode, Integers, TLAPS

\* The machine is in the state rclpy has the node in, except inside on_deactivate.
StatesAgree ==
    /\ ros = "unconfigured" => fsm.state = "UNCONFIGURED"
    /\ ros = "inactive" => fsm.state = "INACTIVE"
    /\ ros = "active" => fsm.state = IF executor = "spin" THEN "ACTIVE" ELSE "INACTIVE"
    /\ executor \in {"stopping", "joining"} => ros = "active"
    /\ executor = "activating" => ros = "inactive" /\ param.clockMode = "free_run"

\* The clock timer runs in a realtime run, the thread in a free run.
OneClock ==
    /\ timers => ros = "active" /\ executor = "spin" /\ param.clockMode = "realtime"
    /\ thread # "none" => param.clockMode = "free_run"
    /\ ros # "active" /\ executor = "spin" => thread = "none"

\* A realtime run has had its time from the wall clock, and will not be asked for more:
\* the anchors were set in the past and lead to no more than what is due.
WithinDue ==
    /\ ros # "unconfigured" /\ param.clockMode = "realtime" => fsm.simTime <= due
    /\ timers => fsm.anchorWall <= wall /\ TargetSim(fsm, wall) <= due

\* Only a thread that waits for acknowledgements has clients that owe one.
Owed ==
    /\ thread # "ack" => \A c \in Clients : unacked[c] = 0
    /\ \A c \in Clients : unacked[c] <= 1 /\ (c \notin clients => unacked[c] = 0)

IInv == TypeOK /\ StatesAgree /\ OneClock /\ WithinDue /\ Owed /\ LatchedIsThisRun
-----------------------------------------------------------------------------
(* The fields of a machine that the topics copy.                             *)
LEMMA MachineFields ==
    ASSUME NEW m \in Machine
    PROVE  /\ m.scenario \in Scenarios \cup {NoScenario} /\ m.simTime \in Nat
           /\ m.simRate \in Nat /\ m.anchorWall \in Nat /\ m.anchorSim \in Nat
BY DEF Machine

(* The wall time and the stored rate are numbers.                            *)
LEMMA WallAndRate == ASSUME TypeOK PROVE wall \in Nat /\ param.rate \in Nat
<1>1. wall \in Nat  BY NodeAssumption DEF TypeOK
<1>2. param.rate \in Rates \cup {1}  BY DEF TypeOK
<1>3. Rates \subseteq Nat /\ 1 \in Nat  BY NodeAssumption
<1> QED  BY <1>1, <1>2, <1>3

(* The machine: every method leaves a machine, in the state and with the     *)
(* times it promises.                                                        *)
LEMMA ConfigureLeaves ==
    ASSUME NEW m \in Machine, m.state = "UNCONFIGURED",
           NEW s \in Scenarios \cup {NoScenario}, NEW mode \in ClockModes
    PROVE  /\ Configure(m, s, "internal", mode) \in Machine
           /\ Configure(m, s, "internal", mode).state = "INACTIVE"
           /\ Configure(m, s, "internal", mode).simTime = 0
BY DEF Machine, Configure, States, ClockModes, DynModes

(* set_sim_rate moves the anchors here and now and leaves the rest.          *)
LEMMA SetSimRateLeaves ==
    ASSUME NEW m \in Machine, NEW rate \in Nat, NEW now \in Nat
    PROVE  /\ SetSimRate(m, rate, now) \in Machine
           /\ SetSimRate(m, rate, now).state = m.state
           /\ SetSimRate(m, rate, now).scenario = m.scenario
           /\ SetSimRate(m, rate, now).simTime = m.simTime
           /\ \/ SetSimRate(m, rate, now) = m
              \/ /\ SetSimRate(m, rate, now).anchorWall = now
                 /\ SetSimRate(m, rate, now).anchorSim = m.simTime
BY DEF Machine, SetSimRate

(* activate anchors the run at the time it goes on from.                     *)
LEMMA ActivateLeaves ==
    ASSUME NEW m \in Machine, m.state = "INACTIVE", NEW now \in Nat
    PROVE  /\ Activate(m, now) \in Machine /\ Activate(m, now).state = "ACTIVE"
           /\ Activate(m, now).simTime = m.simTime /\ Activate(m, now).scenario = m.scenario
           /\ Activate(m, now).anchorWall = now /\ Activate(m, now).anchorSim = m.simTime
BY DEF Machine, Activate, States

(* deactivate and cleanup leave the state they are for.                      *)
LEMMA StopLeaves ==
    ASSUME NEW m \in Machine
    PROVE  /\ Deactivate(m) \in Machine /\ Cleanup(m) \in Machine
           /\ m.state = "ACTIVE" => Deactivate(m).state = "INACTIVE"
           /\ Deactivate(m).simTime = m.simTime /\ Deactivate(m).scenario = m.scenario
           /\ m.state = "INACTIVE" => Cleanup(m).state = "UNCONFIGURED"
BY DEF Machine, Deactivate, Cleanup, States

(* A tick adds one to the time of a machine that is ACTIVE.                  *)
LEMMA TickLeaves ==
    ASSUME NEW m \in Machine
    PROVE  /\ Tick(m) \in Machine /\ Tick(m).state = m.state /\ Tick(m).scenario = m.scenario
           /\ m.simTime <= Tick(m).simTime
BY DEF Machine, Tick

(* What is due grows with the anchored target.                               *)
LEMMA TargetGrows ==
    ASSUME NEW m \in Machine, NEW now \in Nat
    PROVE  TargetSim(m, now + 1) = TargetSim(m, now) + m.simRate
<1>1. PICK a, c, r \in Nat : a = m.anchorSim /\ c = m.anchorWall /\ r = m.simRate
  BY MachineFields
<1>2. a + ((now + 1) - c) * r = (a + (now - c) * r) + r  OBVIOUS
<1> QED  BY <1>1, <1>2 DEF TargetSim

(* At its anchor a machine is where it was anchored.                         *)
LEMMA TargetAtAnchor ==
    ASSUME NEW m \in Machine, NEW now \in Nat, m.anchorWall = now
    PROVE  TargetSim(m, now) = m.anchorSim
<1>1. m.anchorSim \in Nat /\ m.simRate \in Nat  BY DEF Machine
<1> QED  BY <1>1 DEF TargetSim

(* A callback catches up to the target at most.                              *)
LEMMA CatchupBounded ==
    ASSUME TypeOK, fsm.anchorWall <= wall
    PROVE  /\ CatchupTicks \in Nat
           /\ CatchupTicks > 0 => fsm.simTime + CatchupTicks <= TargetSim(fsm, wall)
<1>1. fsm.simTime \in Nat /\ fsm.anchorWall \in Nat /\ fsm.anchorSim \in Nat
        /\ fsm.simRate \in Nat /\ wall \in Nat
  BY NodeAssumption DEF TypeOK, Machine
<1>2. TargetSim(fsm, wall) \in Int  BY <1>1 DEF TargetSim
<1> QED  BY <1>1, <1>2, NodeAssumption DEF CatchupTicks
-----------------------------------------------------------------------------
(* The node starts unconfigured, with no clock and nobody to wait for.       *)
LEMMA InitInv == Init => IInv
<1> SUFFICES ASSUME Init PROVE IInv  OBVIOUS
<1> USE NodeAssumption DEF Init
<1>1. TypeOK
  <2>1. NewMachine \in Machine
    BY DEF NewMachine, Machine, States, ClockModes, DynModes
  <2>2. param \in [scenario: Scenarios \cup {NoScenario}, rate: Rates \cup {1},
                   runRate: BOOLEAN, clockMode: ClockModes]
    BY DEF ClockModes
  <2>3. clock \in [scenario: Scenarios \cup {NoScenario}, time: Nat]  BY DEF NoClock
  <2>4. unacked \in [Clients -> Nat] /\ due \in Nat /\ wall \in 0..MaxWall  OBVIOUS
  <2> QED  BY <2>1, <2>2, <2>3, <2>4 DEF TypeOK
<1>2. StatesAgree /\ OneClock /\ WithinDue
  BY DEF StatesAgree, OneClock, WithinDue, NewMachine
<1>3. Owed /\ LatchedIsThisRun  BY DEF Owed, LatchedIsThisRun
<1> QED  BY <1>1, <1>2, <1>3 DEF IInv

(* Parameters are stored while no run is configured: no clock follows them yet. *)
LEMMA SetScenarioParametersInv ==
    ASSUME IInv, NEW s \in Scenarios, NEW mode \in ClockModes,
           SetScenarioParameters(s, mode)
    PROVE  IInv'
<1> USE NodeAssumption
    DEF IInv, SetScenarioParameters, runVars, threadVars, topics
<1>1. TypeOK'  BY DEF TypeOK
<1>2. StatesAgree' /\ OneClock'  BY DEF TypeOK, StatesAgree, OneClock
<1>3. WithinDue'  BY DEF TypeOK, StatesAgree, OneClock, WithinDue
<1>4. Owed'  BY DEF TypeOK, Owed
<1>5. LatchedIsThisRun'  BY DEF TypeOK, StatesAgree, OneClock, LatchedIsThisRun
<1> QED  BY <1>1, <1>2, <1>3, <1>4, <1>5

(* A new rate anchors the run at its own time, so no more becomes due at once. *)
LEMMA OnSetParametersInv ==
    ASSUME IInv, NEW rate \in Rates, OnSetParameters(rate) PROVE IInv'
<1> USE NodeAssumption
    DEF IInv, OnSetParameters, runVars, threadVars, topics
<1>a. rate \in Nat /\ wall \in Nat  BY WallAndRate
<1>0. /\ fsm' \in Machine /\ fsm'.state = fsm.state /\ fsm'.scenario = fsm.scenario
      /\ fsm'.simTime = fsm.simTime
      /\ fsm' = fsm \/ (fsm'.anchorWall = wall /\ fsm'.anchorSim = fsm.simTime)
  <2>1. fsm \in Machine /\ fsm' = SetSimRate(fsm, rate, wall)  BY DEF TypeOK
  <2> QED  BY ONLY <1>a, <2>1, SetSimRateLeaves
<1>b. fsm' # fsm => TargetSim(fsm', wall) = fsm.simTime
  BY <1>0, <1>a, TargetAtAnchor DEF TypeOK
<1>1. TypeOK'  BY ZenonT(60), <1>0, <1>b DEF TypeOK
<1>2. StatesAgree' /\ OneClock'  BY <1>0, <1>b DEF TypeOK, StatesAgree, OneClock
<1>3. WithinDue'  BY <1>0, <1>b DEF TypeOK, StatesAgree, OneClock, WithinDue
<1>4. Owed'  BY DEF TypeOK, Owed
<1>5. LatchedIsThisRun'  BY <1>0, <1>b DEF TypeOK, StatesAgree, OneClock, LatchedIsThisRun
<1> QED  BY <1>1, <1>2, <1>3, <1>4, <1>5

(* A run is configured from time zero, at the rate the parameter kept.       *)
LEMMA OnConfigureInv ==
    ASSUME IInv, OnConfigure PROVE IInv'
<1> USE NodeAssumption
    DEF IInv, OnConfigure, runVars, threadVars, topics
<1>a. wall \in Nat /\ param.rate \in Nat  BY WallAndRate
<1>b. PICK m \in Machine :
        /\ m.state = "INACTIVE" /\ m.simTime = 0
        /\ fsm' = IF param.rate # 1 THEN SetSimRate(m, param.rate, wall) ELSE m
  BY ConfigureLeaves DEF TypeOK, StatesAgree
<1>0. fsm' \in Machine /\ fsm'.state = "INACTIVE" /\ fsm'.simTime = 0
  <2>1. CASE param.rate = 1  BY <1>b, <2>1
  <2>2. CASE param.rate # 1
    <3>1. fsm' = SetSimRate(m, param.rate, wall)  BY <1>b, <2>2
    <3>2. m \in Machine /\ m.state = "INACTIVE" /\ m.simTime = 0  BY <1>b
    <3> QED  BY ONLY <1>a, <3>1, <3>2, SetSimRateLeaves
  <2> QED  BY <2>1, <2>2
<1>1. TypeOK'  BY <1>0 DEF TypeOK
<1>2. StatesAgree' /\ OneClock'  BY <1>0 DEF TypeOK, StatesAgree, OneClock
<1>3. WithinDue'  BY <1>0 DEF TypeOK, StatesAgree, OneClock, WithinDue
<1>4. Owed'  BY DEF TypeOK, Owed
<1>5. LatchedIsThisRun'  BY <1>0 DEF TypeOK, StatesAgree, OneClock, LatchedIsThisRun
<1> QED  BY <1>1, <1>2, <1>3, <1>4, <1>5

(* A realtime run goes on from its own time, and says so on both topics.     *)
LEMMA OnActivateRealtimeInv ==
    ASSUME IInv, OnActivateRealtime PROVE IInv'
<1> USE NodeAssumption
    DEF IInv, OnActivateRealtime, Activated, ClockNow, StatusDict, runVars, threadVars, topics
<1>0. /\ fsm' \in Machine /\ fsm'.state = "ACTIVE" /\ fsm'.simTime = fsm.simTime
      /\ fsm'.scenario = fsm.scenario /\ fsm'.anchorWall = wall
      /\ fsm'.anchorSim = fsm.simTime
  BY ActivateLeaves DEF TypeOK, StatesAgree
<1>a. TargetSim(fsm', wall) = fsm.simTime  BY <1>0, TargetAtAnchor DEF TypeOK
<1>1. TypeOK'  BY MachineFields, <1>0, <1>a DEF TypeOK
<1>2. StatesAgree' /\ OneClock'  BY <1>0, <1>a DEF TypeOK, StatesAgree, OneClock
<1>3. WithinDue'  BY <1>0, <1>a DEF TypeOK, StatesAgree, OneClock, WithinDue
<1>4. Owed'  BY DEF TypeOK, Owed
<1>5. LatchedIsThisRun'
  BY MachineFields, <1>0, <1>a DEF TypeOK, StatesAgree, OneClock, LatchedIsThisRun
<1> QED  BY <1>1, <1>2, <1>3, <1>4, <1>5

(* A free run starts its thread first: nobody is connected to it yet.        *)
LEMMA OnActivateStartsThreadInv ==
    ASSUME IInv, OnActivateStartsThread PROVE IInv'
<1> USE NodeAssumption
    DEF IInv, OnActivateStartsThread, runVars, threadVars, topics
<1>1. TypeOK'  BY DEF TypeOK
<1>2. StatesAgree' /\ OneClock'  BY DEF TypeOK, StatesAgree, OneClock
<1>3. WithinDue'  BY DEF TypeOK, StatesAgree, OneClock, WithinDue
<1>4. Owed'  BY DEF TypeOK, OneClock, Owed
<1>5. LatchedIsThisRun'  BY DEF TypeOK, StatesAgree, OneClock, LatchedIsThisRun
<1> QED  BY <1>1, <1>2, <1>3, <1>4, <1>5

(* The machine follows; the thread may already be waiting for its clients.   *)
LEMMA OnActivateFreeRunInv ==
    ASSUME IInv, OnActivateFreeRun PROVE IInv'
<1> USE NodeAssumption
    DEF IInv, OnActivateFreeRun, Activated, ClockNow, StatusDict, runVars, threadVars, topics
<1>0. /\ fsm' \in Machine /\ fsm'.state = "ACTIVE" /\ fsm'.simTime = fsm.simTime
      /\ fsm'.scenario = fsm.scenario /\ fsm'.anchorWall = wall
      /\ fsm'.anchorSim = fsm.simTime
  BY ActivateLeaves DEF TypeOK, StatesAgree
<1>a. TargetSim(fsm', wall) = fsm.simTime  BY <1>0, TargetAtAnchor DEF TypeOK
<1>1. TypeOK'  BY MachineFields, <1>0, <1>a DEF TypeOK
<1>2. StatesAgree' /\ OneClock'  BY <1>0, <1>a DEF TypeOK, StatesAgree, OneClock
<1>3. WithinDue'  BY <1>0, <1>a DEF TypeOK, StatesAgree, OneClock, WithinDue
<1>4. Owed'  BY DEF TypeOK, Owed
<1>5. LatchedIsThisRun'
  BY MachineFields, <1>0, <1>a DEF TypeOK, StatesAgree, OneClock, LatchedIsThisRun
<1> QED  BY <1>1, <1>2, <1>3, <1>4, <1>5

(* The machine stops before the thread: the timer is gone at once.           *)
LEMMA OnDeactivateInv ==
    ASSUME IInv, OnDeactivate PROVE IInv'
<1> USE NodeAssumption
    DEF IInv, OnDeactivate, runVars, threadVars, topics
<1>0. fsm' \in Machine /\ fsm'.state = "INACTIVE" /\ fsm'.simTime = fsm.simTime
  BY StopLeaves DEF TypeOK, StatesAgree
<1>1. TypeOK'  BY <1>0 DEF TypeOK
<1>2. StatesAgree' /\ OneClock'  BY <1>0 DEF TypeOK, StatesAgree, OneClock
<1>3. WithinDue'  BY <1>0 DEF TypeOK, StatesAgree, OneClock, WithinDue
<1>4. Owed'  BY DEF TypeOK, Owed
<1>5. LatchedIsThisRun'  BY <1>0 DEF TypeOK, StatesAgree, OneClock, LatchedIsThisRun
<1> QED  BY <1>1, <1>2, <1>3, <1>4, <1>5

(* Closing the clients leaves nobody who owes an acknowledgement.            *)
LEMMA OnDeactivateStopsThreadInv ==
    ASSUME IInv, OnDeactivateStopsThread PROVE IInv'
<1> USE NodeAssumption
    DEF IInv, OnDeactivateStopsThread, runVars, threadVars, topics
<1>1. TypeOK'  BY DEF TypeOK
<1>2. StatesAgree' /\ OneClock'  BY DEF TypeOK, StatesAgree, OneClock
<1>3. WithinDue'  BY DEF TypeOK, StatesAgree, OneClock, WithinDue
<1>4. Owed'  BY DEF TypeOK, Owed
<1>5. LatchedIsThisRun'  BY DEF TypeOK, StatesAgree, OneClock, LatchedIsThisRun
<1> QED  BY <1>1, <1>2, <1>3, <1>4, <1>5

(* The node becomes inactive only once the thread is gone.                   *)
LEMMA OnDeactivateJoinedInv ==
    ASSUME IInv, OnDeactivateJoined PROVE IInv'
<1> USE NodeAssumption
    DEF IInv, OnDeactivateJoined, runVars, threadVars, topics
<1>1. TypeOK'  BY DEF TypeOK
<1>2. StatesAgree' /\ OneClock'  BY DEF TypeOK, StatesAgree, OneClock
<1>3. WithinDue'  BY DEF TypeOK, StatesAgree, OneClock, WithinDue
<1>4. Owed'  BY DEF TypeOK, Owed
<1>5. LatchedIsThisRun'  BY DEF TypeOK, StatesAgree, OneClock, LatchedIsThisRun
<1> QED  BY <1>1, <1>2, <1>3, <1>4, <1>5

(* Cleaning up forgets the run; its time counts for no other.                *)
LEMMA OnCleanupInv ==
    ASSUME IInv, OnCleanup PROVE IInv'
<1> USE NodeAssumption
    DEF IInv, OnCleanup, runVars, threadVars, topics
<1>0. fsm' \in Machine /\ fsm'.state = "UNCONFIGURED"
  BY StopLeaves DEF TypeOK, StatesAgree
<1>1. TypeOK'  BY <1>0 DEF TypeOK
<1>2. StatesAgree' /\ OneClock'  BY <1>0 DEF TypeOK, StatesAgree, OneClock
<1>3. WithinDue'  BY <1>0 DEF TypeOK, StatesAgree, OneClock, WithinDue
<1>4. Owed'  BY DEF TypeOK, Owed
<1>5. LatchedIsThisRun'  BY <1>0 DEF TypeOK, StatesAgree, OneClock, LatchedIsThisRun
<1> QED  BY <1>1, <1>2, <1>3, <1>4, <1>5

(* The callback catches up with a target that is within what is due.         *)
LEMMA ClockCallbackInv ==
    ASSUME IInv, ClockCallback PROVE IInv'
<1> USE NodeAssumption
    DEF IInv, ClockCallback, ClockNow, runVars, threadVars, topics
<1>0. CatchupTicks \in Nat /\ fsm.simTime + CatchupTicks <= TargetSim(fsm, wall)
  BY CatchupBounded DEF WithinDue
<1> HIDE DEF CatchupTicks
<1>a. /\ fsm' \in Machine /\ fsm'.simTime = fsm.simTime + CatchupTicks
      /\ fsm'.state = fsm.state /\ fsm'.scenario = fsm.scenario
      /\ TargetSim(fsm', wall) = TargetSim(fsm, wall) /\ fsm'.anchorWall = fsm.anchorWall
  BY <1>0 DEF TypeOK, Machine, TargetSim
<1>1. TypeOK'  BY MachineFields, <1>0, <1>a DEF TypeOK
<1>2. StatesAgree' /\ OneClock'  BY <1>0, <1>a DEF TypeOK, StatesAgree, OneClock
<1>b. fsm'.simTime <= due
  <2>1. TargetSim(fsm, wall) <= due  BY DEF WithinDue
  <2>2. PICK t, u \in Int : t = fsm.simTime + CatchupTicks /\ u = TargetSim(fsm, wall)
    BY <1>0, MachineFields, WallAndRate DEF TypeOK, TargetSim
  <2> QED  BY <1>0, <1>a, <2>1, <2>2 DEF TypeOK
<1>3. WithinDue'  BY <1>a, <1>b DEF WithinDue
<1>4. Owed'  BY DEF TypeOK, Owed
<1>5. LatchedIsThisRun'
  BY MachineFields, <1>0, <1>a DEF TypeOK, StatesAgree, OneClock, LatchedIsThisRun
<1> QED  BY <1>1, <1>2, <1>3, <1>4, <1>5

(* The status is of the run that is active.                                  *)
LEMMA StatusCallbackInv ==
    ASSUME IInv, StatusCallback PROVE IInv'
<1> USE NodeAssumption
    DEF IInv, StatusCallback, StatusDict, runVars, threadVars, topics
<1>1. TypeOK'  BY DEF TypeOK
<1>2. StatesAgree' /\ OneClock'  BY DEF TypeOK, StatesAgree, OneClock
<1>3. WithinDue'  BY DEF TypeOK, StatesAgree, OneClock, WithinDue
<1>4. Owed'  BY DEF TypeOK, Owed
<1>5. LatchedIsThisRun'  BY DEF TypeOK, StatesAgree, OneClock, LatchedIsThisRun
<1> QED  BY <1>1, <1>2, <1>3, <1>4, <1>5

(* A wall tick moves the target and what is due by the same rate.            *)
LEMMA WallTickInv ==
    ASSUME IInv, WallTick PROVE IInv'
<1> USE NodeAssumption
    DEF IInv, WallTick, runVars, threadVars, topics
<1>0. TargetSim(fsm, wall') = TargetSim(fsm, wall) + fsm.simRate
  BY TargetGrows DEF TypeOK
<1>a. TargetSim(fsm, wall) \in Int /\ fsm.simRate \in Nat
       /\ fsm.anchorWall \in Nat /\ fsm.simTime \in Nat
  BY DEF TypeOK, Machine, TargetSim
<1>1. TypeOK'  BY <1>0, <1>a DEF TypeOK
<1>2. StatesAgree' /\ OneClock'  BY <1>0, <1>a DEF TypeOK, StatesAgree, OneClock
<1>3. WithinDue'  BY <1>0, <1>a DEF TypeOK, StatesAgree, OneClock, WithinDue
<1>4. Owed'  BY DEF TypeOK, Owed
<1>5. LatchedIsThisRun'  BY <1>0, <1>a DEF TypeOK, StatesAgree, OneClock, LatchedIsThisRun
<1> QED  BY <1>1, <1>2, <1>3, <1>4, <1>5

(* The thread starts with no clients.                                        *)
LEMMA ThreadBindInv ==
    ASSUME IInv, ThreadBind PROVE IInv'
<1> USE NodeAssumption
    DEF IInv, ThreadBind, unchangedByThread, runVars, threadVars, topics
<1>1. TypeOK'  BY ZenonT(60) DEF TypeOK
<1>2. StatesAgree' /\ OneClock'  BY DEF TypeOK, StatesAgree, OneClock
<1>3. WithinDue'  BY DEF TypeOK, StatesAgree, OneClock, WithinDue
<1>4. Owed'  BY DEF TypeOK, Owed
<1>5. LatchedIsThisRun'  BY DEF TypeOK, StatesAgree, OneClock, LatchedIsThisRun
<1> QED  BY <1>1, <1>2, <1>3, <1>4, <1>5

(* A client that connects owes nothing.                                      *)
LEMMA ThreadAcceptInv ==
    ASSUME IInv, NEW c \in Clients, ThreadAccept(c) PROVE IInv'
<1> USE NodeAssumption
    DEF IInv, ThreadAccept, unchangedByThread, runVars, threadVars, topics
<1>1. TypeOK'  BY DEF TypeOK
<1>2. StatesAgree' /\ OneClock'  BY DEF TypeOK, StatesAgree, OneClock
<1>3. WithinDue'  BY DEF TypeOK, StatesAgree, OneClock, WithinDue
<1>4. Owed'  BY DEF TypeOK, Owed
<1>5. LatchedIsThisRun'  BY DEF TypeOK, StatesAgree, OneClock, LatchedIsThisRun
<1> QED  BY <1>1, <1>2, <1>3, <1>4, <1>5

(* The accept loop ends in the step loop or in the end of the thread.        *)
LEMMA ThreadAcceptedInv ==
    ASSUME IInv, ThreadAccepted PROVE IInv'
<1> USE NodeAssumption
    DEF IInv, ThreadAccepted, unchangedByThread, runVars, threadVars, topics
<1>1. TypeOK'  BY DEF TypeOK
<1>2. StatesAgree' /\ OneClock'  BY DEF TypeOK, StatesAgree, OneClock
<1>3. WithinDue'  BY DEF TypeOK, StatesAgree, OneClock, WithinDue
<1>4. Owed'  BY DEF TypeOK, Owed
<1>5. LatchedIsThisRun'  BY DEF TypeOK, StatesAgree, OneClock, LatchedIsThisRun
<1> QED  BY <1>1, <1>2, <1>3, <1>4, <1>5

(* A step ticks the machine and the clock together; a stopped machine does not move. *)
LEMMA ThreadStepInv ==
    ASSUME IInv, ThreadStep PROVE IInv'
<1> USE NodeAssumption
    DEF IInv, ThreadStep, LoopLeft, ClockNow, unchangedByThread, runVars, threadVars, topics
<1>0. /\ fsm' \in Machine /\ fsm'.state = fsm.state /\ fsm'.scenario = fsm.scenario
      /\ fsm.simTime <= fsm'.simTime
  BY TickLeaves DEF TypeOK, Machine
<1>1. TypeOK'  BY MachineFields, <1>0 DEF TypeOK
<1>2. StatesAgree' /\ OneClock'  BY <1>0 DEF TypeOK, StatesAgree, OneClock
<1>3. WithinDue'  BY <1>0 DEF TypeOK, StatesAgree, OneClock, WithinDue
<1>4. Owed'  BY DEF TypeOK, Owed
<1>5. LatchedIsThisRun'  BY MachineFields, <1>0 DEF TypeOK, StatesAgree, OneClock, LatchedIsThisRun
<1> QED  BY <1>1, <1>2, <1>3, <1>4, <1>5

(* A STEP is sent when every client owes nothing, so each owes one.          *)
LEMMA ThreadSendInv ==
    ASSUME IInv, ThreadSend PROVE IInv'
<1> USE NodeAssumption
    DEF IInv, ThreadSend, LoopLeft, unchangedByThread, runVars, threadVars, topics
<1>1. TypeOK'  BY DEF TypeOK
<1>2. StatesAgree' /\ OneClock'  BY DEF TypeOK, StatesAgree, OneClock
<1>3. WithinDue'  BY DEF TypeOK, StatesAgree, OneClock, WithinDue
<1>4. Owed'  BY DEF TypeOK, Owed
<1>5. LatchedIsThisRun'  BY DEF TypeOK, StatesAgree, OneClock, LatchedIsThisRun
<1> QED  BY <1>1, <1>2, <1>3, <1>4, <1>5

(* The thread steps again when nobody owes an acknowledgement.               *)
LEMMA ThreadAckedInv ==
    ASSUME IInv, ThreadAcked PROVE IInv'
<1> USE NodeAssumption
    DEF IInv, ThreadAcked, LoopLeft, unchangedByThread, runVars, threadVars, topics
<1>1. TypeOK'  BY DEF TypeOK
<1>2. StatesAgree' /\ OneClock'  BY DEF TypeOK, StatesAgree, OneClock
<1>3. WithinDue'  BY DEF TypeOK, StatesAgree, OneClock, WithinDue
<1>4. Owed'  BY DEF TypeOK, Owed
<1>5. LatchedIsThisRun'  BY DEF TypeOK, StatesAgree, OneClock, LatchedIsThisRun
<1> QED  BY <1>1, <1>2, <1>3, <1>4, <1>5

(* An acknowledgement settles one STEP.                                      *)
LEMMA ClientAckInv ==
    ASSUME IInv, NEW c \in Clients, ClientAck(c) PROVE IInv'
<1> USE NodeAssumption
    DEF IInv, ClientAck, unchangedByThread, runVars, threadVars, topics
<1>1. TypeOK'  BY DEF TypeOK
<1>2. StatesAgree' /\ OneClock'  BY DEF TypeOK, StatesAgree, OneClock
<1>3. WithinDue'  BY DEF TypeOK, StatesAgree, OneClock, WithinDue
<1>4. Owed'  BY DEF TypeOK, Owed
<1>5. LatchedIsThisRun'  BY DEF TypeOK, StatesAgree, OneClock, LatchedIsThisRun
<1> QED  BY <1>1, <1>2, <1>3, <1>4, <1>5
-----------------------------------------------------------------------------
(* The invariant is inductive.                                               *)
LEMMA NextInv == ASSUME IInv, [Next]_vars PROVE IInv'
<1>1. CASE Callbacks
  BY <1>1, OnConfigureInv, OnActivateRealtimeInv, OnActivateStartsThreadInv,
     OnActivateFreeRunInv, OnDeactivateInv, OnDeactivateStopsThreadInv,
     OnDeactivateJoinedInv, OnCleanupInv, ClockCallbackInv, StatusCallbackInv
  DEF Callbacks
<1>2. CASE Thread
  BY <1>2, ThreadBindInv, ThreadAcceptInv, ThreadAcceptedInv, ThreadStepInv, ThreadSendInv,
     ThreadAckedInv
  DEF Thread
<1>3. CASE UNCHANGED vars
  BY <1>3 DEF IInv, TypeOK, StatesAgree, OneClock, WithinDue, Owed, LatchedIsThisRun, vars,
              runVars, threadVars, topics
<1> QED
  BY <1>1, <1>2, <1>3, SetScenarioParametersInv, OnSetParametersInv, WallTickInv, ClientAckInv
  DEF Next

(* The inductive invariant holds in every state of the node.                 *)
LEMMA InvAlways == Spec => []IInv
<1>1. Init => IInv  BY InitInv
<1>2. IInv /\ [Next]_vars => IInv'  BY NextInv
<1> QED  BY <1>1, <1>2, PTL DEF Spec

(* NeverAheadOfWall: with any rates, in any order of rate changes, stops and *)
(* resumes, a realtime run never has more simulated time than the wall clock *)
(* has allowed it.  The anchors carry it: WithinDue bounds the target that    *)
(* _clock_callback catches up with, not only the time it has reached.        *)
THEOREM ClockWithinWall == Spec => []NeverAheadOfWall
<1>1. IInv => NeverAheadOfWall
  BY DEF IInv, OneClock, WithinDue, NeverAheadOfWall
<1> QED  BY <1>1, InvAlways, PTL

(* RunIsTogether: for any number of clients, none is sent a second STEP      *)
(* before it has acknowledged the first, no step is taken while one owes an  *)
(* acknowledgement, and the latched clock and status are of the active run.  *)
THEOREM RunStaysTogether == Spec => []RunIsTogether
<1>1. IInv => RunIsTogether
  BY DEF IInv, TypeOK, Owed, RunIsTogether, Lockstep
<1> QED  BY <1>1, InvAlways, PTL

(* Between two activations the thread is gone and no action reaches the      *)
(* clock topic: only an activation, a timer of an active run and the thread  *)
(* publish on it.                                                            *)
LEMMA StoppedStep ==
    ASSUME IInv, [Next]_vars, ros # "active", executor = "spin",
           executor' = "spin", ros' # "active"
    PROVE  clock' = clock /\ thread' = "none"
<1>1. thread = "none" /\ ~timers  BY DEF IInv, OneClock
<1> USE <1>1 DEF vars, runVars, threadVars, topics, unchangedByThread
<1>2. CASE Callbacks
  BY <1>2 DEF Callbacks, OnConfigure, OnActivateRealtime, OnActivateStartsThread,
      OnActivateFreeRun, OnDeactivate, OnDeactivateStopsThread, OnDeactivateJoined, OnCleanup,
      ClockCallback, StatusCallback
<1>3. CASE Thread
  BY <1>3 DEF Thread, ThreadBind, ThreadAccept, ThreadAccepted, ThreadStep, ThreadSend,
      ThreadAcked
<1> QED
  BY <1>2, <1>3 DEF Next, SetScenarioParameters, OnSetParameters, WallTick, ClientAck

(* StoppedClockStays: once on_deactivate has returned, nothing moves the     *)
(* clock until the next activation, because the thread has been joined and   *)
(* not only told to stop.                                                    *)
THEOREM StoppedStays == Spec => StoppedClockStays
<1>1. IInv /\ [Next]_vars =>
        [ros # "active" /\ executor = "spin" /\ executor' = "spin" /\ ros' # "active"
            => clock' = clock /\ thread' = "none"]_vars
  BY StoppedStep
<1> QED  BY <1>1, InvAlways, PTL DEF Spec, StoppedClockStays
=============================================================================
