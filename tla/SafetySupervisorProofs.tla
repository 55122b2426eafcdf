------------------------ MODULE SafetySupervisorProofs ------------------------
(***************************************************************************)
(* The safety properties of the M7 node, for every set of monitored         *)
(* modules, every timeout, tolerance and threshold and every set of         *)
(* messages; and of the window it counts vetoes in: the ring of the last    *)
(* kCapacity samples counts its events and implements RecentEvents, for     *)
(* every capacity.                                                          *)
(***************************************************************************)
EXTENDS SafetySupervisor, Sequences, FiniteSetTheorems, FunctionTheorems, TLAPS

(* The window.                                                              *)

WInv == WindowType /\ HeadAtSize /\ TotalIsCount

(* The events in the ring are finitely many.                                 *)
LEMMA LiveFinite == ASSUME WindowType PROVE IsFiniteSet(Live) /\ Cardinality(Live) \in Nat
<1>1. size - 1 \in Int  BY DEF WindowType
<1>2. IsFiniteSet(0..(size - 1))  BY <1>1, FS_Interval
<1>3. Live \subseteq 0..(size - 1)  BY DEF Live
<1> QED  BY <1>2, <1>3, FS_Subset, FS_CardinalityType

(* The slot a push writes is a slot of the ring.                             *)
LEMMA SlotType ==
    ASSUME WindowType, HeadAtSize, NEW slot,
           slot = IF size = kCapacity /\ head = kCapacity THEN 0 ELSE head
    PROVE  slot \in Slots
BY CapacityAssumption DEF WindowType, HeadAtSize, Slots

(* A push keeps the running total in step with the events in the ring.       *)
LEMMA PushInv ==
    ASSUME WInv, NEW event \in BOOLEAN, Push(event)
    PROVE  WInv'
<1> DEFINE full == size = kCapacity
           slot == IF full /\ head = kCapacity THEN 0 ELSE head
           gone == IF full THEN Live \ {slot} ELSE Live
<1>1. slot \in Slots  BY SlotType DEF WInv
<1>2. /\ buffer' = [buffer EXCEPT ![slot] = event]
      /\ head' = slot + 1
      /\ size' = IF full THEN size ELSE size + 1
      /\ running_total' = running_total + (IF event THEN 1 ELSE 0)
                                        - (IF full /\ buffer[slot] THEN 1 ELSE 0)
  BY DEF Push
<1> HIDE DEF slot
<1>3. WindowType'
  BY <1>1, <1>2, CapacityAssumption DEF WInv, WindowType, Slots
<1>4. HeadAtSize'
  BY <1>2, CapacityAssumption DEF WInv, WindowType, HeadAtSize, slot
<1>5. ~full => slot = size
  BY CapacityAssumption DEF WInv, HeadAtSize, WindowType, slot
<1>6. slot \notin gone
  BY <1>5 DEF Live, WInv, WindowType
<1>7. Live' = IF event THEN gone \cup {slot} ELSE gone
  <2>1. Live' = {i \in 0..(size' - 1) : buffer'[i]}  BY DEF Live
  <2>2. \A i \in Slots : buffer'[i] = IF i = slot THEN event ELSE buffer[i]
    BY <1>1, <1>2 DEF WInv, WindowType
  <2>3. 0..(size' - 1) = 0..(size - 1) \cup {slot}
    BY <1>1, <1>2, <1>5, CapacityAssumption DEF WInv, WindowType, Slots
  <2>4. 0..(size' - 1) \subseteq Slots
    <3>1. size' \in 0..kCapacity  BY <1>3 DEF WindowType
    <3>2. \A n \in 0..kCapacity : 0..(n - 1) \subseteq Slots
      BY CapacityAssumption DEF Slots
    <3> QED  BY <3>1, <3>2
  <2>5. \A i : i \in gone <=> i \in 0..(size - 1) /\ buffer[i] /\ i # slot
    BY <1>5, <1>6 DEF Live
  <2> QED  BY <2>1, <2>2, <2>3, <2>4, <2>5
<1>8. IsFiniteSet(Live) /\ Cardinality(Live) \in Nat
  BY LiveFinite DEF WInv
<1>9. /\ IsFiniteSet(gone)
      /\ Cardinality(gone) = Cardinality(Live) - (IF full /\ buffer[slot] THEN 1 ELSE 0)
  <2>1. CASE ~full  BY <2>1, <1>8
  <2>2. CASE full
    <3>1. slot \in Live <=> buffer[slot]
      BY <2>2, <1>1 DEF Live, Slots
    <3> QED  BY <2>2, <3>1, <1>8, FS_RemoveElement
  <2> QED  BY <2>1, <2>2
<1>10. Cardinality(Live') = Cardinality(gone) + (IF event THEN 1 ELSE 0)
  <2>1. Cardinality(gone) \in Nat  BY <1>9, FS_CardinalityType
  <2>2. Cardinality(gone \cup {slot}) = Cardinality(gone) + 1
    BY <1>6, <1>9, FS_AddElement
  <2> QED  BY <1>7, <2>1, <2>2
<1>11. TotalIsCount'
  <2>1. running_total = Cardinality(Live)  BY DEF WInv, TotalIsCount
  <2>2. running_total' = Cardinality(Live')
    BY <1>2, <1>8, <1>9, <1>10, <2>1
  <2> QED  BY <2>2 DEF TotalIsCount
<1> QED  BY <1>3, <1>4, <1>11 DEF WInv

(* Every operation of the window keeps the invariant.                        *)
LEMMA WindowStep == WInv /\ [WindowNext]_window => WInv'
<1> SUFFICES ASSUME WInv, [WindowNext]_window PROVE WInv'  OBVIOUS
<1>1. CASE Reset
  <2>1. WindowType' /\ HeadAtSize'
    BY <1>1, CapacityAssumption DEF Reset, WInv, WindowType, HeadAtSize
  <2>2. Live' = {}
    BY <1>1 DEF Reset, Live
  <2>3. TotalIsCount'
    BY <1>1, <2>2, FS_EmptySet DEF Reset, TotalIsCount
  <2> QED  BY <2>1, <2>3 DEF WInv
<1>2. ASSUME NEW event \in BOOLEAN, Push(event) PROVE WInv'
  BY <1>2, PushInv
<1>3. CASE UNCHANGED window
  BY <1>3 DEF window, WInv, WindowType, HeadAtSize, TotalIsCount, Live
<1> QED  BY <1>1, <1>2, <1>3 DEF WindowNext

(* The empty window meets the invariant.                                     *)
LEMMA WindowStart == WindowInit => WInv
<1> SUFFICES ASSUME WindowInit PROVE WInv  OBVIOUS
<1>1. WindowType /\ HeadAtSize
  BY CapacityAssumption DEF WindowInit, WindowType, HeadAtSize, Slots
<1>2. Live = {}  BY DEF WindowInit, Live
<1> QED  BY <1>1, <1>2, FS_EmptySet DEF WInv, WindowInit, TotalIsCount

(* For every capacity and every sequence of pushes and resets the running    *)
(* total is the number of events in the ring.                                *)
THEOREM TotalCorrect == WindowSpec => []TotalIsCount
<1>1. WInv => TotalIsCount  BY DEF WInv
<1> QED  BY WindowStart, WindowStep, <1>1, PTL DEF WindowSpec
-----------------------------------------------------------------------------

(* The mapping from positions of the sample sequence to slots is one to one  *)
(* and onto the slots in use.                                                *)
LEMMA SlotOfBijection ==
    ASSUME WindowType, HeadAtSize
    PROVE  /\ \A i \in 1..size : SlotOf(i) \in 0..(size - 1)
           /\ \A i, j \in 1..size : SlotOf(i) = SlotOf(j) => i = j
           /\ \A k \in 0..(size - 1) : \E i \in 1..size : SlotOf(i) = k
<1> USE CapacityAssumption
<1>1. \A i \in 1..size : SlotOf(i) \in 0..(size - 1)
  BY DEF WindowType, HeadAtSize, SlotOf, Oldest
<1>2. \A i, j \in 1..size : SlotOf(i) = SlotOf(j) => i = j
  BY DEF WindowType, HeadAtSize, SlotOf, Oldest
<1>3. ASSUME NEW k \in 0..(size - 1) PROVE \E i \in 1..size : SlotOf(i) = k
  <2> DEFINE i == IF k >= Oldest THEN k - Oldest + 1 ELSE k - Oldest + 1 + kCapacity
  <2>1. Oldest \in 0..kCapacity /\ (size < kCapacity => Oldest = 0)
    BY DEF WindowType, Oldest
  <2>2. i \in 1..size  BY <2>1 DEF WindowType
  <2>3. SlotOf(i) = k  BY <2>1, <2>2 DEF WindowType, SlotOf
  <2> QED  BY <2>2, <2>3
<1> QED  BY <1>1, <1>2, <1>3

(* So the sequence holds as many events as the ring.                         *)
LEMMA SamplesCount == WInv => Abstract!EventsIn(Samples) = running_total
<1> SUFFICES ASSUME WInv PROVE Abstract!EventsIn(Samples) = running_total  OBVIOUS
<1> DEFINE E == {i \in DOMAIN Samples : Samples[i]}
           F == [i \in E |-> SlotOf(i)]
<1>1. E = {i \in 1..size : buffer[SlotOf(i)]}
  BY DEF Samples
<1>2. F \in Bijection(E, Live)
  <2>1. F \in [E -> Live]
    BY <1>1, SlotOfBijection DEF WInv, Live
  <2>2. \A i, j \in E : F[i] = F[j] => i = j
    BY <1>1, SlotOfBijection DEF WInv
  <2>3. \A k \in Live : \E i \in E : F[i] = k
    BY <1>1, SlotOfBijection DEF WInv, Live
  <2> HIDE DEF E, F
  <2> QED  BY <2>1, <2>2, <2>3 DEF Bijection, Injection, Surjection, IsInjective
<1>3. IsFiniteSet(E)
  <2>1. size \in Int  BY DEF WInv, WindowType
  <2>2. IsFiniteSet(1..size)  BY <2>1, FS_Interval
  <2>3. E \subseteq 1..size  BY <1>1
  <2> QED  BY <2>2, <2>3, FS_Subset
<1>4. Cardinality(E) = Cardinality(Live)
  BY <1>2, <1>3, FS_Bijection DEF ExistsBijection
<1>5. Abstract!Cardinality(E) = Cardinality(E)
  BY DEF Cardinality, Abstract!Cardinality
<1> QED  BY <1>4, <1>5 DEF Abstract!EventsIn, WInv, TotalIsCount

(* A push appends to the sequence, dropping its head when the ring is full.  *)
LEMMA PushImplements ==
    ASSUME WInv, WInv', NEW event \in BOOLEAN, Push(event)
    PROVE  Abstract!Sample(event)
<1> DEFINE kept == IF Len(Samples) < kCapacity THEN Samples ELSE Tail(Samples)
           slot == IF size = kCapacity /\ head = kCapacity THEN 0 ELSE head
<1> USE CapacityAssumption
<1>1. /\ buffer' = [buffer EXCEPT ![slot] = event]
      /\ head' = slot + 1
      /\ size' = IF size = kCapacity THEN size ELSE size + 1
  BY DEF Push
<1>2. slot \in Slots  BY SlotType DEF WInv
<1>3. Samples \in Seq(BOOLEAN) /\ Len(Samples) = size
  <2>1. \A i \in 1..size : buffer[SlotOf(i)] \in BOOLEAN
    BY SlotOfBijection DEF WInv, WindowType, Slots
  <2> QED  BY <2>1 DEF Samples, WInv, WindowType
<1>4. Samples' = Append(kept, event)
  <2>1. CASE size < kCapacity
    BY <1>1, <1>2, <1>3, <2>1
       DEF Samples, SlotOf, Oldest, WInv, WindowType, HeadAtSize, Slots
  <2>2. CASE size = kCapacity
    <3> DEFINE next(i) == IF i < kCapacity THEN Samples[i + 1] ELSE event
    <3>1. Append(kept, event) = [i \in 1..kCapacity |-> next(i)]
      BY <1>3, <2>2
    <3>2. \A i \in 1..kCapacity :
              SlotOf(i)' = IF i < kCapacity THEN SlotOf(i + 1) ELSE slot
      BY <1>1, <2>2 DEF SlotOf, Oldest, WInv, WindowType
    <3>3. \A i \in 1..kCapacity : i < kCapacity => SlotOf(i + 1) \in Slots \ {slot}
      BY <2>2 DEF SlotOf, Oldest, WInv, WindowType, Slots
    <3>4. \A i \in 1..kCapacity : buffer'[SlotOf(i)'] = next(i)
      <4> SUFFICES ASSUME NEW i \in 1..kCapacity PROVE buffer'[SlotOf(i)'] = next(i)
        OBVIOUS
      <4>1. CASE i < kCapacity
        <5>1. Samples[i + 1] = buffer[SlotOf(i + 1)]  BY <4>1, <2>2 DEF Samples
        <5>2. SlotOf(i + 1) \in Slots \ {slot}  BY <4>1, <3>3
        <5>3. SlotOf(i)' = SlotOf(i + 1)  BY <4>1, <3>2
        <5> HIDE DEF slot
        <5> QED  BY <4>1, <5>1, <5>2, <5>3, <1>1 DEF WInv, WindowType
      <4>2. CASE i = kCapacity
        BY <4>2, <3>2, <1>1, <1>2 DEF WInv, WindowType
      <4> QED  BY <4>1, <4>2
    <3>5. Samples' = [i \in 1..kCapacity |-> buffer'[SlotOf(i)']]
      BY <1>1, <2>2 DEF Samples
    <3> HIDE DEF next, kept
    <3> QED  BY <3>1, <3>4, <3>5
  <2> QED  BY <2>1, <2>2 DEF WInv, WindowType
<1>5. (Abstract!EventsIn(Samples) = running_total)'
  BY SamplesCount, PTL
<1> QED  BY <1>4, <1>5 DEF Abstract!Sample

(* Clearing the ring clears the sequence, although the samples stay behind.  *)
LEMMA WindowRefinesStep ==
    WInv /\ WInv' /\ [WindowNext]_window
        => [Abstract!Next]_<<Samples, running_total>>
<1> SUFFICES ASSUME WInv, WInv', [WindowNext]_window
             PROVE  [Abstract!Next]_<<Samples, running_total>>
  OBVIOUS
<1>1. CASE Reset
  <2>1. Samples' = << >>  BY <1>1 DEF Reset, Samples
  <2> QED  BY <1>1, <2>1 DEF Reset, Abstract!Next, Abstract!Clear
<1>2. ASSUME NEW event \in BOOLEAN, Push(event) PROVE Abstract!Next
  BY <1>2, PushImplements DEF Abstract!Next
<1>3. CASE UNCHANGED window
  BY <1>3 DEF window, Samples, SlotOf, Oldest
<1> QED  BY <1>1, <1>2, <1>3 DEF WindowNext

(* For every capacity the ring implements a memory of the last kCapacity     *)
(* samples and of the number of events among them.                           *)
THEOREM WindowCorrect == WindowSpec => WindowImplements
<1>1. WindowInit => Abstract!Init
  BY DEF WindowInit, Abstract!Init, Samples
<1> QED
  BY <1>1, WindowStart, WindowStep, WindowRefinesStep, PTL
     DEF WindowSpec, WindowImplements, Abstract!Spec
-----------------------------------------------------------------------------
(* The node.                                                                *)

WatchType(w) == w \in [Modules -> Watch]
Silence(w)   == \A m \in Modules : w[m].loss > 0 => Overdue(w, m)

(* Receiving, waiting and evaluating keep the watchdog's record well-formed,  *)
(* and evaluating keeps losses to overdue modules.                            *)
LEMMA ReceiveWatch ==
    ASSUME NEW w, NEW m, WatchType(w), Silence(w)
    PROVE  WatchType(OnMessageReceived(w, m)) /\ Silence(OnMessageReceived(w, m))
BY WatchdogAssumption DEF WatchType, Silence, Watch, OnMessageReceived, Overdue

(* Waiting makes no overdue module timely, so a recorded loss stays          *)
(* justified.                                                                *)
LEMMA WaitWatch ==
    ASSUME NEW w, WatchType(w), Silence(w)
    PROVE  WatchType(Waited(w)) /\ Silence(Waited(w))
BY WatchdogAssumption DEF WatchType, Silence, Watch, Waited, Overdue

(* evaluate() leaves losses only with the modules it found overdue.          *)
LEMMA EvaluateWatch ==
    ASSUME NEW w, WatchType(w)
    PROVE  WatchType(Evaluate(w)) /\ Silence(Evaluate(w))
BY WatchdogAssumption DEF WatchType, Silence, Watch, Evaluate, Overdue

(* The operations of the assumption monitor keep its counters in range.      *)
LEMMA MonitorRanges ==
    ASSUME NEW bound \in Nat, NEW n \in Untracked..bound, NEW low \in BOOLEAN
    PROVE  /\ Later(bound, n) \in Untracked..bound
           /\ Tracked(low, n) \in Untracked..bound
           /\ n # Untracked => UpTo(bound, n + 1) \in 0..bound
BY DEF Later, Tracked, UpTo, Untracked

(* The timers of the two confidence checks stay within their thresholds.     *)
LEMMA WaitMonitor ==
    ASSUME NEW a \in Monitor PROVE MonitorWaited(a) \in Monitor
<1>1. /\ Later(AisDuration, a.aisLow) \in Untracked..AisDuration
      /\ Later(MotionWindow, a.motionLow) \in Untracked..MotionWindow
  BY AssumptionConfig, MonitorRanges DEF Monitor
<1> QED  BY <1>1 DEF Monitor, MonitorWaited

(* check_nlp_convergence, a failed tail gate included, keeps the count of    *)
(* failures within its threshold.                                            *)
LEMMA NlpMonitor ==
    ASSUME NEW a \in Monitor, NEW nlp PROVE CheckNlpConvergence(a, nlp) \in Monitor
<1> DEFINE fails == IF nlp = "converged" THEN 0
                    ELSE IF nlp = "tail_gate" THEN NlpFailures
                    ELSE UpTo(NlpFailures, a.nlpFails + 1)
<1>1. a.nlpFails \in 0..NlpFailures  BY DEF Monitor
<1>2. fails \in 0..NlpFailures  BY <1>1, AssumptionConfig DEF UpTo
<1>3. CheckNlpConvergence(a, nlp) =
        [a EXCEPT !.nlpFails = fails, !.nlpActive = fails >= NlpFailures]
  BY DEF CheckNlpConvergence
<1> HIDE DEF fails
<1>4. (fails >= NlpFailures) \in BOOLEAN  BY <1>2, AssumptionConfig
<1> QED  BY <1>2, <1>3, <1>4 DEF Monitor

(* An evaluation of the assumptions keeps every timer and count in range.    *)
LEMMA EvaluateMonitorType ==
    ASSUME NEW a \in Monitor, NEW c, NEW s PROVE EvaluateMonitor(a, c, s) \in Monitor
<1>1. /\ CheckAisRadar(a, c) \in Untracked..AisDuration
      /\ CheckMotionPredictability(a, c) \in Untracked..MotionWindow
  BY AssumptionConfig, MonitorRanges DEF Monitor, CheckAisRadar, CheckMotionPredictability
<1>2. CheckColregsSolvability(a, s) \in 0..ColregsFailures
  <2>1. a.colregsFails \in 0..ColregsFailures  BY DEF Monitor
  <2> QED  BY <2>1, AssumptionConfig DEF CheckColregsSolvability, UpTo
<1> QED  BY <1>1, <1>2 DEF Monitor, EvaluateMonitor

(* What the monitors count are natural numbers.                              *)
LEMMA CriticalCount ==
    ASSUME NEW w PROVE Cardinality(CriticalModules(w)) \in Nat
<1>1. CriticalModules(w) \subseteq Modules  BY DEF CriticalModules
<1> QED  BY <1>1, WatchdogAssumption, FS_Subset, FS_CardinalityType

(* The number of violated assumptions is a number: MrmSelector compares it.  *)
LEMMA ViolationCount ==
    ASSUME NEW a, NEW covered, NEW vetoed PROVE Violations(a, covered, vetoed) \in Nat
<1> DEFINE S == {"ais", "motion", "coverage", "colregs", "veto", "nlp"}
<1>1. IsFiniteSet(S)
  <2>1. IsFiniteSet({"ais"})  BY FS_Singleton
  <2>2. IsFiniteSet({"ais"} \cup {"motion"})  BY <2>1, FS_AddElement
  <2>3. IsFiniteSet({"ais"} \cup {"motion"} \cup {"coverage"})  BY <2>2, FS_AddElement
  <2>4. IsFiniteSet({"ais"} \cup {"motion"} \cup {"coverage"} \cup {"colregs"})
    BY <2>3, FS_AddElement
  <2>5. IsFiniteSet({"ais"} \cup {"motion"} \cup {"coverage"} \cup {"colregs"} \cup {"veto"})
    BY <2>4, FS_AddElement
  <2>6. IsFiniteSet({"ais"} \cup {"motion"} \cup {"coverage"} \cup {"colregs"} \cup {"veto"}
                      \cup {"nlp"})
    BY <2>5, FS_AddElement
  <2>7. S = {"ais"} \cup {"motion"} \cup {"coverage"} \cup {"colregs"} \cup {"veto"}
                      \cup {"nlp"}
    OBVIOUS
  <2> QED  BY <2>6, <2>7
<1> DEFINE V == {x \in S : \/ x = "ais"      /\ a.aisLow >= AisDuration
                           \/ x = "motion"   /\ a.motionLow >= MotionWindow
                           \/ x = "coverage" /\ ~covered
                           \/ x = "colregs"  /\ a.colregsFails >= ColregsFailures
                           \/ x = "veto"     /\ vetoed
                           \/ x = "nlp"      /\ a.nlpActive}
<1>2. V \subseteq S  OBVIOUS
<1>3. Violations(a, covered, vetoed) = Cardinality(V)  BY DEF Violations
<1> HIDE DEF S, V
<1> QED  BY <1>1, <1>2, <1>3, FS_Subset, FS_CardinalityType

(* Anything the arbitrator calls severe makes the selector's table name a     *)
(* manoeuvre, and the lockout only ever replaces it by another one.          *)
LEMMA SevereSelects ==
    ASSUME NEW ctx, ctx.violations \in Nat, ctx.critical \in Nat, NEW harbour,
           NEW fault, NEW mrm, Arbitrate(ctx, fault, mrm).severity \in Severe
    PROVE  RawSelect(ctx, harbour) # "None" /\ Arbitrate(ctx, fault, mrm).mrm = mrm
<1>1. /\ ctx.critical >= 1 \/ ctx.violations >= 2
      /\ Arbitrate(ctx, fault, mrm).mrm = mrm
  BY DEF Arbitrate, CollectCandidates, CollectIec61508Candidates, CollectSotifCandidates,
         CollectPerfCandidates, ExtremeScenario, Severe, NoAlert
<1> QED  BY <1>1 DEF RawSelect, RawSelectWatchdog

(* The lockout never withholds the only manoeuvre: select() asked for one    *)
(* has one.                                                                  *)
LEMMA SelectNames ==
    ASSUME NEW s, NEW c, c # "None" PROVE Select(s, c).last # "None"
BY DEF Select

(* The hard-constraint path names a manoeuvre with every severe alert.       *)
LEMMA HardNames ==
    ASSUME NEW w, NEW c, NEW p, NEW n
    PROVE  /\ HardConstraintAlert(w, c, p, n) \in Alert
           /\ HardConstraintAlert(w, c, p, n).severity \in Severe =>
                 HardConstraintAlert(w, c, p, n).mrm # "None"
BY DEF HardConstraintAlert, Alert, Severity, Severe, NoAlert, MrmId

(* select() and the passing of time keep the selector's state well formed.   *)
LEMMA SelectorType ==
    ASSUME NEW s \in [last : MrmId, since : 0..Lockout], NEW c \in MrmId
    PROVE  /\ SelectorWaited(s) \in [last : MrmId, since : 0..Lockout]
           /\ Select(s, c) \in [last : MrmId, since : 0..Lockout]
BY LockoutAssumption DEF SelectorWaited, Select

(* The decision table only answers with manoeuvres.                          *)
LEMMA RawSelectType ==
    ASSUME NEW ctx, NEW harbour PROVE RawSelect(ctx, harbour) \in MrmId
BY DEF RawSelect, RawSelectWatchdog, MrmId

(* The arbitrator's answer is an alert.                                      *)
LEMMA ArbitrateType ==
    ASSUME NEW ctx, NEW fault, NEW mrm \in MrmId PROVE Arbitrate(ctx, fault, mrm) \in Alert
BY DEF Arbitrate, Alert, Severity, Severe, NoAlert, MrmId
-----------------------------------------------------------------------------

\* Inductive: LossMeansSilence needs the ages in range, CriticalNamesMrm the types of
\* selector and monitors; WInv is the window's invariant, proved above.
IInv == TypeOK /\ WInv /\ LossMeansSilence /\ CriticalNamesMrm

(* The node starts with the invariant: an empty window, nothing heard, no    *)
(* alert.                                                                    *)
LEMMA IInvInit == Init => IInv
<1> SUFFICES ASSUME Init PROVE IInv  OBVIOUS
<1>1. WInv
  <2>1. WindowType /\ HeadAtSize
    BY CapacityAssumption DEF Init, WindowInit, WindowType, HeadAtSize, Slots
  <2>2. Live = {}  BY DEF Init, WindowInit, Live
  <2> QED  BY <2>1, <2>2, FS_EmptySet DEF Init, WindowInit, WInv, TotalIsCount
<1>2. wd \in [Modules -> Watch] /\ LossMeansSilence
  BY WatchdogAssumption DEF Init, Unwatched, Watch, LossMeansSilence
<1>3. am \in Monitor
  BY AssumptionConfig DEF Init, MonitorReset, Monitor, Untracked
<1>4. sel \in [last : MrmId, since : 0..Lockout]
  BY LockoutAssumption DEF Init, SelectorReset, MrmId
<1>5. /\ odd \in OddState /\ world \in WorldState /\ colregs \in COLREGsConstraint
      /\ plan \in AvoidancePlan
  BY DEF Init, OddState, WorldState, COLREGsConstraint, AvoidancePlan
<1>6. alert \in Alert /\ CriticalNamesMrm
  BY DEF Init, NoAlert, Alert, Severity, Severe, MrmId, CriticalNamesMrm
<1>7. /\ degrading \in BOOLEAN /\ veto_occurred_this_cycle \in BOOLEAN
      /\ override_active \in BOOLEAN /\ reflex_freeze_required \in BOOLEAN
      /\ resume \in ResumeState
  BY DEF Init, ResumeState
<1> QED  BY <1>1, <1>2, <1>3, <1>4, <1>5, <1>6, <1>7 DEF IInv, TypeOK, WInv

\* What a step has to establish of the watchdog and of the alert.
WatchInv == wd \in [Modules -> Watch] /\ LossMeansSilence
AlertInv == alert \in Alert /\ CriticalNamesMrm

(* The two forms of the watchdog's part of the invariant agree.              *)
LEMMA WatchInvIs == (WatchInv <=> WatchType(wd) /\ Silence(wd))
                    /\ (WatchInv' <=> WatchType(wd') /\ Silence(wd'))
BY DEF WatchInv, WatchType, Silence, LossMeansSilence, Overdue

(* A step that publishes nothing keeps the alert's part of the invariant.    *)
LEMMA NoAlertInv == alert' = NoAlert => AlertInv'
BY DEF AlertInv, NoAlert, Alert, Severity, Severe, MrmId, CriticalNamesMrm

(* A message of a module leaves a well-formed watchdog with losses only of    *)
(* overdue modules.                                                           *)
LEMMA HeardInv == ASSUME WatchInv, NEW m, wd' = OnMessageReceived(wd, m) PROVE WatchInv'
BY WatchInvIs, ReceiveWatch

(* A step that leaves the veto window alone keeps its part of the invariant. *)
LEMMA WindowKept == WInv /\ UNCHANGED window => WInv'
BY DEF WInv, WindowType, HeadAtSize, TotalIsCount, Live, window

(* An avoidance plan: the nlp check and, unless suspended, the hard           *)
(* constraints.                                                               *)
LEMMA PlanInv ==
    ASSUME IInv, NEW msg \in AvoidancePlan, OnAvoidancePlan(msg)
    PROVE  WatchInv' /\ AlertInv' /\ am' \in Monitor
<1> DEFINE heard == OnMessageReceived(wd, "M5")
           n     == Cardinality(CriticalModules(Evaluate(heard)))
<1>1. WatchType(wd) /\ Silence(wd)  BY WatchInvIs DEF IInv, TypeOK, WatchInv
<1>2. WatchType(heard) /\ Silence(heard)  BY <1>1, ReceiveWatch
<1>3. WatchType(Evaluate(heard)) /\ Silence(Evaluate(heard))  BY <1>2, EvaluateWatch
<1>4. am' \in Monitor  BY NlpMonitor DEF OnAvoidancePlan, IInv, TypeOK
<1>5. \/ wd' = heard /\ alert' = NoAlert
      \/ /\ wd' = Evaluate(heard)
         /\ alert' = HardConstraintAlert(world, colregs, msg, n)
  BY DEF OnAvoidancePlan
<1> HIDE DEF heard, n
<1>6. WatchInv'  BY <1>2, <1>3, <1>5, WatchInvIs
<1>7. AlertInv'
  <2>1. CASE alert' = NoAlert  BY <2>1, NoAlertInv
  <2>2. CASE alert' = HardConstraintAlert(world, colregs, msg, n)
    BY <2>2, HardNames DEF AlertInv, CriticalNamesMrm
  <2> QED  BY <1>5, <2>1, <2>2
<1> QED  BY <1>4, <1>6, <1>7

(* A tick that evaluates: whatever the monitors find, a severe alert carries  *)
(* a manoeuvre.                                                               *)
LEMMA EvaluationInv ==
    ASSUME IInv, RunMonitorEvaluation
    PROVE  /\ WatchInv' /\ AlertInv' /\ am' \in Monitor
           /\ sel' \in [last : MrmId, since : 0..Lockout] /\ degrading' \in BOOLEAN
<1> DEFINE fault == DiagnosticFault(odd, world, colregs)
<1>1. WatchInv'
  BY WatchInvIs, WaitWatch, EvaluateWatch DEF IInv, TypeOK, WatchInv, RunMonitorEvaluation
<1>2. am' \in Monitor
  BY WaitMonitor, EvaluateMonitorType DEF IInv, TypeOK, RunMonitorEvaluation
<1>3. degrading' \in BOOLEAN  BY InputAssumption DEF RunMonitorEvaluation
<1>4. Candidate' \in MrmId  BY RawSelectType DEF Candidate
<1>5. SelectorWaited(sel) \in [last : MrmId, since : 0..Lockout]
  BY SelectorType DEF IInv, TypeOK, MrmId
<1>6. sel' = Select(SelectorWaited(sel), Candidate')  BY DEF RunMonitorEvaluation
<1>7. sel' \in [last : MrmId, since : 0..Lockout]  BY <1>4, <1>5, <1>6, SelectorType
<1>8. alert' = Arbitrate(Context', fault, sel'.last)  BY DEF RunMonitorEvaluation
<1> HIDE DEF fault
<1>9. alert' \in Alert  BY <1>7, <1>8, ArbitrateType
<1>10. alert'.severity \in Severe => alert'.mrm # "None"
  <2> SUFFICES ASSUME alert'.severity \in Severe PROVE alert'.mrm # "None"  OBVIOUS
  <2>1. Context'.violations \in Nat /\ Context'.critical \in Nat
    BY ViolationCount, CriticalCount DEF Context
  <2>2. RawSelect(Context', odd'.harbour) # "None" /\ alert'.mrm = sel'.last
    BY <1>8, <2>1, SevereSelects
  <2>3. Candidate' # "None"  BY <2>2 DEF Candidate
  <2> QED  BY <1>6, <2>2, <2>3, SelectNames
<1> QED  BY <1>1, <1>2, <1>3, <1>7, <1>9, <1>10 DEF AlertInv, CriticalNamesMrm

(* A tick under a reflex freeze, in which only time passes, keeps the        *)
(* invariant.                                                                *)
LEMMA FrozenInv ==
    ASSUME IInv, Frozen
    PROVE  /\ WatchInv' /\ AlertInv' /\ am' \in Monitor
           /\ sel' \in [last : MrmId, since : 0..Lockout] /\ degrading' \in BOOLEAN
<1>1. WatchInv'  BY WatchInvIs, WaitWatch DEF IInv, TypeOK, WatchInv, Frozen
<1>2. am' \in Monitor  BY WaitMonitor DEF IInv, TypeOK, Frozen
<1>3. sel' \in [last : MrmId, since : 0..Lockout]
  BY SelectorType DEF IInv, TypeOK, Frozen, MrmId
<1>4. AlertInv'  BY NoAlertInv DEF Frozen
<1> QED  BY <1>1, <1>2, <1>3, <1>4 DEF Frozen, IInv, TypeOK

\* The rest of the type invariant.
RestType ==
    /\ am \in Monitor /\ sel \in [last : MrmId, since : 0..Lockout] /\ degrading \in BOOLEAN
    /\ odd \in OddState /\ world \in WorldState
    /\ colregs \in COLREGsConstraint /\ plan \in AvoidancePlan
    /\ veto_occurred_this_cycle \in BOOLEAN
    /\ override_active \in BOOLEAN /\ reflex_freeze_required \in BOOLEAN
    /\ resume \in ResumeState

(* The inductive invariant by component, as the steps below use it.          *)
LEMMA IInvParts == (IInv <=> WatchInv /\ AlertInv /\ RestType /\ WInv)
                   /\ (IInv' <=> WatchInv' /\ AlertInv' /\ RestType' /\ WInv')
BY DEF IInv, TypeOK, WatchInv, AlertInv, RestType, WInv

(* Every handler keeps the invariant.                                         *)
LEMMA IInvNext == IInv /\ [Next]_vars => IInv'
<1> SUFFICES ASSUME IInv, [Next]_vars PROVE IInv'  OBVIOUS
<1>0. WatchInv /\ AlertInv /\ RestType /\ WInv  BY IInvParts
<1>1. ASSUME NEW msg \in OddStates, OnOddState(msg) PROVE IInv'
  <2>1. WatchInv' /\ AlertInv'  BY <1>0, <1>1, HeardInv, NoAlertInv DEF OnOddState
  <2>2. RestType' /\ WInv'
    BY <1>0, <1>1, WindowKept, InputAssumption DEF OnOddState, RestType, veto, takeover, window
  <2> QED  BY <2>1, <2>2, IInvParts
<1>2. ASSUME NEW msg \in WorldStates, OnWorldState(msg) PROVE IInv'
  <2>1. WatchInv' /\ AlertInv'  BY <1>0, <1>2, HeardInv, NoAlertInv DEF OnWorldState
  <2>2. RestType' /\ WInv'
    BY <1>0, <1>2, WindowKept, InputAssumption DEF OnWorldState, RestType, veto, takeover, window
  <2> QED  BY <2>1, <2>2, IInvParts
<1>3. ASSUME OnBehaviorPlan PROVE IInv'
  <2>1. WatchInv' /\ AlertInv'  BY <1>0, <1>3, HeardInv, NoAlertInv DEF OnBehaviorPlan
  <2>2. RestType' /\ WInv'
    BY <1>0, <1>3, WindowKept DEF OnBehaviorPlan, RestType, inputs, veto, takeover, window
  <2> QED  BY <2>1, <2>2, IInvParts
<1>4. ASSUME NEW msg \in ColregsConstraints, OnColregsConstraint(msg) PROVE IInv'
  <2>1. WatchInv' /\ AlertInv'  BY <1>0, <1>4, HeardInv, NoAlertInv DEF OnColregsConstraint
  <2>2. RestType' /\ WInv'
    BY <1>0, <1>4, WindowKept, InputAssumption
       DEF OnColregsConstraint, RestType, veto, takeover, window
  <2> QED  BY <2>1, <2>2, IInvParts
<1>5. ASSUME NEW msg \in AvoidancePlans, OnAvoidancePlan(msg) PROVE IInv'
  <2>1. msg \in AvoidancePlan  BY InputAssumption
  <2>2. WatchInv' /\ AlertInv' /\ am' \in Monitor  BY <1>5, <2>1, PlanInv
  <2>3. RestType' /\ WInv'
    BY <1>0, <1>5, <2>1, <2>2, WindowKept
       DEF OnAvoidancePlan, RestType, veto, takeover, window
  <2> QED  BY <2>2, <2>3, IInvParts
<1>6. ASSUME OnOverrideCmd PROVE IInv'
  <2>1. WatchInv' /\ AlertInv'  BY <1>0, <1>6, HeardInv, NoAlertInv DEF OnOverrideCmd
  <2>2. RestType' /\ WInv'
    BY <1>0, <1>6, WindowKept DEF OnOverrideCmd, RestType, inputs, veto, takeover, window
  <2> QED  BY <2>1, <2>2, IInvParts
<1>7. ASSUME NEW layer \in Layers, OnCheckerVeto(layer) PROVE IInv'
  <2>1. WatchInv' /\ AlertInv'
    BY <1>0, <1>7, NoAlertInv DEF OnCheckerVeto, WatchInv, LossMeansSilence, Overdue
  <2>2. RestType' /\ WInv'
    BY <1>0, <1>7, WindowKept DEF OnCheckerVeto, RestType, inputs, takeover, window
  <2> QED  BY <2>1, <2>2, IInvParts
<1>8. ASSUME NEW freeze \in Freezes, OnReflexActivation(freeze) PROVE IInv'
  <2>1. WatchInv' /\ AlertInv'
    BY <1>0, <1>8, NoAlertInv DEF OnReflexActivation, WatchInv, LossMeansSilence, Overdue
  <2>2. RestType' /\ WInv'
    BY <1>0, <1>8, WindowKept, InputAssumption
       DEF OnReflexActivation, RestType, inputs, veto, window
  <2> QED  BY <2>1, <2>2, IInvParts
<1>9. ASSUME NEW active \in Overrides, OnOverrideSignal(active) PROVE IInv'
  <2>1. WatchInv' /\ AlertInv'
    BY <1>0, <1>9, NoAlertInv DEF OnOverrideSignal, WatchInv, LossMeansSilence, Overdue
  <2>2. SelectorReset \in [last : MrmId, since : 0..Lockout]
    BY LockoutAssumption DEF SelectorReset, MrmId
  <2>3. RestType' /\ WInv'
    BY <1>0, <1>9, <2>2, WindowKept, InputAssumption
       DEF OnOverrideSignal, RestType, inputs, veto, window, ResumeState
  <2> QED  BY <2>1, <2>3, IInvParts
<1>10. ASSUME OnMainLoopTick PROVE IInv'
  <2>1. /\ WatchInv' /\ AlertInv' /\ am' \in Monitor
        /\ sel' \in [last : MrmId, since : 0..Lockout] /\ degrading' \in BOOLEAN
    BY <1>10, EvaluationInv, FrozenInv DEF OnMainLoopTick
  <2>2. WInv'
    BY <1>0, <1>10, PushInv DEF OnMainLoopTick, RestType
  <2>3. RestType'
    BY <1>0, <1>10, <2>1 DEF OnMainLoopTick, RestType, inputs, takeover
  <2> QED  BY <2>1, <2>2, <2>3, IInvParts
<1>11. ASSUME UNCHANGED vars PROVE IInv'
  <2>1. WatchInv' /\ AlertInv'
    BY <1>0, <1>11 DEF vars, WatchInv, AlertInv, LossMeansSilence, Overdue, CriticalNamesMrm
  <2>2. RestType' /\ WInv'
    BY <1>0, <1>11, WindowKept DEF vars, RestType, inputs, veto, takeover, window
  <2> QED  BY <2>1, <2>2, IInvParts
<1> QED
  BY <1>1, <1>2, <1>3, <1>4, <1>5, <1>6, <1>7, <1>8, <1>9, <1>10, <1>11 DEF Next, Receive

(* The inductive invariant holds in every behaviour of the node.             *)
LEMMA IInvAlways == Spec => []IInv
BY IInvInit, IInvNext, PTL DEF Spec

(* The M7 node keeps every field of its monitors in range.                    *)
THEOREM SupervisorTypeCorrect == Spec => []TypeOK
BY IInvAlways, PTL DEF IInv

(* However ticks, plans and messages mix, the watchdog of M7 holds a loss     *)
(* only against a module that was heard and is overdue.                       *)
THEOREM LossSafe == Spec => []LossMeansSilence
BY IInvAlways, PTL DEF IInv

(* M7 never publishes a CRITICAL or MRC_REQUIRED alert without a manoeuvre,   *)
(* from either of its two paths, for any configuration.                       *)
THEOREM CriticalSafe == Spec => []CriticalNamesMrm
BY IInvAlways, PTL DEF IInv

(* Inside the node too, the veto total is the number of vetoes in the window. *)
THEOREM VetoTotalSafe == Spec => []TotalIsCount
BY IInvAlways, PTL DEF IInv, WInv
=============================================================================
