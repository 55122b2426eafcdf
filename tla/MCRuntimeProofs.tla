---------------------------- MODULE MCRuntimeProofs ----------------------------
(***************************************************************************)
(* The safety of the parts that MCRuntime runs, for any number of take-over *)
(* requests, any set of routes, any reaction delay and dwell, any number of *)
(* targets and runs, and without the bounds on plans and changes: what TLC  *)
(* needs to be finite is a constant here.                                   *)
(* (What M7's counter promises is proved in SafetySupervisorProofs.)         *)
(***************************************************************************)
EXTENDS MCRuntime, SequenceTheorems, TLAPS

-----------------------------------------------------------------------------
(* The simulated operator.                                                  *)

LEMMA RocInit == Roc!Init => Roc!AnswersMatch
BY RuntimeAssumption DEF Roc!Init, Roc!AnswersMatch

(* Deciding for the request shown: it had no answer, and it is one that was   *)
(* made.                                                                      *)
LEMMA RocDecides ==
    ASSUME NEW r, r # "none", Roc!AnswersMatch, s1 # 0, s2 = "none", Roc!Decide(r), s1' = s1,
           s4' \subseteq s4, s5' \subseteq s5
    PROVE  Roc!AnswersMatch'
BY RuntimeAssumption DEF Roc!Decide, Roc!AnswersMatch

LEMMA RocStep == Roc!AnswersMatch /\ Roc!Next => Roc!AnswersMatch'
<1> SUFFICES ASSUME Roc!AnswersMatch, Roc!Next PROVE Roc!AnswersMatch'
    OBVIOUS
<1> USE RuntimeAssumption DEF Roc!AnswersMatch
<1>1. CASE Roc!OnTorRequest
  <2>1. s1' \in 0..MaxTor /\ s1' = s1 + 1 /\ s7' = s7  BY <1>1 DEF Roc!OnTorRequest
  <2>2. s4' \subseteq 1..s1' /\ s5' \subseteq 1..s1'
    <3>1. 1..s1 \subseteq 1..s1' /\ s1' \in 1..s1'  BY <2>1
    <3> QED  BY <1>1, <3>1 DEF Roc!OnTorRequest
  <2>3. \A k \in 1..MaxTor : k > s1' \/ k = s1' => s7'[k] = 0  BY <2>1
  <2> QED  BY <2>1, <2>2, <2>3
<1>2. CASE Roc!Publish
    BY <1>2 DEF Roc!Publish
<1>3. CASE \E k \in 1..MaxTor : Roc!TimerRunsOut(k)
    BY <1>3 DEF Roc!TimerRunsOut
<1>4. ASSUME NEW k \in 1..MaxTor, Roc!AutoAccept(k) PROVE Roc!AnswersMatch'
  <2>1. s1 # 0  BY <1>4 DEF Roc!AutoAccept
  <2>2. CASE s2 = "none"
      BY <1>4, <2>1, <2>2, RocDecides DEF Roc!AutoAccept
  <2>3. CASE s2 # "none"
      BY <1>4, <2>3 DEF Roc!AutoAccept
  <2> QED  BY <2>2, <2>3
<1>5. ASSUME NEW r \in {"ACCEPT", "REJECT", "DEFER"}, Roc!RespondToTor(r) PROVE Roc!AnswersMatch'
    BY <1>5, RocDecides DEF Roc!RespondToTor
<1> QED  BY <1>1, <1>2, <1>3, <1>4, <1>5 DEF Roc!Next, Roc!Timers

-----------------------------------------------------------------------------
(* The forwarding of routes.                                                *)

RouteInv == Route!PendingIsNewest /\ Route!NewestKept

LEMMA RouteInit == Route!Init => RouteInv
BY DEF Route!Init, RouteInv, Route!PendingIsNewest, Route!NewestKept

(* Forwarding the newest plan leaves it forwarded or waiting, and nothing     *)
(* older waiting.                                                             *)
LEMMA RouteForwards ==
    ASSUME NEW r, Route!ForwardIfNew(r), s9' = r
    PROVE  RouteInv'
BY DEF Route!ForwardIfNew, Route!ShouldForwardRoute, RouteInv, Route!PendingIsNewest, Route!NewestKept

LEMMA RouteStep == RouteInv /\ Route!Next => RouteInv'
<1> SUFFICES ASSUME RouteInv, Route!Next PROVE RouteInv'
    OBVIOUS
<1>1. ASSUME NEW r \in Routes, Route!OnRoutePlan(r) PROVE RouteInv'
    BY <1>1, RouteForwards
    DEF Route!OnRoutePlan, RouteInv, Route!PendingIsNewest, Route!NewestKept
<1>2. ASSUME NEW s \in BOOLEAN, Route!OnLifecycleStatus(s) PROVE RouteInv'
    BY <1>2, RouteForwards
    DEF Route!OnLifecycleStatus, RouteInv, Route!PendingIsNewest, Route!NewestKept
<1>3. CASE Route!OnRetryTimer
    BY <1>3, RouteForwards
    DEF Route!OnRetryTimer, RouteInv, Route!PendingIsNewest, Route!NewestKept
<1>4. CASE Route!OnStartupTimeout \/ Route!HandlePayload \/ Route!IngressChanges
    BY <1>4 DEF Route!OnStartupTimeout, Route!HandlePayload, Route!IngressChanges,
                RouteInv, Route!PendingIsNewest, Route!NewestKept
<1> QED  BY <1>1, <1>2, <1>3, <1>4 DEF Route!Next
-----------------------------------------------------------------------------
(* The target vessel: the ages.                                             *)

LEMMA AgesCount ==
    ASSUME NEW limit \in Nat, limit < Target!Never, NEW age \in Target!Ages(limit)
    PROVE  /\ Target!Aged(age, limit) \in Target!Ages(limit)
           /\ age = Target!Never => Target!Aged(age, limit) = Target!Never
           /\ age # Target!Never => /\ Target!Aged(age, limit) # Target!Never
                                    /\ Target!Aged(age, limit) >= age
                                    /\ Target!Aged(age, limit) = IF age < limit THEN age + 1 ELSE age
BY RuntimeAssumption DEF Target!Aged, Target!Ages, Target!Never

LEMMA Limits ==
    /\ Target!Never \in Nat
    /\ ReactionDelay \in Nat /\ ReactionDelay < Target!Never
    /\ ClearDwell \in Nat /\ ClearDwell < Target!Never
    /\ ClearDwell + 1 \in Nat /\ ClearDwell + 1 < Target!Never
BY RuntimeAssumption DEF Target!Never

(* The machine as time has passed.                                           *)
Passed(f) == [f EXCEPT !.start = Target!Aged(@, ReactionDelay), !.clear = Target!Aged(@, ClearDwell)]

LEMMA PassedMachine ==
    ASSUME NEW f \in Target!Machine
    PROVE  /\ Passed(f) \in Target!Machine
           /\ Passed(f).state = f.state
           /\ Passed(f).start = Target!Aged(f.start, ReactionDelay)
           /\ Passed(f).clear = Target!Aged(f.clear, ClearDwell)
<1>1. Target!Aged(f.start, ReactionDelay) \in Target!Ages(ReactionDelay)
    BY Limits, AgesCount DEF Target!Machine
<1>2. Target!Aged(f.clear, ClearDwell) \in Target!Ages(ClearDwell)
    BY Limits, AgesCount DEF Target!Machine
<1> QED  BY <1>1, <1>2 DEF Target!Machine, Passed

(* With an encounter the machine attends to it, counts no clear spell, and    *)
(* goes on counting from where it was or begins; it gives way only after the   *)
(* whole delay.                                                               *)
LEMMA EncounterMachine ==
    ASSUME NEW f \in Target!Machine, NEW e \in Target!Encounters, s6.own \in {0, 1}, NEW g,
           g = Target!Encountered(f, e)
    PROVE  /\ g \in Target!Machine /\ g.state \in Target!Busy /\ g.clear = Target!Never
           /\ g.start = 0 \/ (g.start = f.start /\ f.start # Target!Never /\ f.state \in Target!Busy)
           /\ g.state = "GIVE_WAY" => g.start >= ReactionDelay
<1> DEFINE p == Target!PrepareEncounter(f, e)
           q == Target!EnsureStarted(p)
<1>1. /\ p \in Target!Machine /\ p.clear = Target!Never
      /\ p.start = Target!Never
         \/ (p.start = f.start /\ f.start # Target!Never /\ f.state \in Target!Busy)
    BY Limits DEF Target!PrepareEncounter, Target!Machine, Target!Ages
<1>2. /\ q \in Target!Machine /\ q.clear = Target!Never
      /\ q.start = 0 \/ (q.start = f.start /\ f.start # Target!Never /\ f.state \in Target!Busy)
  <2> HIDE DEF p
  <2>1. CASE p.start = Target!Never
    <3>1. q = [p EXCEPT !.start = 0, !.base = s6.own]  BY <2>1 DEF Target!EnsureStarted
    <3>2. 0 \in Target!Ages(ReactionDelay)  BY Limits DEF Target!Ages
    <3> HIDE DEF q
    <3> QED  BY <1>1, <3>1, <3>2 DEF Target!Machine
  <2>2. CASE p.start # Target!Never
    <3>1. q = p  BY <2>2 DEF Target!EnsureStarted
    <3> QED  BY <1>1, <2>2, <3>1
  <2> QED  BY <2>1, <2>2
<1> HIDE DEF p
<1>3. IF q.start < ReactionDelay THEN g = Target!Set(q, "MONITORING", e)
      ELSE g \in {Target!GiveWay(q, e), Target!Set(q, "STAND_ON", e)}
    BY DEF Target!Encountered, p
<1> HIDE DEF q
<1> e.rule \in {"none", "13", "14", "15", "17"}
    /\ e.role \in {"none", "BOTH_GIVE_WAY", "STAND_ON", "GIVE_WAY"}
    BY DEF Target!Encounters
<1>4. q.start \in Nat  BY <1>2, Limits DEF Target!Machine, Target!Ages
<1>5. CASE q.start < ReactionDelay
  <2>1. g = Target!Set(q, "MONITORING", e)  BY <1>3, <1>5
  <2> QED  BY <1>2, <2>1 DEF Target!Set, Target!Machine, Target!FsmStates, Target!Busy
<1>6. CASE ~(q.start < ReactionDelay)
  <2>1. g = Target!GiveWay(q, e) \/ g = Target!Set(q, "STAND_ON", e)  BY <1>3, <1>6
  <2>2. q.start >= ReactionDelay  BY <1>4, <1>6, Limits
  <2> QED  BY ZenonT(60), <1>2, <2>1, <2>2 DEF Target!Set, Target!GiveWay, Target!Machine,
                                    Target!FsmStates, Target!Busy
<1> QED  BY <1>5, <1>6

(* Without one the clear spell goes on or begins, and only a whole dwell of    *)
(* it sends the machine back.                                                 *)
LEMMA ClearMachine ==
    ASSUME NEW f \in Target!Machine, NEW g, g = Target!ClearOrNominal(f)
    PROVE  /\ g \in Target!Machine
           /\ g.clear \in {f.clear, Target!Never} \/ (f.clear = Target!Never /\ g.clear = 0)
           /\ g.state \in Target!Busy => f.state = g.state /\ g.start = f.start
           /\ g.state = "RETURNING" /\ f.state # "RETURNING" => g.clear >= ClearDwell /\ g.clear # Target!Never
           /\ g.state = "GIVE_WAY" => f.state = "GIVE_WAY"
<1> DEFINE c == [f EXCEPT !.clear = IF @ = Target!Never THEN 0 ELSE @]
<1>1. /\ c \in Target!Machine /\ c.state = f.state /\ c.start = f.start /\ c.clear # Target!Never
      /\ c.clear = f.clear \/ (f.clear = Target!Never /\ c.clear = 0)
    BY Limits DEF Target!Machine, Target!Ages
<1>2. g = IF f.state \in Target!Busy
          THEN IF c.clear >= ClearDwell THEN [c EXCEPT !.state = "RETURNING"] ELSE c
          ELSE IF f.state = "RETURNING" /\ s4 = 0 THEN Target!Nominal ELSE f
    BY DEF Target!ClearOrNominal
<1> HIDE DEF c
<1>3. CASE f.state \in Target!Busy /\ c.clear >= ClearDwell
    BY <1>1, <1>2, <1>3 DEF Target!Machine, Target!FsmStates, Target!Busy
<1>4. CASE f.state \in Target!Busy /\ ~(c.clear >= ClearDwell)
    BY <1>1, <1>2, <1>4 DEF Target!Machine, Target!FsmStates, Target!Busy
<1>5. CASE f.state \notin Target!Busy
    BY <1>2, <1>5, Limits DEF Target!Machine, Target!FsmStates, Target!Busy, Target!Nominal, Target!Ages
<1> QED  BY <1>3, <1>4, <1>5

-----------------------------------------------------------------------------
(* The target vessel: what its steps keep.                                  *)

FsmInv == Target!ClearIsClear /\ Target!StartedIsSeen

TargetInv == Target!TypeOK /\ Target!OneFsmTarget /\ FsmInv

LEMMA NominalMachine ==
    ASSUME s3' = Target!Nominal, s7' = Target!Never, s8' = Target!Never
    PROVE  /\ s3' \in Target!Machine
           /\ s7' \in Target!Ages(ClearDwell + 1) /\ s8' \in Target!Ages(ReactionDelay)
           /\ FsmInv'
BY DEF Target!Nominal, Target!Machine, Target!FsmStates, Target!Busy, Target!Ages, FsmInv,
       Target!ClearIsClear, Target!StartedIsSeen

(* A step that keeps the machine counts its ages with those of the history.   *)
LEMMA TargetStepAges ==
    ASSUME Target!TypeOK, FsmInv, Target!Step
    PROVE  /\ s3' \in Target!Machine
           /\ s7' \in Target!Ages(ClearDwell + 1) /\ s8' \in Target!Ages(ReactionDelay)
           /\ FsmInv' /\ Target!ReturnsAfterDwell /\ Target!ReactsAfterDelay
<1> DEFINE f == Passed(s3)
<1>1. /\ f \in Target!Machine /\ f.state = s3.state
      /\ f.start = Target!Aged(s3.start, ReactionDelay) /\ f.clear = Target!Aged(s3.clear, ClearDwell)
    BY PassedMachine DEF Target!TypeOK
<1>2. /\ s3.start \in Target!Ages(ReactionDelay) /\ s3.clear \in Target!Ages(ClearDwell)
      /\ s7 \in Target!Ages(ClearDwell + 1) /\ s8 \in Target!Ages(ReactionDelay)
    BY DEF Target!TypeOK, Target!Machine
<1> DEFINE since == Target!Aged(s7, ClearDwell + 1)
           for   == Target!Aged(s8, ReactionDelay)
<1>3. since \in Target!Ages(ClearDwell + 1) /\ for \in Target!Ages(ReactionDelay)
    BY <1>2, Limits, AgesCount
<1>4. since > 0 /\ (f.clear # Target!Never => since > f.clear)
  <2>1. since > 0
      BY <1>2, Limits DEF Target!Aged, Target!Ages
  <2>2. ASSUME f.clear # Target!Never PROVE since > f.clear
    <3>1. s3.clear # Target!Never /\ s7 > s3.clear
        BY <1>1, <1>2, <2>2, Limits, AgesCount DEF FsmInv, Target!ClearIsClear
    <3> QED  BY <1>1, <1>2, <3>1, Limits DEF Target!Aged, Target!Ages
  <2> QED  BY <2>1, <2>2
<1>5. s3.state \in Target!Busy => /\ f.start # Target!Never /\ for # Target!Never /\ for >= f.start
  <2> SUFFICES ASSUME s3.state \in Target!Busy
               PROVE  f.start # Target!Never /\ for # Target!Never /\ for >= f.start
      OBVIOUS
  <2>1. s3.start # Target!Never /\ s8 # Target!Never /\ s8 >= s3.start
      BY DEF FsmInv, Target!StartedIsSeen
  <2> QED  BY <1>1, <1>2, <2>1, Limits DEF Target!Aged, Target!Ages
<1> HIDE DEF f, since, for
<1>6. CASE s5 # "fresh"
  <2>1. s3' = f /\ s7' = since /\ s8' = for
      BY <1>6 DEF Target!Step, f, since, for, Passed
  <2> QED
      BY <1>1, <1>3, <1>4, <1>5, <2>1
      DEF FsmInv, Target!ClearIsClear, Target!StartedIsSeen, Target!ReturnsAfterDwell, Target!ReactsAfterDelay
<1>7. CASE s5 = "fresh" /\ s6.enc # Target!NoEncounter
  <2>1. /\ s3' = Target!Encountered(f, s6.enc) /\ s7' = 0
        /\ s8' = IF s8 = Target!Never THEN 0 ELSE for
      BY <1>7 DEF Target!Step, Target!Update, f, since, for, Passed
  <2>2. s6.enc \in Target!Encounters /\ s6.own \in {0, 1}
      BY <1>7 DEF Target!TypeOK
  <2>3. /\ s3' \in Target!Machine /\ s3'.state \in Target!Busy /\ s3'.clear = Target!Never
        /\ s3'.start = 0 \/ (s3'.start = f.start /\ f.start # Target!Never /\ f.state \in Target!Busy)
        /\ s3'.state = "GIVE_WAY" => s3'.start >= ReactionDelay
      BY <1>1, <2>1, <2>2, EncounterMachine
  <2>4. s8' \in 0..ReactionDelay
      BY <1>2, <1>3, <2>1, Limits, AgesCount DEF for, Target!Ages
  <2>5. s8' >= s3'.start
    <3>1. CASE s3'.start = 0  BY <2>4, <3>1
    <3>2. CASE s3'.start = f.start /\ f.state \in Target!Busy
        BY <1>1, <1>5, <2>1, <3>2 DEF FsmInv, Target!StartedIsSeen
    <3> QED  BY <2>3, <3>1, <3>2
  <2>6. s3'.start # Target!Never /\ s8' # Target!Never
      BY <2>3, <2>4, Limits
  <2>7. FsmInv'
      BY <2>3, <2>5, <2>6 DEF FsmInv, Target!ClearIsClear, Target!StartedIsSeen
  <2>8. Target!ReturnsAfterDwell
      BY <2>3 DEF Target!ReturnsAfterDwell, Target!Busy
  <2>9. Target!ReactsAfterDelay
      BY <2>3, <2>4, <2>5, Limits DEF Target!ReactsAfterDelay, Target!Machine, Target!Ages
  <2>10. s7' \in Target!Ages(ClearDwell + 1) /\ s8' \in Target!Ages(ReactionDelay)
      BY <2>1, <2>4, Limits DEF Target!Ages
  <2> QED  BY <2>3, <2>7, <2>8, <2>9, <2>10
<1>8. CASE s5 = "fresh" /\ s6.enc = Target!NoEncounter
  <2>1. /\ s3' = Target!ClearOrNominal(f) /\ s7' = since
        /\ s8' = IF s3'.state \in Target!Busy THEN for ELSE Target!Never
      BY <1>8 DEF Target!Step, Target!Update, f, since, for, Passed
  <2>2. /\ s3' \in Target!Machine
        /\ s3'.clear \in {f.clear, Target!Never} \/ (f.clear = Target!Never /\ s3'.clear = 0)
        /\ s3'.state \in Target!Busy => f.state = s3'.state /\ s3'.start = f.start
        /\ s3'.state = "RETURNING" /\ f.state # "RETURNING" =>
              s3'.clear >= ClearDwell /\ s3'.clear # Target!Never
        /\ s3'.state = "GIVE_WAY" => f.state = "GIVE_WAY"
      BY <1>1, <2>1, ClearMachine
  <2>3. Target!ClearIsClear'
      BY <1>4, <2>1, <2>2 DEF Target!ClearIsClear
  <2>4. Target!StartedIsSeen'
      BY <1>1, <1>5, <2>1, <2>2 DEF Target!StartedIsSeen
  <2>5. Target!ReturnsAfterDwell
    <3> SUFFICES ASSUME s3'.state = "RETURNING", s3.state # "RETURNING" PROVE s7' >= ClearDwell
        BY DEF Target!ReturnsAfterDwell
    <3>1. s3'.clear >= ClearDwell /\ s7' > s3'.clear
        BY <1>1, <2>2, <2>3 DEF Target!ClearIsClear
    <3>2. s3'.clear \in Nat /\ s7' \in Nat
        BY <1>3, <2>1, <2>2, Limits DEF Target!Machine, Target!Ages
    <3> QED  BY <3>1, <3>2, Limits
  <2>6. Target!ReactsAfterDelay
      BY <1>1, <2>2 DEF Target!ReactsAfterDelay
  <2>7. s8' \in Target!Ages(ReactionDelay)
      BY <1>3, <2>1 DEF Target!Ages
  <2> QED  BY <1>3, <2>1, <2>2, <2>3, <2>4, <2>5, <2>6, <2>7 DEF FsmInv
<1> QED  BY <1>6, <1>7, <1>8

-----------------------------------------------------------------------------
(* The target vessel: its list.                                             *)

(* The entries of a file, up to one that is refused, add no second FSM        *)
(* target.                                                                    *)
LEMMA AddedOnce ==
    ASSUME Target!TypeOK, Target!OneFsmTarget,
           NEW m \in Nat, NEW list \in [1..m -> {"fsm", "other", "bad"}], NEW n \in 0..m,
           \A i \in 1..n : ~Target!Refused(list, i),
           s2' = s2 \o SubSeq(list, 1, n)
    PROVE  s2' \in Seq({"fsm", "other"}) /\ Target!OneFsmTarget'
<1> DEFINE add == SubSeq(list, 1, n)
<1>1. list \in Seq({"fsm", "other", "bad"}) /\ Len(list) = m  OBVIOUS
<1>2. add \in Seq({"fsm", "other", "bad"}) /\ Len(add) = n /\ \A i \in 1..n : add[i] = list[i]
    BY <1>1
<1>3. \A i \in 1..n : add[i] \in {"fsm", "other"}
    BY <1>2 DEF Target!Refused
<1>4. add \in Seq({"fsm", "other"})
    BY <1>2, <1>3
<1>5. \A i \in 1..n : add[i] = "fsm" =>
          ~Target!HasFsm(s2) /\ \A j \in 1..(i - 1) : add[j] # "fsm"
  <2> SUFFICES ASSUME NEW i \in 1..n, add[i] = "fsm"
               PROVE  ~Target!HasFsm(s2) /\ \A j \in 1..(i - 1) : add[j] # "fsm"
      OBVIOUS
  <2>1. ~Target!HasFsm(s2) /\ ~Target!HasFsm(SubSeq(list, 1, i - 1))
      BY <1>2 DEF Target!Refused
  <2>2. DOMAIN SubSeq(list, 1, i - 1) = 1..(i - 1)
        /\ \A j \in 1..(i - 1) : SubSeq(list, 1, i - 1)[j] = list[j]
      BY <1>1
  <2>3. \A j \in 1..(i - 1) : list[j] # "fsm"
      BY <2>1, <2>2 DEF Target!HasFsm
  <2>4. \A j \in 1..(i - 1) : j \in 1..n
      OBVIOUS
  <2> HIDE DEF add
  <2>5. \A j \in 1..(i - 1) : add[j] # "fsm"
      BY <1>2, <2>3, <2>4
  <2> QED  BY <2>1, <2>5
<1> HIDE DEF add
<1>6. /\ s2' \in Seq({"fsm", "other"}) /\ s2 \in Seq({"fsm", "other"})
      /\ Len(s2') = Len(s2) + n
      /\ \A i \in 1..Len(s2') : s2'[i] = IF i <= Len(s2) THEN s2[i] ELSE add[i - Len(s2)]
    BY <1>2, <1>4 DEF Target!TypeOK, add
<1>7. \A i, j \in 1..Len(s2') : i < j => ~(s2'[i] = "fsm" /\ s2'[j] = "fsm")
  <2> SUFFICES ASSUME NEW i \in 1..Len(s2'), NEW j \in 1..Len(s2'), i < j,
                      s2'[i] = "fsm", s2'[j] = "fsm"
               PROVE  FALSE
      OBVIOUS
  <2>1. Len(s2) \in Nat  BY <1>6
  <2>2. CASE j <= Len(s2)
    <3>1. i \in DOMAIN s2 /\ j \in DOMAIN s2 /\ s2[i] = "fsm" /\ s2[j] = "fsm"  BY <1>6, <2>1, <2>2
    <3> QED  BY <3>1 DEF Target!OneFsmTarget, Target!TwoFsms
  <2>3. CASE ~(j <= Len(s2))
    <3>1. j - Len(s2) \in 1..n /\ add[j - Len(s2)] = "fsm"  BY <1>6, <2>1, <2>3
    <3>2. CASE i <= Len(s2)
      <4>1. i \in DOMAIN s2 /\ s2[i] = "fsm"  BY <1>6, <2>1, <3>2
      <4> QED  BY <1>5, <3>1, <4>1 DEF Target!HasFsm
    <3>3. CASE ~(i <= Len(s2))
      <4>1. i - Len(s2) \in 1..(j - Len(s2) - 1) /\ add[i - Len(s2)] = "fsm"
          BY <1>6, <2>1, <2>3, <3>3
      <4> QED  BY <1>5, <3>1, <4>1
    <3> QED  BY <3>2, <3>3
  <2> QED  BY <2>2, <2>3
<1>8. DOMAIN s2' = 1..Len(s2')  BY <1>6
<1>9. \A i, j \in 1..Len(s2') : i # j => i < j \/ j < i  BY <1>6
<1>10. ~Target!TwoFsms(s2')
  <2> SUFFICES ASSUME NEW i \in 1..Len(s2'), NEW j \in 1..Len(s2'), i # j,
                      s2'[i] = "fsm", s2'[j] = "fsm"
               PROVE  FALSE
      BY <1>8, Zenon DEF Target!TwoFsms
  <2>1. i < j \/ j < i  BY <1>9, Zenon
  <2> QED  BY <1>7, <2>1, Zenon
<1> QED  BY <1>6, <1>10 DEF Target!OneFsmTarget

LEMMA TargetInit == Target!Init => TargetInv
<1> SUFFICES ASSUME Target!Init PROVE TargetInv
    OBVIOUS
<1>1. s3 = Target!Nominal /\ s7 = Target!Never /\ s8 = Target!Never /\ s2 = <<>> /\ s4 = 0
      /\ s6 = [enc |-> Target!NoEncounter, own |-> 0, near |-> FALSE]
    BY DEF Target!Init
<1>2. Target!TypeOK
    BY <1>1 DEF Target!TypeOK, Target!Nominal, Target!Machine, Target!FsmStates, Target!Busy, Target!Ages
<1>3. FsmInv
    BY <1>1 DEF FsmInv, Target!ClearIsClear, Target!StartedIsSeen, Target!Nominal, Target!Busy
<1>4. Target!OneFsmTarget
    BY <1>1 DEF Target!OneFsmTarget, Target!TwoFsms
<1> QED  BY <1>2, <1>3, <1>4 DEF TargetInv

(* A new machine, or the same one with its history.                          *)
LEMMA FreshOrSame ==
    ASSUME Target!TypeOK, FsmInv, Target!Fresh \/ Target!Same
    PROVE  /\ s3' \in Target!Machine /\ s4' \in Nat
           /\ s7' \in Target!Ages(ClearDwell + 1) /\ s8' \in Target!Ages(ReactionDelay)
           /\ FsmInv' /\ Target!ReturnsAfterDwell /\ Target!ReactsAfterDelay
<1>1. CASE Target!Fresh
  <2>1. s3' = Target!Nominal /\ s4' = 0 /\ s7' = Target!Never /\ s8' = Target!Never
      BY <1>1 DEF Target!Fresh
  <2>2. s3'.state = "NOMINAL"  BY <2>1 DEF Target!Nominal
  <2> QED  BY <2>1, <2>2, NominalMachine DEF Target!ReturnsAfterDwell, Target!ReactsAfterDelay
<1>2. CASE Target!Same
    BY <1>2 DEF Target!Same, Target!TypeOK, FsmInv, Target!ClearIsClear, Target!StartedIsSeen,
                Target!ReturnsAfterDwell, Target!ReactsAfterDelay
<1> QED  BY <1>1, <1>2

LEMMA TargetStep ==
    TargetInv /\ Target!Next => TargetInv' /\ Target!ReturnsAfterDwell /\ Target!ReactsAfterDelay
<1> DEFINE Good == TargetInv' /\ Target!ReturnsAfterDwell /\ Target!ReactsAfterDelay
<1> SUFFICES ASSUME TargetInv, Target!Next PROVE Good
    OBVIOUS
<1> USE DEF TargetInv
<1>1. CASE Target!Step
  <2>1. s2' = s2 /\ s6' = s6 /\ (s4' = s4 \/ s4' = Target!Towards(Target!Desired(s3')))
      BY <1>1 DEF Target!Step
  <2>2. s4' \in Nat
    <3>1. Target!Desired(s3') \in Nat
        BY RuntimeAssumption DEF Target!Desired, Target!TypeOK
    <3>2. Target!Towards(Target!Desired(s3')) \in Nat
        BY <3>1 DEF Target!Towards, Target!TypeOK
    <3> QED  BY <2>1, <3>2 DEF Target!TypeOK
  <2> QED  BY <1>1, <2>1, <2>2, TargetStepAges
           DEF Target!TypeOK, Target!OneFsmTarget
<1>2. ASSUME Target!Fresh \/ Target!Same, s6' \in [enc : Target!Encounters \cup {Target!NoEncounter},
                                                   own : {0, 1}, near : BOOLEAN],
             s2' \in Seq({"fsm", "other"}), Target!OneFsmTarget'
      PROVE  Good
    BY <1>2, FreshOrSame DEF Target!TypeOK
<1>3. ASSUME s2' = s2 PROVE s2' \in Seq({"fsm", "other"}) /\ Target!OneFsmTarget'
    BY <1>3 DEF Target!TypeOK, Target!OneFsmTarget
<1>4. s6 \in [enc : Target!Encounters \cup {Target!NoEncounter}, own : {0, 1}, near : BOOLEAN]
    BY DEF Target!TypeOK
<1> HIDE DEF Good
<1>5. CASE Target!OnActivate \/ Target!OnDeactivate \/ Target!HandleOwnship \/ Target!OwnshipSilent
    BY <1>2, <1>3, <1>4, <1>5
    DEF Target!OnActivate, Target!OnDeactivate, Target!HandleOwnship, Target!OwnshipSilent
<1>6. CASE Target!OnCleanup
  <2>1. s2' = <<>> /\ s6' = s6 /\ Target!Fresh  BY <1>6 DEF Target!OnCleanup
  <2>2. s2' \in Seq({"fsm", "other"}) /\ Target!OneFsmTarget'
      BY <2>1 DEF Target!OneFsmTarget, Target!TwoFsms
  <2> QED  BY <1>2, <1>4, <2>1, <2>2
<1>7. CASE Target!Moves
  <2>1. s2' = s2 /\ Target!Same /\
        \E e \in Target!Encounters \cup {Target!NoEncounter}, o \in {0, 1}, n \in BOOLEAN :
            s6' = [enc |-> e, own |-> o, near |-> n]
      BY <1>7 DEF Target!Moves
  <2>2. s6' \in [enc : Target!Encounters \cup {Target!NoEncounter}, own : {0, 1}, near : BOOLEAN]
      BY <2>1
  <2> QED  BY <1>2, <1>3, <2>1, <2>2
<1>8. ASSUME NEW m \in 0..MaxTargets, NEW list \in [1..m -> {"fsm", "other", "bad"}],
             Target!OnConfigure(list)
      PROVE  Good
  <2>1. s6' = s6  BY <1>8 DEF Target!OnConfigure
  <2>2. m \in Nat /\ Len(list) = m  OBVIOUS
  <2>3. CASE Target!AddEntries(list)
    <3>1. PICK n \in 0..m : /\ \A i \in 1..n : ~Target!Refused(list, i)
                            /\ s2' = s2 \o SubSeq(list, 1, n)
                            /\ Target!Fresh \/ Target!Same
        BY <2>2, <2>3 DEF Target!AddEntries
    <3>2. s2' \in Seq({"fsm", "other"}) /\ Target!OneFsmTarget'
        BY <2>2, <3>1, AddedOnce
    <3> QED  BY <1>2, <1>4, <2>1, <3>1, <3>2
  <2>4. CASE Target!Same /\ s2' = s2
      BY <1>2, <1>3, <1>4, <2>1, <2>4
  <2> QED  BY <1>8, <2>3, <2>4 DEF Target!OnConfigure
<1>9. ASSUME NEW p \in {"fsm", "other"}, Target!HandleAddTarget(p) PROVE Good
  <2>1. s6' = s6 /\ (Target!Fresh \/ Target!Same)  BY <1>9 DEF Target!HandleAddTarget
  <2>2. CASE Target!Allowed(p)
    <3>1. s2 \in Seq({"fsm", "other"}) /\ s2' = Append(s2, p)
        BY <1>9, <2>2 DEF Target!HandleAddTarget, Target!TypeOK
    <3>2. s2' \in Seq({"fsm", "other"}) /\ DOMAIN s2' = DOMAIN s2 \cup {Len(s2) + 1}
          /\ s2'[Len(s2) + 1] = p /\ \A i \in DOMAIN s2 : s2'[i] = s2[i]
        BY <3>1
    <3>3. p = "fsm" => \A i \in DOMAIN s2 : s2[i] # "fsm"
        BY <2>2 DEF Target!Allowed, Target!HasFsm
    <3>4. ~Target!TwoFsms(s2')
        BY <3>2, <3>3 DEF Target!TwoFsms, Target!OneFsmTarget
    <3>5. s2' \in Seq({"fsm", "other"}) /\ Target!OneFsmTarget'
        BY <3>2, <3>4 DEF Target!OneFsmTarget
    <3> QED  BY <1>2, <1>4, <2>1, <3>5
  <2>3. CASE ~Target!Allowed(p)
    <3>1. s2' = s2  BY <1>9, <2>3 DEF Target!HandleAddTarget
    <3> QED  BY <1>2, <1>3, <1>4, <2>1, <3>1
  <2> QED  BY <2>2, <2>3
<1>10. CASE Target!HandleRemoveTarget
  <2>1. s6' = s6 /\ (Target!Fresh \/ Target!Same)  BY <1>10 DEF Target!HandleRemoveTarget
  <2>2. PICK n \in 0..Len(s2) : \E f \in Target!Kept(n) : s2' = [i \in 1..n |-> s2[f[i]]]
      BY <1>10 DEF Target!HandleRemoveTarget
  <2> PICK f \in Target!Kept(n) : s2' = [i \in 1..n |-> s2[f[i]]]
      BY <2>2
  <2>3. s2 \in Seq({"fsm", "other"}) /\ n \in Nat
      BY DEF Target!TypeOK
  <2>4. /\ f \in [1..n -> DOMAIN s2]
        /\ \A i, j \in 1..n : i # j => f[i] # f[j]
      BY <2>3 DEF Target!Kept
  <2>5. s2' \in Seq({"fsm", "other"}) /\ DOMAIN s2' = 1..n
      BY <2>3, <2>4
  <2>6. Target!OneFsmTarget'
      BY <2>4, <2>5 DEF Target!OneFsmTarget, Target!TwoFsms
  <2> QED  BY <1>2, <1>4, <2>1, <2>5, <2>6
<1> QED  BY <1>1, <1>5, <1>6, <1>7, <1>8, <1>9, <1>10 DEF Target!Next

-----------------------------------------------------------------------------
(* The chain of the tracks.                                                 *)

ChainInv ==
    Chain!Shapes /\ Chain!InStep /\ Chain!SensedInRun /\ Chain!HeldInRun /\ Chain!RunIsolated

LEMMA ChainInit == Chain!Init => ChainInv
BY DEF Chain!Init, ChainInv, Chain!Shapes, Chain!InStep, Chain!SensedInRun, Chain!HeldInRun,
       Chain!RunIsolated, Chain!Members, Chain!Follows, Chain!Empty, Chain!Active

(* A node that takes a transition keeps in step, and the others stay.         *)
LEMMA ChainTakes ==
    ASSUME Chain!Shapes, Chain!InStep, NEW m \in Chain!Members, Chain!Takes(m), s2' = s2
    PROVE  /\ Chain!InStep' /\ s1' \in [Chain!Members -> DOMAIN Chain!Follows]
           /\ s1'[m] = s2 /\ \A o \in Chain!Members \ {m} : s1'[o] = s1[o]
           /\ s2 \in Chain!Follows[s1[m]]
BY DEF Chain!Shapes, Chain!InStep, Chain!Takes

LEMMA FollowsAre ==
    /\ DOMAIN Chain!Follows = {"configure", "activate", "deactivate", "cleanup"}
    /\ Chain!Follows["configure"] = {"activate", "cleanup"} /\ Chain!Follows["activate"] = {"deactivate"}
    /\ Chain!Follows["deactivate"] = {"activate", "cleanup"} /\ Chain!Follows["cleanup"] = {"configure"}
BY DEF Chain!Follows

LEMMA ChainStep == ChainInv /\ Chain!Next => ChainInv'
<1> SUFFICES ASSUME ChainInv, Chain!Next PROVE ChainInv'
    OBVIOUS
<1> USE DEF ChainInv
<1>0. /\ "world" \in Chain!Members /\ "sensor" \in Chain!Members /\ "tracker" \in Chain!Members
      /\ "world" # "sensor" /\ "sensor" # "tracker" /\ "world" # "tracker"
    BY DEF Chain!Members
<1>1. CASE Chain!Broadcast
  <2>1. /\ \A m \in Chain!Members : s1[m] = s2
        /\ s2' \in Chain!Follows[s2] /\ s1' = s1 /\ s5' = s5 /\ s6' = s6 /\ s7' = s7 /\ s8' = s8
        /\ s2' # "configure" => s3' = s3
      BY <1>1 DEF Chain!Broadcast
  <2>2. Chain!InStep' /\ Chain!Shapes' /\ Chain!RunIsolated'
      BY <2>1, FollowsAre DEF Chain!InStep, Chain!Shapes, Chain!RunIsolated
  <2>3. CASE s2' = "configure"
    <3>1. s2 = "cleanup"
        BY <2>1, <2>3, FollowsAre DEF Chain!InStep
    <3>2. s1["sensor"] = "cleanup" /\ ~Chain!Active("tracker")
        BY <1>0, <2>1, <3>1 DEF Chain!Active
    <3> QED  BY <2>1, <2>2, <3>2 DEF Chain!SensedInRun, Chain!HeldInRun, Chain!Active
  <2>4. CASE s2' # "configure"
      BY <2>1, <2>2, <2>4 DEF Chain!SensedInRun, Chain!HeldInRun, Chain!Active
  <2> QED  BY <2>3, <2>4
<1>2. CASE Chain!WorldTransition
  <2>1. Chain!Takes("world") /\ s2' = s2 /\ s3' = s3 /\ s5' = s5 /\ s6' = s6 /\ s7' = s7 /\ s8' = s8
      BY <1>2 DEF Chain!WorldTransition
  <2>2. /\ Chain!InStep' /\ s1' \in [Chain!Members -> DOMAIN Chain!Follows]
        /\ s1'["sensor"] = s1["sensor"] /\ s1'["tracker"] = s1["tracker"]
      BY <1>0, <2>1, ChainTakes
  <2> QED  BY <2>1, <2>2 DEF Chain!Shapes, Chain!SensedInRun, Chain!HeldInRun, Chain!Active,
                             Chain!RunIsolated
<1>3. CASE Chain!SensorTransition
  <2>1. Chain!Takes("sensor") /\ s2' = s2 /\ s3' = s3 /\ s6' = s6 /\ s7' = s7 /\ s8' = s8
      BY <1>3 DEF Chain!SensorTransition
  <2>2. /\ Chain!InStep' /\ s1' \in [Chain!Members -> DOMAIN Chain!Follows]
        /\ s1'["sensor"] = s2 /\ s1'["tracker"] = s1["tracker"] /\ s2 \in Chain!Follows[s1["sensor"]]
      BY <1>0, <2>1, ChainTakes
  <2>3. Chain!HeldInRun' /\ Chain!RunIsolated'
      BY <2>1, <2>2 DEF Chain!HeldInRun, Chain!RunIsolated, Chain!Active
  <2>4. DOMAIN s5' = {"own", "states", "due"} /\ Chain!SensedInRun'
    <3>1. CASE s2 = "cleanup"
      <4>1. s5' = [s5 EXCEPT !.own = 0, !.states = Chain!Empty]
          BY <1>3, <3>1 DEF Chain!SensorTransition, Chain!SensorCleanup
      <4> QED  BY <2>1, <4>1 DEF Chain!Shapes, Chain!SensedInRun, Chain!Empty
    <3>2. CASE s2 # "cleanup"
      <4>1. s5' = s5 \/ s5' = [s5 EXCEPT !.due = AisPeriod]
          BY <1>3, <3>2 DEF Chain!SensorTransition
      <4>2. DOMAIN s5' = {"own", "states", "due"} /\ s5'.own = s5.own /\ s5'.states = s5.states
          BY <4>1 DEF Chain!Shapes
      <4>3. s2 = "configure" => s1["sensor"] = "cleanup"
          BY <1>0, <2>2, FollowsAre DEF Chain!Shapes
      <4> QED  BY <2>1, <2>2, <3>2, <4>2, <4>3 DEF Chain!SensedInRun
    <3> QED  BY <3>1, <3>2
  <2> QED  BY <2>1, <2>2, <2>3, <2>4 DEF Chain!Shapes
<1>4. CASE Chain!TrackerTransition
  <2>1. Chain!Takes("tracker") /\ s2' = s2 /\ s3' = s3 /\ s5' = s5 /\ s8' = s8
      BY <1>4 DEF Chain!TrackerTransition
  <2>2. /\ Chain!InStep' /\ s1' \in [Chain!Members -> DOMAIN Chain!Follows]
        /\ s1'["tracker"] = s2 /\ s1'["sensor"] = s1["sensor"] /\ s2 \in Chain!Follows[s1["tracker"]]
      BY <1>0, <2>1, ChainTakes
  <2>3. Chain!SensedInRun' /\ Chain!RunIsolated'
      BY <2>1, <2>2 DEF Chain!SensedInRun, Chain!RunIsolated
  <2>4. DOMAIN s7' = {"ais", "own", "radar", "core", "done"} /\ Chain!HeldInRun'
    <3>1. CASE s2 = "deactivate"
      <4>1. s7' = [s7 EXCEPT !.ais = Chain!Empty, !.own = 0, !.radar = 0] /\ s6' = {}
          BY <1>4, <3>1 DEF Chain!TrackerTransition
      <4> QED  BY <2>1, <4>1 DEF Chain!Shapes, Chain!HeldInRun, Chain!Empty
    <3>2. CASE s2 # "deactivate"
      <4>1. s6' = s6 /\ ( \/ s7' = s7
                          \/ s7' = [s7 EXCEPT !.core = s4.type, !.done = FALSE]
                          \/ s7' = [s7 EXCEPT !.core = Chain!NoCore] )
          BY <1>4, <3>2 DEF Chain!TrackerTransition
      <4>2. DOMAIN s7' = {"ais", "own", "radar", "core", "done"} /\ s7'.own = s7.own /\ s7'.ais = s7.ais
          BY <4>1 DEF Chain!Shapes
      <4>3. ~Chain!Active("tracker")
          BY <1>0, <2>2, <3>2, FollowsAre DEF Chain!Active
      <4> QED  BY <2>1, <4>1, <4>2, <4>3 DEF Chain!HeldInRun
    <3> QED  BY <3>1, <3>2
  <2> QED  BY <2>1, <2>2, <2>3, <2>4 DEF Chain!Shapes
<1>5. ASSUME s1' = s1, s2' = s2
      PROVE  Chain!InStep' /\ (Chain!Active("tracker") <=> Chain!Active("tracker")')
    BY <1>5 DEF Chain!InStep, Chain!Active
<1>6. CASE Chain!OwnState
  <2>1. /\ s1' = s1 /\ s2' = s2 /\ s3' = s3 /\ s6' = s6 /\ s8' = s8
        /\ s5' = s5 \/ (Chain!Active("sensor") /\ s5' = [s5 EXCEPT !.own = s3])
        /\ s7' = s7 \/ (Chain!Active("tracker") /\ s7' = [s7 EXCEPT !.own = s3])
      BY <1>6 DEF Chain!OwnState
  <2>2. /\ DOMAIN s5' = {"own", "states", "due"} /\ s5'.states = s5.states
        /\ s5'.own = s5.own \/ (Chain!Active("sensor") /\ s5'.own = s3)
      BY <2>1 DEF Chain!Shapes
  <2>3. /\ DOMAIN s7' = {"ais", "own", "radar", "core", "done"} /\ s7'.ais = s7.ais
        /\ s7'.own = s7.own \/ (Chain!Active("tracker") /\ s7'.own = s3)
      BY <2>1 DEF Chain!Shapes
  <2>4. Chain!SensedInRun'
      BY <2>1, <2>2 DEF Chain!SensedInRun, Chain!Active
  <2>5. Chain!HeldInRun'
      BY <2>1, <2>3 DEF Chain!HeldInRun, Chain!Active
  <2> QED  BY <1>5, <2>1, <2>2, <2>3, <2>4, <2>5 DEF Chain!Shapes, Chain!RunIsolated
<1>7. ASSUME NEW t \in Targets, Chain!TargetState(t) PROVE ChainInv'
  <2>1. /\ s1' = s1 /\ s2' = s2 /\ s3' = s3 /\ s6' = s6 /\ s7' = s7 /\ s8' = s8
        /\ Chain!Active("sensor")
        /\ s5' = [s5 EXCEPT !.states = [u \in DOMAIN s5.states \cup {t} |->
                                            IF u = t THEN s3 ELSE s5.states[u]]]
      BY <1>7 DEF Chain!TargetState
  <2>2. /\ DOMAIN s5' = {"own", "states", "due"} /\ s5'.own = s5.own
        /\ s5'.states = [u \in DOMAIN s5.states \cup {t} |-> IF u = t THEN s3 ELSE s5.states[u]]
      BY <2>1 DEF Chain!Shapes
  <2>3. Chain!SensedInRun'
      BY <2>1, <2>2 DEF Chain!SensedInRun, Chain!Active
  <2> QED  BY <1>5, <2>1, <2>2, <2>3 DEF Chain!Shapes, Chain!RunIsolated, Chain!HeldInRun
<1>8. CASE Chain!RadarCallback
  <2>1. /\ s1' = s1 /\ s2' = s2 /\ s3' = s3 /\ s5' = s5 /\ s6' = s6 /\ s8' = s8
        /\ s7' = [s7 EXCEPT !.radar = s3]
      BY <1>8 DEF Chain!RadarCallback
  <2>2. DOMAIN s7' = {"ais", "own", "radar", "core", "done"} /\ s7'.ais = s7.ais /\ s7'.own = s7.own
      BY <2>1 DEF Chain!Shapes
  <2> QED  BY <1>5, <2>1, <2>2 DEF Chain!Shapes, Chain!RunIsolated, Chain!HeldInRun, Chain!SensedInRun
<1>9. CASE Chain!AisCallback
  <2>1. /\ s1' = s1 /\ s2' = s2 /\ s3' = s3 /\ s7' = s7 /\ s8' = s8
        /\ s5' = [s5 EXCEPT !.due = AisPeriod]
      BY <1>9 DEF Chain!AisCallback
  <2>2. DOMAIN s5' = {"own", "states", "due"} /\ s5'.own = s5.own /\ s5'.states = s5.states
      BY <2>1 DEF Chain!Shapes
  <2>3. PICK kept \in SUBSET DOMAIN s5.states :
            s6' = IF s5.own = 0 \/ ~Chain!Active("tracker") THEN s6
                  ELSE s6 \cup {[mmsi |-> t, report |-> s5.states[t]] : t \in kept}
      BY <1>9 DEF Chain!AisCallback
  <2>4. \A t \in kept : s5.states[t] = s3
      BY DEF Chain!SensedInRun
  <2>5. (\A m \in s6' : m.report = s3) /\ (~Chain!Active("tracker") => s6' = s6)
      BY <2>3, <2>4 DEF Chain!HeldInRun
  <2>6. Chain!HeldInRun'
      BY <1>5, <2>1, <2>5 DEF Chain!HeldInRun
  <2>7. Chain!SensedInRun'
      BY <2>1, <2>2 DEF Chain!SensedInRun
  <2> QED  BY <1>5, <2>1, <2>2, <2>6, <2>7 DEF Chain!Shapes, Chain!RunIsolated
<1>10. ASSUME NEW m \in s6, Chain!AisArrives(m) PROVE ChainInv'
  <2>1. /\ s1' = s1 /\ s2' = s2 /\ s3' = s3 /\ s5' = s5 /\ s8' = s8 /\ s6' = s6 \ {m}
        /\ s7' = [s7 EXCEPT !.ais = [u \in DOMAIN s7.ais \cup {m.mmsi} |->
                                        IF u = m.mmsi THEN [report |-> m.report, age |-> 0] ELSE s7.ais[u]]]
      BY <1>10 DEF Chain!AisArrives
  <2>2. /\ DOMAIN s7' = {"ais", "own", "radar", "core", "done"} /\ s7'.own = s7.own
        /\ s7'.ais = [u \in DOMAIN s7.ais \cup {m.mmsi} |->
                         IF u = m.mmsi THEN [report |-> m.report, age |-> 0] ELSE s7.ais[u]]
      BY <2>1 DEF Chain!Shapes
  <2>3. m.report = s3 /\ Chain!Active("tracker")
      BY DEF Chain!HeldInRun
  <2>4. Chain!HeldInRun'
      BY <1>5, <2>1, <2>2, <2>3 DEF Chain!HeldInRun
  <2> QED  BY <1>5, <2>1, <2>2, <2>4 DEF Chain!Shapes, Chain!RunIsolated, Chain!SensedInRun
<1>11. CASE Chain!TrackCallback
  <2> DEFINE fresh == {t \in DOMAIN s7.ais : Chain!Fresh(t)}
  <2>1. /\ s1' = s1 /\ s2' = s2 /\ s3' = s3 /\ s5' = s5 /\ s6' = s6 /\ Chain!Active("tracker")
        /\ s7' = [s7 EXCEPT !.ais = Chain!Restrict(@, fresh), !.done = TRUE]
        /\ s8' = {[track |-> Chain!Track(s7.core, t, s7.ais[t].report), own |-> s7.own, during |-> s3] :
                     t \in fresh}
      BY <1>11 DEF Chain!TrackCallback
  <2> HIDE DEF fresh
  <2>2. fresh \subseteq DOMAIN s7.ais  BY DEF fresh
  <2>3. /\ DOMAIN s7' = {"ais", "own", "radar", "core", "done"} /\ s7'.own = s7.own
        /\ s7'.ais = [t \in fresh |-> s7.ais[t]]
      BY <2>1 DEF Chain!Shapes, Chain!Restrict
  <2>4. Chain!HeldInRun'
      BY <1>5, <2>1, <2>2, <2>3 DEF Chain!HeldInRun
  <2>5. Chain!RunIsolated'
    <3> SUFFICES ASSUME NEW o \in s8' PROVE o.track.report = o.during /\ o.own \in {0, o.during}
        BY DEF Chain!RunIsolated
    <3>1. PICK t \in fresh :
              o = [track |-> Chain!Track(s7.core, t, s7.ais[t].report), own |-> s7.own, during |-> s3]
        BY <2>1
    <3>2. o.track.report = s7.ais[t].report /\ o.during = s3 /\ o.own = s7.own
        BY <3>1 DEF Chain!Track
    <3> QED  BY <2>2, <3>2 DEF Chain!HeldInRun
  <2> QED  BY <1>5, <2>1, <2>3, <2>4, <2>5 DEF Chain!Shapes, Chain!SensedInRun
<1>12. CASE Chain!Tick
  <2> DEFINE older == [t \in DOMAIN s7.ais |-> Chain!Older(s7.ais[t])]
  <2>1. /\ s1' = s1 /\ s2' = s2 /\ s3' = s3 /\ s6' = s6 /\ s8' = s8
        /\ s5' = s5 \/ s5' = [s5 EXCEPT !.due = @ - 1]
        /\ s7' = [s7 EXCEPT !.done = FALSE, !.ais = older]
      BY <1>12 DEF Chain!Tick
  <2>2. DOMAIN s5' = {"own", "states", "due"} /\ s5'.own = s5.own /\ s5'.states = s5.states
      BY <2>1 DEF Chain!Shapes
  <2>3. /\ DOMAIN older = DOMAIN s7.ais
        /\ \A t \in DOMAIN older : older[t].report = s7.ais[t].report
      BY DEF Chain!Older
  <2> HIDE DEF older
  <2>4. /\ DOMAIN s7' = {"ais", "own", "radar", "core", "done"} /\ s7'.own = s7.own
        /\ s7'.ais = older
      BY <2>1 DEF Chain!Shapes
  <2>5. Chain!SensedInRun'
      BY <2>1, <2>2 DEF Chain!SensedInRun
  <2>6. Chain!HeldInRun'
      BY <1>5, <2>1, <2>3, <2>4 DEF Chain!HeldInRun
  <2> QED  BY <1>5, <2>1, <2>2, <2>3, <2>4, <2>5, <2>6 DEF Chain!Shapes, Chain!RunIsolated
<1> QED  BY <1>1, <1>2, <1>3, <1>4, <1>6, <1>7, <1>8, <1>9, <1>10, <1>11, <1>12 DEF Chain!Next

-----------------------------------------------------------------------------
(* The parts together: a behaviour is one of a single part.                 *)

RuntimeInv ==
    /\ part = "roc" => Roc!AnswersMatch
    /\ part = "route" => RouteInv
    /\ part = "target" => TargetInv
    /\ part = "chain" => ChainInv

LEMMA RuntimeInit == Init => RuntimeInv
<1> SUFFICES ASSUME Init PROVE RuntimeInv
    OBVIOUS
<1>1. /\ part = "roc" => Roc!Init
      /\ part = "route" => Route!Init
      /\ part = "target" => Target!Init
      /\ part = "chain" => Chain!Init
    BY DEF Init
<1> QED  BY <1>1, RocInit, RouteInit, TargetInit, ChainInit DEF RuntimeInv

LEMMA RuntimeStays ==
    ASSUME RuntimeInv, UNCHANGED vars
    PROVE  RuntimeInv'
<1> USE DEF vars
<1>1. Roc!AnswersMatch => Roc!AnswersMatch'
    BY DEF Roc!AnswersMatch
<1>2. RouteInv => RouteInv'
    BY DEF RouteInv, Route!PendingIsNewest, Route!NewestKept
<1>3. TargetInv => TargetInv'
    BY DEF TargetInv, FsmInv, Target!TypeOK, Target!OneFsmTarget, Target!ClearIsClear, Target!StartedIsSeen
<1>4. ChainInv => ChainInv'
    BY DEF ChainInv, Chain!Shapes, Chain!InStep, Chain!SensedInRun, Chain!HeldInRun, Chain!RunIsolated,
           Chain!Active
<1> QED  BY <1>1, <1>2, <1>3, <1>4 DEF RuntimeInv

LEMMA RuntimeStep ==
    ASSUME RuntimeInv, Next
    PROVE  RuntimeInv' /\ (part = "target" => Target!ReturnsAfterDwell /\ Target!ReactsAfterDelay)
<1>1. /\ part' = part
      /\ part = "roc" => Roc!Next
      /\ part = "route" => Route!Next
      /\ part = "target" => Target!Next
      /\ part = "chain" => Chain!Next
    BY DEF Next
<1> QED  BY <1>1, RocStep, RouteStep, TargetStep, ChainStep DEF RuntimeInv

(* Each of the nodes keeps the invariant that its promise rests on: answers   *)
(* match requests, a pending route is the newest, the machine's ages agree    *)
(* with the history, and sensor and tracker hold only what this run gave.     *)
THEOREM RuntimeSafe == Spec => []RuntimeInv
<1>1. RuntimeInv /\ [Next]_vars => RuntimeInv'
    BY RuntimeStays, RuntimeStep
<1> QED  BY RuntimeInit, <1>1, PTL DEF Spec

(* Whatever arrives when: no take-over request is answered twice, however the *)
(* operator, timers that could not be cancelled and newer requests race; the  *)
(* newest valid route plan is forwarded or waiting, through failures, retries *)
(* and repeated plans; at most one target obeys the rules, over any sequence  *)
(* of configurations, failed ones too, additions and removals; and no track   *)
(* of an earlier run is published, in whatever order the nodes take the       *)
(* transitions of the lifecycle.                                             *)
THEOREM RuntimeNothingStale == Spec => []NothingStale
<1>1. RuntimeInv => NothingStale
  <2>1. Roc!AnswersMatch => Roc!OneAnswer
      BY RuntimeAssumption DEF Roc!AnswersMatch, Roc!OneAnswer
  <2> QED  BY <2>1 DEF RuntimeInv, NothingStale, RouteInv, TargetInv, ChainInv
<1> QED  BY RuntimeSafe, <1>1, PTL

(* The target gives way only when it has seen the encounter for the whole     *)
(* reaction delay, and returns only when it has seen none for the whole       *)
(* dwell, though encounters flicker, change their rule, and the own ship      *)
(* falls silent between.                                                      *)
THEOREM TargetPatient == Spec => TargetTakesItsTime
<1>1. RuntimeInv /\ [Next]_vars =>
          [part = "target" => Target!ReturnsAfterDwell /\ Target!ReactsAfterDelay]_vars
    BY RuntimeStep
<1> QED  BY RuntimeSafe, <1>1, PTL DEF Spec, TargetTakesItsTime
=============================================================================
