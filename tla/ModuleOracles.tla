---------------------------- MODULE ModuleOracles ----------------------------
(***************************************************************************)
(* The per-module oracles of a COLREGs run and what is extracted for them    *)
(* from the trace: M6's rule, role, direction and stability, M4's release    *)
(* after M6's, M2's geometry, M1's envelope, M3's life cycle, M5's routes,   *)
(* L4's handoff.  Rows are in event time order; a topic's fields:            *)
(*   m6    conflict, role, dir, past, release, target, extremis; rule (13,   *)
(*         14, 15 or 0) with ruleRole and ruleDir, the row's sector rule     *)
(*   m4    beh, closing (None when not said)                                *)
(*   m2    brg, cpa, tcpa, target (None when not said), pos, and sensed: the *)
(*         [cpa, tcpa] that its sensor fields give, or NotSensed             *)
(*   m5    branch, status, ok (complete, preflighted, >= 2 points), plan     *)
(*   own   hdg, pos    gnc  avoids, accepted    odd  env, score, stale       *)
(*   goal  fsm         asdr what (resolved, reset, return_rejected, override)*)
(***************************************************************************)
EXTENDS Integers, Sequences, SequencesExt, FiniteSets, FiniteSetsExt

None == -9999

Rows(trace, topic) == SelectSeq(trace, LAMBDA r : r.topic = topic)

Said(trace, what) == \E i \in DOMAIN trace : trace[i].topic = "asdr" /\ trace[i].what = what

\* The most frequent value, the earliest of several; "" of none.
Mode(s) ==
    LET count(v) == Cardinality({i \in DOMAIN s : s[i] = v})
        first(v) == Min({i \in DOMAIN s : s[i] = v})
    IN IF s = <<>> THEN ""
       ELSE CHOOSE v \in ToSet(s) : \A w \in ToSet(s) :
               count(w) < count(v) \/ (count(w) = count(v) /\ first(v) <= first(w))

\* The failed check, if it failed.
Check(failed, name) == IF failed THEN {name} ELSE {}
-----------------------------------------------------------------------------
(* M6's trace.                                                              *)

Conflicts(m6) == SelectSeq(m6, LAMBDA r : r.conflict)

\* _dominant_rule_id over a set of rules: head-on, crossing, overtaking.
DominantRule(rules) ==
    CASE 14 \in rules -> 14 [] 15 \in rules -> 15 [] 13 \in rules -> 13 [] OTHER -> 0

\* The rows that are judged: those of the conflict, and where there is none those that
\* name the own ship the stand-on vessel of a sector rule.
Diagnostic(m6) ==
    IF Conflicts(m6) # <<>> THEN Conflicts(m6)
    ELSE SelectSeq(m6, LAMBDA r : r.rule # 0 /\ r.ruleRole = "STAND_ON")

\* Changes of the dominant rule, over the rows that have one.
Flips(rules) ==
    LET named == SelectSeq(rules, LAMBDA r : r # 0)
    IN Cardinality({i \in 2..Len(named) : named[i] # named[i - 1]})

ConflictDwell == 10

\* The time of the last change to "no conflict" before row i, None if there is none.
LastFalse(m6, i) ==
    LET f == {j \in 2..(i - 1) : ~m6[j].conflict /\ m6[j - 1].conflict}
    IN IF f = {} THEN None ELSE m6[Max(f)].t

\* _debounced_conflict_onsets: a rise, clear for the dwell before.
IsOnset(m6, i) ==
    /\ m6[i].conflict /\ (i = 1 \/ ~m6[i - 1].conflict)
    /\ LastFalse(m6, i) = None \/ m6[i].t - LastFalse(m6, i) >= ConflictDwell

Onsets(m6) == {m6[i].t : i \in {j \in DOMAIN m6 : IsOnset(m6, j)}}

ShortIntervals(m6) ==
    {p \in Onsets(m6) \X Onsets(m6) : p[1] < p[2] /\ p[2] - p[1] < ConflictDwell}

\* Not followed by a conflict within the dwell.
StaysClear(m6, i) ==
    LET later == {j \in DOMAIN m6 : j > i /\ m6[j].conflict}
    IN later = {} \/ m6[Min(later)].t - m6[i].t >= ConflictDwell

\* _stable_conflict_cleared_t, None if never.
ClearedTime(m6) ==
    LET c == {i \in DOMAIN m6 : /\ ~m6[i].conflict /\ \E j \in 1..i : m6[j].conflict
                                /\ StaysClear(m6, i)}
    IN IF c = {} THEN None ELSE m6[Min(c)].t

\* _m6_lifecycle_evidence: conflicts after the first past-and-clear row.
RearmedAfterRelease(m6) ==
    LET p == {i \in DOMAIN m6 : m6[i].past}
    IN p # {} /\ \E i \in DOMAIN m6 : i > Min(p) /\ m6[i].conflict

\* A resolved encounter leaves a release and a past-and-clear row.
ReleaseMissing(trace, m6) ==
    /\ Said(trace, "resolved")
    /\ ~(\E i \in DOMAIN m6 : m6[i].release) \/ ~(\E i \in DOMAIN m6 : m6[i].past)

PlanHorizon == 720
EmergencyHorizon == 60

Gap(a, b) == IF a < b THEN b - a ELSE a - b

\* _m6_onset_tcpa_s: M2's TCPA nearest to the first conflict, the earlier of two.
OnsetTcpa(trace, m6) ==
    LET c == {i \in DOMAIN m6 : m6[i].conflict}
        m2 == SelectSeq(Rows(trace, "m2"), LAMBDA r : r.tcpa # None)
        gap(i) == Gap(m2[i].t, m6[Min(c)].t)
    IN IF c = {} \/ m2 = <<>> THEN None
       ELSE m2[CHOOSE i \in DOMAIN m2 : \A j \in DOMAIN m2 :
                  gap(i) < gap(j) \/ (gap(i) = gap(j) /\ i <= j)].tcpa

OnsetOutOfWindow(tcpa) == tcpa # None /\ (tcpa > PlanHorizon \/ tcpa <= EmergencyHorizon)

\* _m6_target_identity_evidence: ids M2 does not know; aliases share the low word.
Word == 4   \* 2^32 in the code

M2Ids(trace) == {r.target : r \in ToSet(Rows(trace, "m2"))} \ {None}

UnknownTargets(m6, m2ids) == {r.target : r \in ToSet(m6)} \ (m2ids \cup {None})

WidthAliases(m6, m2ids) ==
    {a \in UnknownTargets(m6, m2ids) : \E id \in m2ids : id >= Word /\ id % Word = a}

IdentityFailures(m6, m2ids) ==
    IF m2ids = {} \/ UnknownTargets(m6, m2ids) = {} THEN {}
    ELSE IF WidthAliases(m6, m2ids) # {} THEN {"TARGET_ID_WIDTH_ALIAS"}
    ELSE {"TARGET_IDENTITY_MISMATCH"}

\* extract_m6_output
M6Output(m6) ==
    LET d == Diagnostic(m6)
        active == Conflicts(m6) # <<>>
        rule == DominantRule({r.rule : r \in ToSet(d)})
        named == SelectSeq(d, LAMBDA r : r.rule = rule)
    IN [rows |-> d, rule |-> rule,
        role |-> Mode(IF active THEN [i \in DOMAIN d |-> d[i].role]
                      ELSE [i \in DOMAIN named |-> named[i].ruleRole]),
        dir |-> Mode(SelectSeq(IF active THEN [i \in DOMAIN d |-> d[i].dir]
                               ELSE [i \in DOMAIN named |-> named[i].ruleDir], LAMBDA x : x # "")),
        extremis |-> \E r \in ToSet(d) : r.extremis,
        flips |-> Flips([i \in DOMAIN d |-> d[i].rule])]

\* extract_compiled: the head-on own ship always gives way, and so does an undeclared one.
Compiled(rule, declared, boundary) ==
    LET role == IF rule # 14 /\ declared = "target" THEN "STAND_ON" ELSE "GIVE_WAY" IN
    [rule |-> rule, role |-> role, boundary |-> boundary,
     allowed |-> IF role = "STAND_ON" THEN {"HOLD"} ELSE {"STARBOARD_TURN", "DECELERATE"}]

\* evaluate_m6_oracle.  compiled is [rule, role, allowed, boundary].
M6Failures(trace, compiled) ==
    LET m6 == Rows(trace, "m6")
        out == M6Output(m6)
        extremis == /\ compiled.role = "STAND_ON" /\ out.extremis
                    /\ out.dir \in {"STARBOARD_TURN", "DECELERATE"}
    IN Check(out.rule # compiled.rule, "WRONG_RULE_CLASSIFICATION")
       \cup Check(out.role # compiled.role, "WRONG_ROLE_ASSIGNMENT")
       \cup Check(/\ compiled.allowed # {} /\ out.dir # ""
                  /\ out.dir \notin compiled.allowed /\ ~extremis, "FORBIDDEN_DIRECTION")
       \cup Check(\/ out.flips > (IF compiled.boundary THEN 2 ELSE 0)
                  \/ out.rows # <<>> /\ ShortIntervals(m6) # {}, "RULE_INSTABILITY")
       \cup Check(ReleaseMissing(trace, m6), "LIFECYCLE_RELEASE_MISSING")
       \cup Check(RearmedAfterRelease(m6), "REARM_AFTER_RELEASE")
       \cup IdentityFailures(out.rows, M2Ids(trace))
       \cup Check(OnsetOutOfWindow(OnsetTcpa(trace, m6)), "ONSET_TCPA_OUT_OF_PLAN_WINDOW")
-----------------------------------------------------------------------------
(* M4's and M2's.                                                           *)

Tolerance == 5

FirstRecovery(m4) ==
    LET r == {i \in DOMAIN m4 : m4[i].beh = "RECOVERY"} IN IF r = {} THEN 0 ELSE Min(r)

\* The closing speed that the first row of the recovery's moment gives.
ClosingAtRelease(m4, r) == m4[Min({i \in DOMAIN m4 : m4[i].t = m4[r].t})].closing

\* Not said counts as closing.
StillClosing(m4, r) == ClosingAtRelease(m4, r) = None \/ ClosingAtRelease(m4, r) > 0

\* evaluate_m4_oracle on extract_m4_events
M4Failures(trace) ==
    LET m4 == Rows(trace, "m4")
        r == FirstRecovery(m4)
        clear == ClearedTime(Rows(trace, "m6"))
        avoided == \E i \in DOMAIN m4 : m4[i].beh = "AVOID"
        again(i) == m4[i].t > m4[r].t /\ m4[i].beh = "AVOID" /\ m4[i - 1].beh # "AVOID"
    IN Check(avoided /\ r # 0 /\ clear # None /\ StillClosing(m4, r) /\ m4[r].t < clear - Tolerance,
             "PREMATURE_RECOVERY_BEFORE_RULE_RELEASE")
       \cup Check(r # 0 /\ \E i \in (r + 1)..Len(m4) : again(i), "RECOVERY_CHATTER_AFTER_RELEASE")

SettleTime == 30
NotSensed == [cpa |-> None, tcpa |-> None]

\* The rows from half a minute on.
Settled(m2) == {i \in DOMAIN m2 : m2[i].t >= m2[1].t + SettleTime}

\* _first_observed_float: of a settled row if one has it, else of any.
Observed(m2, f) ==
    LET has == {i \in DOMAIN m2 : m2[i][f] # None}
        best == IF has \cap Settled(m2) # {} THEN has \cap Settled(m2) ELSE has
    IN IF best = {} THEN None ELSE m2[Min(best)][f]

\* The geometry of the first settled row's sensors, else the compiled one.
M2Truth(m2, truth) ==
    IF m2 = <<>> THEN truth
    ELSE LET s == m2[IF Settled(m2) = {} THEN 1 ELSE Min(Settled(m2))].sensed IN
         IF s = NotSensed THEN truth ELSE [truth EXCEPT !.cpa = s.cpa, !.tcpa = s.tcpa]

Warmup == 60

\* _m2_ownship_consistency: M2's own position against the ship's row nearest in time,
\* within a second; the worst after the warm-up, 0 where nothing can be compared.
OwnError(m2, own) ==
    LET near(i) == {j \in DOMAIN own : Gap(own[j].t, m2[i].t) <= 1}
        best(i) == {j \in near(i) : \A k \in near(i) : Gap(own[j].t, m2[i].t) <= Gap(own[k].t, m2[i].t)}
        err(i)  == Min({Gap(own[j].pos, m2[i].pos) : j \in best(i)})
    IN Max({0} \cup {err(i) : i \in {k \in DOMAIN m2 : m2[k].t >= Warmup /\ near(k) # {}}})

\* A tenth of the true CPA, or 50 m where that is less than 50 m; a true 0 is not compared.
CpaWrong(est, truth) ==
    /\ est # None /\ truth > 0
    /\ IF truth < 50 THEN Gap(est, truth) > 50 ELSE 10 * Gap(est, truth) > truth

\* evaluate_m2_oracle: truth and est are [brg, cpa, tcpa].
JudgeEstimate(truth, est, ownError) ==
    Check(\E f \in {"brg", "cpa", "tcpa"} : est[f] = None, "M2_TRACE_FIELDS_MISSING")
    \cup Check(\/ est.brg # None /\ Gap(est.brg, truth.brg) > 2
               \/ CpaWrong(est.cpa, truth.cpa)
               \/ est.tcpa # None /\ truth.tcpa > 0 /\ 20 * Gap(est.tcpa, truth.tcpa) > truth.tcpa,
               "MEASUREMENT_INCONSISTENT")
    \cup Check(ownError > 500, "OWNSHIP_STATE_INCONSISTENT")

M2Failures(trace, truth) ==
    LET m2 == Rows(trace, "m2") IN
    JudgeEstimate(M2Truth(m2, truth), [f \in {"brg", "cpa", "tcpa"} |-> Observed(m2, f)],
                  OwnError(m2, Rows(trace, "own")))
-----------------------------------------------------------------------------
(* M1's and M3's.                                                           *)

\* Mutant: the last recovery from OUT is judged.
SkippedEdgeLast(odd) ==
    LET leaves == {i \in 2..Len(odd) : odd[i - 1].env = "OUT" /\ odd[i].env \in {"IN", "EDGE"}}
    IN leaves # {} /\ odd[Max(leaves)].env = "IN"

\* The first recovery from OUT goes to IN.
SkippedEdge(odd) ==
    LET leaves == {i \in 2..Len(odd) : odd[i - 1].env = "OUT" /\ odd[i].env \in {"IN", "EDGE"}}
    IN leaves # {} /\ odd[Min(leaves)].env = "IN"

\* extract_m1_output, evaluate_m1_oracle
M1Failures(trace) ==
    LET odd == Rows(trace, "odd")
        env(i) == odd[i].env
        mrc == {i \in DOMAIN odd : env(i) \in {"MRC_PREP", "MRC_ACTIVE"}}
    IN IF odd = <<>> THEN {"M1_ENVELOPE_TRACE_EMPTY"}
       ELSE Check(\E i \in DOMAIN odd : env(i) \notin {"IN", "EDGE", "OUT", "MRC_PREP", "MRC_ACTIVE"},
                  "M1_ENVELOPE_INVALID_STATE")
            \cup Check(/\ \E i \in DOMAIN odd : odd[i].stale
                       /\ ~\E i \in 2..Len(odd) : odd[i].stale /\ odd[i].score < odd[i - 1].score,
                       "M1_STALE_INPUT_NOT_DEGRADED")
            \cup Check(SkippedEdge(odd), "M1_RECOVERY_SKIPPED_EDGE")
            \cup Check(mrc # {} /\ \E i \in DOMAIN odd : i > Max(mrc) /\ env(i) \notin {"IN", "EDGE"},
                       "M1_MRC_OVERRIDE_REGRESSION")

M3States == {"INIT", "IDLE", "TASK_VALIDATION", "AWAITING_ROUTE", "ACTIVE", "REPLAN_WAIT"}

\* _M3_VALID_TRANSITIONS
M3Transitions ==
    { <<"INIT", "IDLE">>, <<"IDLE", "TASK_VALIDATION">>, <<"TASK_VALIDATION", "AWAITING_ROUTE">>,
      <<"TASK_VALIDATION", "IDLE">>, <<"AWAITING_ROUTE", "ACTIVE">>, <<"AWAITING_ROUTE", "REPLAN_WAIT">>,
      <<"ACTIVE", "REPLAN_WAIT">>, <<"ACTIVE", "IDLE">>, <<"REPLAN_WAIT", "ACTIVE">>,
      <<"REPLAN_WAIT", "IDLE">> } \cup {<<f, f>> : f \in M3States}

LegalWalk(g) == \A i \in 2..Len(g) : <<g[i - 1].fsm, g[i].fsm>> \in M3Transitions

\* extract_m3_output, evaluate_m3_oracle
M3Failures(trace) ==
    LET g == Rows(trace, "goal") IN
    IF g = <<>> THEN {"M3_FSM_TRACE_EMPTY"}
    ELSE Check(\E i \in DOMAIN g : g[i].fsm \notin M3States, "M3_FSM_INVALID_STATE")
         \cup Check(~LegalWalk(g), "M3_FSM_ILLEGAL_TRANSITION")
         \cup Check(Said(trace, "reset") /\ Last(g).fsm # "IDLE", "M3_RESET_DID_NOT_RETURN_TO_IDLE")
-----------------------------------------------------------------------------
(* M5's and L4's, and the run of them.                                      *)

\* _m5_route_invalid_reasons: none
ValidRoute(r) == r.branch \in {1, 2, 3} /\ r.ok /\ r.plan # ""

\* EMPTY followed by VALID, other statuses passed over.
Oscillations(m5) ==
    LET s == SelectSeq(m5, LAMBDA r : r.status \in {"VALID", "EMPTY"})
    IN Cardinality({i \in 2..Len(s) : s[i].status = "VALID" /\ s[i - 1].status = "EMPTY"})

\* Decisions recorded from t on.
SaidFrom(trace, what, t) ==
    \E i \in DOMAIN trace : trace[i].topic = "asdr" /\ trace[i].what = what /\ trace[i].t >= t

\* extract_m5_plan_output, evaluate_m5_oracle; branch 2 is the corridor, 3 the return,
\* 5 the follower of BC-MPC.
M5Failures(trace, required) ==
    LET m5 == Rows(trace, "m5")
        m4 == Rows(trace, "m4")
        r == FirstRecovery(m4)
        returning(b) == \E i \in DOMAIN m5 : m5[i].t >= m4[r].t /\ m5[i].branch = b
        follow == {i \in DOMAIN m5 : m5[i].branch = 5}
    IN Check(required /\ ~\E i \in DOMAIN m5 : ValidRoute(m5[i]), "NO_FEASIBLE_PLAN")
       \cup Check(Oscillations(m5) > 1, "PLAN_INSTABILITY")
       \cup Check(/\ required /\ m5 # <<>> /\ r # 0
                  /\ returning(2) \/ SaidFrom(trace, "return_rejected", m4[r].t)
                  /\ ~returning(3), "RECOVERY_RETURN_ROUTE_MISSING")
       \cup Check(follow # {} /\ ~SaidFrom(trace, "override", m5[Min(follow)].t),
                  "BCMPC_FOLLOW_WITHOUT_REACTIVE_OVERRIDE")

\* _first_avoidance_onset and _first_release_after_avoidance, None if there is none.
FirstAvoidanceOnset(m4) ==
    LET a == {i \in DOMAIN m4 : m4[i].beh = "AVOID"} IN IF a = {} THEN None ELSE m4[Min(a)].t

FirstReleaseAfterAvoidance(m4) ==
    LET a == {i \in DOMAIN m4 : m4[i].beh \in {"AVOID", "RECOVERY"}}
        f == {i \in DOMAIN m4 : m4[i].beh = "TRANSIT" /\ i > Max(a)}
    IN IF a = {} \/ f = {} THEN None ELSE m4[Min(f)].t

InL4Window(t, command, release) == command <= t /\ (release = None \/ t <= release)

Larger(a, b) == IF a < b THEN b ELSE a

\* The own ship's rows of the window, those after the command when it has none.
Manoeuvre(own, command, release) ==
    LET w == SelectSeq(own, LAMBDA r : InL4Window(r.t, command, release))
    IN IF w = <<>> THEN SelectSeq(own, LAMBDA r : r.t >= command) ELSE w

\* extract_l4_actuation: when half of the largest turn was made, the turn, the acceptance.
L4Actuation(trace, command, release) ==
    LET own == Rows(trace, "own")
        pre == SelectSeq(own, LAMBDA r : r.t <= command)
        base == IF pre = <<>> THEN 0 ELSE Last(pre).hdg
        w == Manoeuvre(own, command, release)
        dev(r) == LET d == Gap(r.hdg, base) % 360 IN IF d > 180 THEN 360 - d ELSE d
        turn == Max({0} \cup {dev(w[i]) : i \in DOMAIN w})
        made == {i \in DOMAIN w : 2 * dev(w[i]) >= Larger(10, turn)}
        gnc == IF w = <<>> THEN <<>> ELSE Rows(trace, "gnc")
        acc == {i \in DOMAIN gnc : /\ InL4Window(gnc[i].t, command, release)
                                  /\ gnc[i].avoids /\ gnc[i].accepted}
    IN [realized |-> IF made = {} THEN command ELSE w[Min(made)].t, turn |-> turn,
        status |-> gnc # <<>>, accepted |-> IF acc = {} THEN None ELSE gnc[Min(acc)].t]

\* evaluate_l4_oracle; these traces carry no proof of the route's identity.
L4Failures(command, a) ==
    (IF a.status
     THEN IF a.accepted = None THEN {"ROUTE_NOT_ACCEPTED"}
          ELSE Check(a.accepted - command > 10, "ROUTE_HANDOFF_DELAY_EXCEEDED")
     ELSE Check(a.realized - command > 20, "ACTUATION_DELAY_EXCEEDED"))
    \cup Check(a.turn < 10, "INSUFFICIENT_ACTION")

\* run_oracles, M7 apart: what failed of each module.
RunOracles(trace, compiled, truth) ==
    LET m4 == Rows(trace, "m4")
        command == FirstAvoidanceOnset(m4)
        required == command # None
    IN [M2 |-> M2Failures(SelectSeq(trace, LAMBDA r : r.topic = "m2"), truth),
        M4 |-> M4Failures(trace),
        M5 |-> M5Failures(trace, required),
        M6 |-> M6Failures(trace, compiled),
        L4 |-> IF ~required THEN {}
               ELSE L4Failures(command, L4Actuation(trace, command, FirstReleaseAfterAvoidance(m4)))]

AllPassed(results) == \A m \in DOMAIN results : results[m] = {}
-----------------------------------------------------------------------------

\* The instability check by intervals never fails: two debounced onsets are always at
\* least the dwell apart, whatever the trace.
OnsetsAreApart(m6) == ShortIntervals(m6) = {}

\* M4 is judged against a release that lasted: no conflict within the dwell after it,
\* and none of the releases before it did.
ReleaseLasts(m6) ==
    LET t == ClearedTime(m6) IN
    t # None => \A i \in DOMAIN m6 : m6[i].conflict => m6[i].t < t \/ m6[i].t >= t + ConflictDwell

\* A rule that M6 leaves out for a while and names again has not flipped, and a rule
\* replaced by another has, however many rows without a rule lie between.
FlipsAreChanges(rules) ==
    LET rs == {rules[i] : i \in DOMAIN rules} \ {0}
    IN /\ Cardinality(rs) <= 1 => Flips(rules) = 0
       /\ Flips(rules) >= Cardinality(rs) - 1

\* A green M6 held on to one sector: whatever rows without a rule lie between, every
\* rule it named in the conflict is the compiled one, and a conflict it had declared
\* past and clear it did not take up again.
SectorIsFixed(trace, compiled) ==
    M6Failures(trace, compiled) = {} /\ ~compiled.boundary =>
        LET m6 == Rows(trace, "m6") IN
        \A i \in DOMAIN m6 : m6[i].conflict =>
            m6[i].rule \in {0, compiled.rule} /\ \A j \in 1..(i - 1) : ~m6[j].past

\* A better estimate is never judged worse: where one passes, so does every other that
\* is as close to the truth in each of its numbers, from whichever side.
CloserIsNoWorse(truth, near, far) ==
    (\A f \in DOMAIN near : near[f] # None /\ Gap(near[f], truth[f]) <= Gap(far[f], truth[f]))
    /\ JudgeEstimate(truth, far, 0) = {} => JudgeEstimate(truth, near, 0) = {}

\* M2's estimate and the geometry it is compared with are of the same moment, and not
\* of the alignment at the start, wherever the rows are complete.
SameMoment(m2) ==
    m2 # <<>> /\ (\A i \in DOMAIN m2 : m2[i].cpa # None /\ m2[i].sensed = [cpa |-> m2[i].cpa, tcpa |-> m2[i].tcpa])
    => Observed(m2, "cpa") = M2Truth(m2, [brg |-> 0, cpa |-> None, tcpa |-> None]).cpa

\* Of an envelope that a green M1 shows: the first IN after an OUT has an EDGE or an
\* MRC between, and once the last MRC is over the envelope is never OUT.
LeftByEdge(trace) ==
    LET odd == Rows(trace, "odd")
        e(i) == odd[i].env
    IN M1Failures(trace) = {} =>
        /\ \A i, k \in DOMAIN odd :
              ( /\ i < k /\ e(i) = "OUT" /\ e(k) = "IN"
                /\ \A j \in 1..(k - 1) : j < i => e(j) # "OUT"
                /\ \A j \in (i + 1)..(k - 1) : e(j) # "IN" )
              => \E j \in (i + 1)..(k - 1) : e(j) # "OUT"
        /\ \A i, k \in DOMAIN odd : i < k /\ e(i) = "MRC_ACTIVE" /\ e(k) = "OUT" =>
              \E j \in DOMAIN odd : j > k /\ e(j) \in {"MRC_PREP", "MRC_ACTIVE"}

\* A mission that a green M3 shows active was validated and had its route first, however
\* the walk through the states went.
ActiveWasValidated(trace) ==
    LET g == Rows(trace, "goal") IN
    M3Failures(trace) = {} /\ g[1].fsm = "INIT" =>
        \A i \in DOMAIN g : g[i].fsm = "ACTIVE" =>
            \E j, k \in 1..(i - 1) : j < k /\ g[j].fsm = "TASK_VALIDATION" /\ g[k].fsm = "AWAITING_ROUTE"

\* A green M5 lost its plan and found another at most once, whatever it reported between.
PlanFoundOnce(trace) ==
    M5Failures(trace, FALSE) = {} =>
        LET m5 == Rows(trace, "m5") s(i) == m5[i].status IN
        ~\E i, j, k, l \in DOMAIN m5 :
            /\ i < j /\ j < k /\ k < l
            /\ s(i) = "EMPTY" /\ s(j) = "VALID" /\ s(k) = "EMPTY" /\ s(l) = "VALID"

\* A run in which every module is green and M4 avoided: M5 had a route, the guidance,
\* if it reported at all, took a route of the avoidance within ten seconds of the order
\* and before the release, and the ship left the course it steered at the order.
GreenRunManoeuvred(trace, compiled, truth) ==
    LET m4 == Rows(trace, "m4") IN
    AllPassed(RunOracles(trace, compiled, truth)) /\ FirstAvoidanceOnset(m4) # None =>
        LET t == FirstAvoidanceOnset(m4) IN
        /\ \E r \in ToSet(Rows(trace, "m5")) : ValidRoute(r)
        /\ LET own == ToSet(Rows(trace, "own")) IN
           \E a, b \in own : /\ a.t <= t /\ t <= b.t /\ Gap(a.hdg, b.hdg) >= 10
                            /\ \A c \in own : c.t <= t => c.t <= a.t
        /\ Rows(trace, "gnc") # <<>> =>
              \E r \in ToSet(Rows(trace, "gnc")) :
                  /\ r.avoids /\ r.accepted /\ t <= r.t /\ r.t <= t + 10
                  /\ \A q \in ToSet(m4) : q.beh = "TRANSIT" /\ q.t < r.t => q.t < t \/
                        \E p \in ToSet(m4) : p.t > q.t /\ p.beh \in {"AVOID", "RECOVERY"}

-----------------------------------------------------------------------------
(* The oracles of the minimum risk manoeuvre chain, from the rows of a       *)
(* trace: M7 requests (alert), M1 alone commands (cmd), the guidance         *)
(* acknowledges (status) and follows (exec), M4 mirrors the command (m4) and *)
(* M5 keeps silent (m5).                                                    *)
(*   alert  severity, mrm (0 when it names no canonical one)                 *)
(*   cmd    id, gen, type, mrm, validity, feasible; on its topic or foreign  *)
(*   status id, gen, state           exec  source                           *)
(*   m4     type, id ("" none), gen (0 none)     m5  fresh      veto         *)

Ever == 100000

\* An M7 request: a canonical manoeuvre at MRC severity.
Requests(trace) == {r \in ToSet(Rows(trace, "alert")) : r.mrm # 0 /\ r.severity >= 3}

\* _latest_command
LatestCommand(trace) == Last(Rows(trace, "cmd"))

Commanded(trace) == Rows(trace, "cmd") # <<>>
-----------------------------------------------------------------------------
(* M7, the checker.                                                         *)

\* extract_m7_veto: a request in the commands' window; a veto with no alert at all.
M7Failures(trace) ==
    LET cmds == Rows(trace, "cmd")
        covered == \E r \in Requests(trace) :
            Head(cmds).t - Last(cmds).validity <= r.t /\ r.t <= Last(cmds).t + 1
    IN (IF cmds # <<>> /\ ~covered THEN {"UNSAFE_COMMAND_WITHOUT_M7_RECOMMENDATION"} ELSE {})
       \cup (IF Rows(trace, "veto") # <<>> /\ Rows(trace, "alert") = <<>>
             THEN {"SAFE_COMMAND_WRONGLY_VETOED"} ELSE {})
-----------------------------------------------------------------------------
(* M1, the authority.                                                       *)

\* An id that changes under one generation.
IdChurn(cmds) ==
    \E i \in 2..Len(cmds) : cmds[i].id # cmds[i - 1].id /\ cmds[i].gen = cmds[i - 1].gen

\* Unknown manoeuvre names are not a mismatch.
TaxonomyMismatch(cmds) == \E i \in DOMAIN cmds : cmds[i].mrm # 0 /\ cmds[i].mrm # cmds[i].type

\* extract_m1_mrm_authority, evaluate_m1_mrm_authority_oracle
CommandFailures(trace) ==
    LET cmds == Rows(trace, "cmd")
        foreign == Rows(trace, "foreign")
    IN (IF Requests(trace) # {} /\ cmds = <<>> THEN {"MRC_REQUEST_WITHOUT_M1_COMMAND"} ELSE {})
       \cup (IF foreign # <<>> THEN {"NON_M1_MRM_PUBLISHER"} ELSE {})
       \cup (IF \E i \in DOMAIN cmds : ~cmds[i].feasible THEN {"M1_COMMAND_NOT_ODD_FEASIBLE"} ELSE {})
       \cup (IF IdChurn(cmds) THEN {"M1_COMMAND_ID_CHURN"} ELSE {})
       \cup (IF TaxonomyMismatch(cmds) THEN {"MRM_TAXONOMY_MISMATCH"} ELSE {})
-----------------------------------------------------------------------------
(* The guidance, the executor.                                              *)

\* Mutant: an acknowledgement of an earlier generation counts.
MatchingById(trace) ==
    LET c == LatestCommand(trace)
    IN {r \in ToSet(Rows(trace, "status")) : r.id = c.id}

Matching(trace) ==
    LET c == LatestCommand(trace)
    IN {r \in ToSet(Rows(trace, "status")) : r.id = c.id /\ r.gen = c.gen}

CommandWindow(c, none) == c.t .. (c.t + (IF c.validity > 0 THEN c.validity ELSE none))

\* extract_l4_gnc_execution, evaluate_l4_gnc_oracle.  The generations of matching rows
\* are equal, so the oracle's generation check cannot fail.
GncFailures(trace) ==
    LET c == LatestCommand(trace)
        match == Matching(trace)
        status == ToSet(Rows(trace, "status"))
        acknowledged == \E r \in match : r.state \in {"ACCEPTED", "EXECUTING", "COMPLETED"}
    IN IF ~Commanded(trace) THEN {}
       ELSE (IF ~acknowledged THEN {"M1_MRM_COMMAND_WITHOUT_GNC_ACK"} ELSE {})
            \cup (IF match = {} /\ \E r \in status : r.id # "" /\ r.id # c.id
                  THEN {"M1_MRM_COMMAND_ID_MISMATCH"} ELSE {})
            \cup (IF \E r \in match : r.state = "REJECTED" THEN {"M1_MRM_COMMAND_REJECTED"} ELSE {})
            \cup (IF \E r \in match : r.state = "STALE_HOLDING"
                  THEN {"M1_MRM_HEARTBEAT_STALE_AT_GNC"} ELSE {})
            \cup (IF /\ c.type \in {1, 2}
                     /\ \E r \in ToSet(Rows(trace, "exec")) :
                           r.t \in CommandWindow(c, Ever) /\ r.source \notin {"", "MRM"}
                  THEN {"GNC_NON_MRM_SOURCE_DURING_MRM"} ELSE {})
-----------------------------------------------------------------------------
(* M4, the mirror, and M5, silent.                                          *)

\* extract_m4_mrm_telemetry
TelemetryMismatch(trace) ==
    LET c == LatestCommand(trace)
    IN Commanded(trace) /\ \E r \in ToSet(Rows(trace, "m4")) :
          /\ r.t >= c.t /\ r.type # 0
          /\ r.type # c.type \/ (r.id # "" /\ r.id # c.id) \/ (r.gen # 0 /\ r.gen # c.gen)

\* extract_m5_during_mrm
TacticalDuringMrm(trace) ==
    LET c == LatestCommand(trace)
    IN Commanded(trace) /\ \E r \in ToSet(Rows(trace, "m5")) : r.t \in CommandWindow(c, 60) /\ r.fresh

\* evaluate_module_oracles: who failed.
FailedModules(trace) ==
    {m \in {"M7", "M1", "M4", "M5", "L4_GNC"} :
        CASE m = "M7" -> M7Failures(trace) # {}
          [] m = "M1" -> CommandFailures(trace) # {}
          [] m = "M4" -> TelemetryMismatch(trace)
          [] m = "M5" -> TacticalDuringMrm(trace)
          [] m = "L4_GNC" -> GncFailures(trace) # {}}
-----------------------------------------------------------------------------

\* The guidance's part is green only when the newest command itself was taken up: an
\* acknowledgement of what was commanded before does not close it.
NewestIsExecuted(trace) ==
    Commanded(trace) /\ "L4_GNC" \notin FailedModules(trace) =>
        \E i \in DOMAIN trace :
            /\ trace[i].topic = "status" /\ trace[i].state \in {"ACCEPTED", "EXECUTING", "COMPLETED"}
            /\ trace[i].id = LatestCommand(trace).id /\ trace[i].gen = LatestCommand(trace).gen

\* While generations only grow, a green authority has one command per generation.
OneCommandPerGeneration(trace) ==
    LET cmds == Rows(trace, "cmd") IN
    /\ "M1" \notin FailedModules(trace)
    /\ \A i, j \in DOMAIN cmds : i < j => cmds[i].gen <= cmds[j].gen
    => \A i, j \in DOMAIN cmds : cmds[i].gen = cmds[j].gen => cmds[i].id = cmds[j].id

-----------------------------------------------------------------------------
(* The chain summary of a run: which stage of the chain L2, M6, M4, L4, M5   *)
(* broke first, and for a failing run which gate failed it.                  *)
(*                                                                          *)
(* A row has its time t, its topic and the fields of the topic:              *)
(*   route  hash                     m6    conflict, enc, past               *)
(*   m4     beh                      m5    status, solver ("" if unsaid),    *)
(*   life   autopilot, avoiding            valid                             *)
(*   l4     source                   gnc   plan ("" if unsaid)               *)
(* m7 and the decisions of M5 in the ASDR (topic asdr) are only counted.     *)

\* Mutant: the rows are taken as they came.
InOrderOfArrival(rows) == rows

\* sorted(..., key=sim_t), which is stable.
InTime(rows) ==
    LET before(i) == {j \in DOMAIN rows : rows[j].t < rows[i].t \/ (rows[j].t = rows[i].t /\ j < i)}
    IN [k \in DOMAIN rows |-> rows[CHOOSE i \in DOMAIN rows : Cardinality(before(i)) = k - 1]]

\* _transitions
Transitions(values) ==
    SelectSeq([i \in 1..(Len(values) - 1) |-> <<values[i], values[i + 1]>>], LAMBDA c : c[1] # c[2])

Of(rows, topics) == SelectSeq(rows, LAMBDA r : r.topic \in topics)

NonEmpty(values) == SelectSeq(values, LAMBDA v : v # "")

\* build_chain_summary but for its diagnosis.
ChainSummary(records) ==
    LET rows == InTime(records)
        m6   == Of(rows, {"m6"})
        m4   == Of(rows, {"m4"})
        m5   == Of(rows, {"m5"})
        l4   == Of(rows, {"l4"})
        gnc  == Of(rows, {"gnc"})
        life == Of(rows, {"life"})
        route == Of(rows, {"route"})
        conflict == \E i \in DOMAIN m6 : m6[i].conflict
        release  == \E i \in DOMAIN life : life[i].autopilot /\ ~life[i].avoiding IN
    [routeChanges |-> Len(Transitions([i \in DOMAIN route |-> route[i].hash])),
     m6Toggles  |-> Len(Transitions([i \in DOMAIN m6 |-> m6[i].conflict])),
     encounter  |-> Transitions([i \in DOMAIN m6 |-> m6[i].enc]),
     pastClear  |-> Cardinality({i \in DOMAIN m6 : m6[i].past}),
     m4Toggles  |-> Len(Transitions([i \in DOMAIN m4 |-> m4[i].beh])),
     m5Statuses |-> Transitions(NonEmpty([i \in DOMAIN m5 |-> m5[i].status])),
     m5Solver   |-> Transitions(NonEmpty([i \in DOMAIN m5 |-> m5[i].solver])),
     m5Valid    |-> Cardinality({i \in DOMAIN m5 : m5[i].valid}),
     m5Samples  |-> Len(m5) + Len(Of(rows, {"asdr"})),
     l4Sources  |-> Transitions(NonEmpty([i \in DOMAIN l4 |-> l4[i].source])),
     l4Samples  |-> Len(l4) + Len(gnc),
     gncPlans   |-> Len(Transitions(NonEmpty([i \in DOMAIN gnc |-> gnc[i].plan]))),
     m7Samples  |-> Len(Of(rows, {"m7"})),
     released   |-> conflict /\ release]

\* first_broken_stage
FirstBrokenStage(s) ==
    CASE s.routeChanges > 0    -> "L2"
      [] s.m6Toggles > 3       -> "M6"
      [] s.m4Toggles > 3       -> "M4"
      [] s.released            -> "L4"
      [] s.m5Statuses # <<>>   -> "M5"
      [] OTHER                 -> "OK"
-----------------------------------------------------------------------------
(* The gate a failing run is attributed to.  g is the record of the gates of *)
(* RunVerdict, behaviours those of bp_transitions.                           *)

\* _has_recovery_or_transit_release
HasRelease(behaviours) ==
    \E i, j \in DOMAIN behaviours : i < j /\ behaviours[i] \in {1, 2} /\ behaviours[j] \in {0, 7}

\* attach_gate_diagnosis: failing_gate of a run that did not pass
FailingGate(g) ==
    CASE ~g.cpa        -> "CPA"
      [] ~g.risk       -> "RISK"
      [] ~g.phase      -> "PHASE"
      [] g.returnRequired /\ ~g.returned    -> "ROUTE_RETURN"
      [] g.overtakeRequired /\ ~g.overtaken -> "OVERTAKE"
      [] ~g.seamanship -> "SEAMANSHIP"
      [] ~g.stability  -> "STABILITY"
      [] OTHER         -> "UNKNOWN"

\* attach_gate_diagnosis: a stage the summary found is kept, else the gate names one.
DiagnosedStage(stage, g, behaviours) ==
    LET gate == FailingGate(g) IN
    IF stage # "OK" \/ gate = "UNKNOWN" THEN stage
    ELSE CASE gate \in {"CPA", "SEAMANSHIP"} -> "M5"
           [] gate = "RISK"                  -> "M7"
           [] gate \in {"PHASE", "OVERTAKE"} -> "M6"
           [] gate = "ROUTE_RETURN"          -> IF HasRelease(behaviours) THEN "M5" ELSE "M4"
           [] gate = "STABILITY"             -> "M4"
-----------------------------------------------------------------------------

Swapped(rows, i, j) == [rows EXCEPT ![i] = rows[j], ![j] = rows[i]]

\* M4 goes once round: TRANSIT, an avoidance, RECOVERY, TRANSIT, each for any time.
OnceRound(behaviours) ==
    LET n == Len(behaviours) IN
    \E a \in 0..n, b \in 0..n, c \in 0..n :
        \A i \in 1..n : behaviours[i] = IF i <= a THEN 0 ELSE IF i <= b THEN 1 ELSE IF i <= c THEN 7 ELSE 0

\* One conflict that comes and goes while M4 goes once round is blamed neither on M6 nor
\* on M4, in whatever order two rows of different times were written.
OneEncounterNoOscillation(rows) ==
    LET m6 == Of(rows, {"m6"})
        m4 == Of(rows, {"m4"})
        onsets == {i \in DOMAIN m6 : m6[i].conflict /\ (i = 1 \/ ~m6[i - 1].conflict)} IN
    /\ \A j \in DOMAIN rows : \A i \in 1..(j - 1) : ChainSummary(Swapped(rows, i, j)) = ChainSummary(rows)
    /\ Cardinality(onsets) <= 1 /\ OnceRound([k \in DOMAIN m4 |-> m4[k].beh])
          => FirstBrokenStage(ChainSummary(rows)) \notin {"M6", "M4"}
=============================================================================
