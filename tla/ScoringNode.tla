----------------------------- MODULE ScoringNode -----------------------------
(***************************************************************************)
(* The scorer and the scoring node that runs it.                             *)
(***************************************************************************)
EXTENDS Integers, Sequences, FiniteSets, FiniteSetsExt, SequencesExt

(* The six-dimension score of a frame, in hundredths, and the per-rule       *)
(* compliance grades.  Distances are in hundredths of a nautical mile.       *)

CpaTarget == 27
Far == 1000
Weights == [safety |-> 30, rules |-> 25, delay |-> 12, magnitude |-> 8, phase |-> 15, plausible |-> 10]

Abs(n)       == IF n < 0 THEN -n ELSE n
Between(n, lo, hi) == IF n < lo THEN lo ELSE IF n > hi THEN hi ELSE n

\* The nearest of the held positions; without one the target counts as far.
CpaOf(distances) == IF distances = {} THEN Far ELSE Min(distances)

ScoreSafety(cpa) == Between((100 * cpa) \div CpaTarget, 0, 100)

Grade(v) == CASE v = "full" -> 100 [] v = "partial" -> 50 [] OTHER -> 0

\* _score_rule_compliance; rule_states as pairs <<rule, state>>.
ScoreRuleCompliance(rules) ==
    IF rules = {} THEN 100
    ELSE MapThenSumSet(LAMBDA r : Grade(r[2]), rules) \div Cardinality(rules)

ScoreDelayPenalty(action, target) == IF action > target THEN action - target ELSE 0

\* Deviation of the rudder from 30..90 degrees, in units of 30, squared.
ScoreActionMagnitudePenalty(rudder) ==
    LET deviation == Abs(Abs(rudder) - 60) - 30
    IN IF deviation <= 0 THEN 0 ELSE (deviation * deviation) \div 9

ScorePhase(phase) ==
    CASE phase \in {"give_way", "transit"} -> 100 [] phase = "in_extremis" -> 0 [] OTHER -> 50

\* Excess over the limits 0.01 and 2.0, both given here in hundredths of the limit; a
\* large excess makes it negative.
ScorePlausibility(curvature, accel) ==
    100 - Max({0, Abs(curvature) - 100, Abs(accel) - 100})

ComputeVerdict(cpa, rules) == cpa >= CpaTarget /\ \A r \in rules : r[2] \in {"full", "partial"}

ScoreFrame(distances, rules, action, target, rudder, phase, curvature, accel) ==
    LET cpa == CpaOf(distances)
        s  == ScoreSafety(cpa)
        r  == ScoreRuleCompliance(rules)
        d  == 100 - Between(ScoreDelayPenalty(action, target), 0, 100)
        m  == 100 - Between(ScoreActionMagnitudePenalty(rudder), 0, 100)
        p  == ScorePhase(phase)
        pl == ScorePlausibility(curvature, accel)
    IN [ cpa |-> cpa, safety |-> s, compliance |-> r, pass |-> ComputeVerdict(cpa, rules),
         total |-> ( Weights.safety * s + Weights.rules * r + Weights.delay * d
                     + Weights.magnitude * m + Weights.phase * p + Weights.plausible * pl ) \div 100 ]
-----------------------------------------------------------------------------
(* rule_compliance_evaluator.                                               *)

Turn(h) == Abs(h)

GiveWayGrade(h, clear) ==
    IF Turn(h) >= 30 /\ clear THEN "full" ELSE IF Turn(h) >= 15 THEN "partial" ELSE "violated"

StandOnGrade(h) ==
    IF Turn(h) < 5 THEN "full" ELSE IF Turn(h) < 15 THEN "partial" ELSE "violated"

\* s: heading change, CPA reached, rudder side, role, acted early, stage.
EvaluateRuleCompliance(rule, s) ==
    CASE rule = 13 -> GiveWayGrade(s.turn, s.clear)
      [] rule = 14 -> IF s.side = "port" THEN "violated" ELSE GiveWayGrade(s.turn, s.clear)
      [] rule = 15 -> IF s.role = "give_way" THEN GiveWayGrade(s.turn, s.clear) ELSE StandOnGrade(s.turn)
      [] rule = 16 -> GiveWayGrade(s.turn, s.clear /\ s.early)
      [] rule = 17 -> IF s.stage <= 2 THEN StandOnGrade(s.turn)
                      ELSE IF Turn(s.turn) >= 30 THEN "full" ELSE "partial"
      [] OTHER     -> "full"
-----------------------------------------------------------------------------

\* compute_verdict and the score agree: a frame that passes has full marks for safety and
\* at least half of them for the rules, and one passed over has a rule broken or the
\* target inside the CPA.
VerdictFitsScore(distances, rules) ==
    LET frame == ScoreFrame(distances, rules, 0, 120, 0, "transit", 0, 0) IN
    /\ frame.pass => frame.safety = 100 /\ frame.compliance >= 50
    /\ ~frame.pass => frame.safety < 100 \/ frame.compliance < 100

\* The grades do not depend on the side of the turn where the rule does not, and to give
\* way by a larger turn, to stand on with a smaller one, never lowers a grade.
LargerTurnNoWorse(rule, s, larger) ==
    LET giveWay == rule \in {13, 14, 16} \/ (rule = 15 /\ s.role = "give_way") \/ (rule = 17 /\ s.stage > 2)
        small   == Grade(EvaluateRuleCompliance(rule, s))
        large   == Grade(EvaluateRuleCompliance(rule, [s EXCEPT !.turn = larger]))
    IN Abs(s.turn) <= Abs(larger) => IF giveWay THEN small <= large ELSE small >= large

-----------------------------------------------------------------------------
(* The scoring node: once a second it scores the newest own-ship state       *)
(* against the target states it holds, publishes the row and appends it to   *)
(* the run's scoring.arrow through a writer that batches.                    *)
(*                                                                          *)
(* A target message is the distance it puts the target at.  The list of      *)
(* messages is cut back to KeepTargets when it passes MaxTargets; a batch of *)
(* BatchSize rows is written at once.  A row is its number and its score.    *)
(* The scorer's own list of rows, which the node never reads, is left out.   *)

CONSTANTS Distances, RuleStates, MaxTargets, KeepTargets, BatchSize, MaxRows

VARIABLES node,      \* unconfigured, inactive, active
          own,       \* _latest_own_ship is set
          targets,   \* _latest_targets
          rules,     \* _latest_rule_states
          writer,    \* the ArrowWriter: its buffer, and whether it opened the file
          file,      \* rows in scoring.arrow
          rows,      \* history: rows scored since the activation
          last,      \* history: rows of the last activation that scored any
          messages   \* history: the newest target messages

vars == <<node, own, targets, rules, writer, file, rows, last, messages>>

NoWriter == [open |-> FALSE, buf |-> <<>>, there |-> FALSE]

Init ==
    /\ node = "unconfigured" /\ own = FALSE /\ targets = <<>> /\ rules = {}
    /\ writer = NoWriter /\ file = <<>> /\ rows = <<>> /\ last = <<>> /\ messages = <<>>

OnConfigure ==
    /\ node = "unconfigured" /\ node' = "inactive"
    /\ UNCHANGED <<own, targets, rules, writer, file, rows, last, messages>>

\* The run directory is SIL_RUN_ID's, so a later activation writes the same path.
OnActivate ==
    /\ node = "inactive" /\ node' = "active"
    /\ writer' = [NoWriter EXCEPT !.there = TRUE] /\ rows' = <<>>
    /\ UNCHANGED <<own, targets, rules, file, last, messages>>

\* flush of ArrowWriter: the first batch opens the file anew.
Flushed(w, f) ==
    IF w.buf = <<>> THEN [writer |-> w, file |-> f]
    ELSE [writer |-> [w EXCEPT !.open = TRUE, !.buf = <<>>], file |-> (IF w.open THEN f ELSE <<>>) \o w.buf]

\* Mutant: close drops what was not a whole batch.
ClosedUnflushed(w, f) == f

Closed(w, f) == Flushed(w, f).file

OnDeactivate ==
    /\ node = "active" /\ node' = "inactive"
    /\ file' = Closed(writer, file) /\ writer' = NoWriter
    /\ UNCHANGED <<own, targets, rules, rows, last, messages>>

\* Subscriptions go; what was heard stays for the next run.
OnCleanup ==
    /\ node = "inactive" /\ node' = "unconfigured"
    /\ UNCHANGED <<own, targets, rules, writer, file, rows, last, messages>>

Subscribed == node # "unconfigured"

OwnShipCb ==
    /\ Subscribed /\ own' = TRUE
    /\ UNCHANGED <<node, targets, rules, writer, file, rows, last, messages>>

Held(list) == IF Len(list) > MaxTargets THEN SubSeq(list, Len(list) - KeepTargets + 1, Len(list)) ELSE list

TargetVesselCb ==
    /\ Subscribed
    /\ \E d \in Distances :
        /\ targets' = Held(Append(targets, d))
        /\ messages' = IF Len(messages) < KeepTargets THEN Append(messages, d) ELSE Append(Tail(messages), d)
    /\ UNCHANGED <<node, own, rules, writer, file, rows, last>>

ColregsCb ==
    /\ Subscribed
    /\ \E r \in RuleStates : rules' = r
    /\ UNCHANGED <<node, own, targets, writer, file, rows, last, messages>>

\* _score_and_publish and ArrowWriter.append: the node gives no action time, curvature or
\* phase of its own, so the row follows from distance, rules and rudder.
ScoreAndPublish ==
    /\ node = "active" /\ own /\ Len(rows) < MaxRows
    /\ \E rudder \in {0, 35} :
        LET row  == [n |-> Len(rows) + 1,
                     frame |-> ScoreFrame(ToSet(targets), rules, 0, 120, rudder, "transit", 0, 0)]
            full == [writer EXCEPT !.buf = Append(@, row)]
            done == IF Len(full.buf) >= BatchSize THEN Flushed(full, file)
                    ELSE [writer |-> full, file |-> file]
        IN /\ writer' = done.writer /\ file' = done.file
           /\ rows' = Append(rows, row) /\ last' = rows'
    /\ UNCHANGED <<node, own, targets, rules, messages>>

Next ==
    \/ OnConfigure \/ OnActivate \/ OnDeactivate \/ OnCleanup
    \/ OwnShipCb \/ TargetVesselCb \/ ColregsCb \/ ScoreAndPublish

Spec == Init /\ [][Next]_vars
-----------------------------------------------------------------------------

\* A row never overlooks one of the newest target messages: the distance scored is no
\* larger than any of the last KeepTargets, however often the list was cut back.
NewestScored ==
    \A i \in DOMAIN messages : messages[i] \in ToSet(targets)

\* Between activations scoring.arrow holds every row of the last activation that scored
\* one, in order and once; the batches and the closing lose and repeat none.
ArrowIsWhole == node # "active" => file = last
=============================================================================
