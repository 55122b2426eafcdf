----------------------------- MODULE TargetVessel -----------------------------
(***************************************************************************)
(* The target-vessel node of the SIL: its target list over the lifecycle,    *)
(* and the one target that obeys the COLREGs by a state machine of its own.  *)
(*                                                                          *)
(* An encounter is what the target makes of the geometry: a rule and its     *)
(* role, or none.  The own ship's heading is 0 or, altered, 1; the target's  *)
(* counts the steps of its limited turn away from the nominal course.  Times *)
(* are kept as ages, in steps, up to the limit they are compared with.       *)
(***************************************************************************)
EXTENDS Naturals, Sequences

CONSTANTS ReactionDelay, ClearDwell,  \* in steps
          Turn,                       \* steps of a full give-way turn
          MaxTargets                  \* bound on the list

Encounters == {[rule |-> "14", role |-> "BOTH_GIVE_WAY"], [rule |-> "13", role |-> "STAND_ON"],
               [rule |-> "13", role |-> "GIVE_WAY"], [rule |-> "15", role |-> "GIVE_WAY"],
               [rule |-> "17", role |-> "STAND_ON"]}
NoEncounter == [rule |-> "none", role |-> "none"]
Never == ReactionDelay + ClearDwell + 2  \* an age no limit admits

VARIABLES node,     \* "unconfigured", "inactive" or "active"
          targets,  \* policies of the list: "fsm" or "other"
          fsm,      \* [state, rule, role, start, base, clear]
          heading,  \* of the target
          own,      \* own-ship state: "none", "stale" or "fresh"
          facing,   \* the encounter there is, the own ship's heading, how near the CPA is
          sinceEnc, \* history: steps since the machine last saw an encounter
          encFor    \* history: steps since it first saw one after it was last free

vars == <<node, targets, fsm, heading, own, facing, sinceEnc, encFor>>

Nominal == [state |-> "NOMINAL", rule |-> "none", role |-> "none", start |-> Never, base |-> Never,
            clear |-> Never]

Busy == {"MONITORING", "GIVE_WAY", "STAND_ON"}

Init ==
    /\ node = "unconfigured" /\ targets = <<>> /\ fsm = Nominal /\ heading = 0 /\ own = "none"
    /\ facing = [enc |-> NoEncounter, own |-> 0, near |-> FALSE]
    /\ sinceEnc = Never /\ encFor = Never
-----------------------------------------------------------------------------
(* ColregsRuleFsm                                                           *)

\* Mutant: a clear spell survives the encounter that ends it.
PrepareKeepsClear(f, e) ==
    LET had == f.clear # Never
        fresh == f.start = Never \/ f.state \notin Busy
                 \/ (had /\ (f.rule # e.rule \/ f.role # e.role))
    IN IF fresh THEN [f EXCEPT !.start = Never, !.base = Never] ELSE f

\* _prepare_encounter_context.  The role kept after giving way is GIVE_WAY, so for
\* Rules 14 and 17 a clear spell always counts as a change of role.
PrepareEncounter(f, e) ==
    LET had == f.clear # Never
        fresh == f.start = Never \/ f.state \notin Busy
                 \/ (had /\ (f.rule # e.rule \/ f.role # e.role))
        kept == [f EXCEPT !.clear = Never]
    IN IF fresh THEN [kept EXCEPT !.start = Never, !.base = Never] ELSE kept

EnsureStarted(f) == IF f.start = Never THEN [f EXCEPT !.start = 0, !.base = facing.own] ELSE f

OwnshipActionObserved(f) == f.base # Never /\ facing.own # f.base

Set(f, state, e) == [f EXCEPT !.state = state, !.rule = e.rule, !.role = e.role]

GiveWay(f, e) == [f EXCEPT !.state = "GIVE_WAY", !.rule = e.rule, !.role = "GIVE_WAY"]

\* update, with an encounter
Encountered(f, e) ==
    LET g == EnsureStarted(PrepareEncounter(f, e)) IN
    IF g.start < ReactionDelay THEN Set(g, "MONITORING", e)
    ELSE IF \/ e.rule = "14" \/ e.role = "GIVE_WAY"
            \/ e.rule = "17" /\ ~OwnshipActionObserved(g) /\ facing.near
    THEN GiveWay(g, e)
    ELSE Set(g, "STAND_ON", e)

\* _clear_or_nominal; clear is an age, zero at the first clear sample.
ClearOrNominal(f) ==
    LET c == [f EXCEPT !.clear = IF @ = Never THEN 0 ELSE @] IN
    IF f.state \in Busy THEN IF c.clear >= ClearDwell THEN [c EXCEPT !.state = "RETURNING"] ELSE c
    ELSE IF f.state = "RETURNING" /\ heading = 0 THEN Nominal ELSE f

Update(f) == IF facing.enc = NoEncounter THEN ClearOrNominal(f) ELSE Encountered(f, facing.enc)

\* The heading asked for, in steps of turn.
Desired(f) ==
    CASE f.state = "GIVE_WAY" /\ facing.enc # NoEncounter -> Turn
      [] f.state = "MONITORING" \/ (f.state \in Busy /\ facing.enc = NoEncounter) -> heading
      [] OTHER -> 0

\* apply_rot_limit
Towards(h) == IF h > heading THEN heading + 1 ELSE IF h < heading THEN heading - 1 ELSE heading

Aged(age, limit) == IF age = Never \/ age >= limit THEN age ELSE age + 1

HasFsm(s)  == \E i \in DOMAIN s : s[i] = "fsm"
TwoFsms(s) == \E i, j \in DOMAIN s : i # j /\ s[i] = "fsm" /\ s[j] = "fsm"

\* One step of the FSM target; without a fresh own ship it sails on as it is.
Step ==
    LET f == [fsm EXCEPT !.start = Aged(@, ReactionDelay), !.clear = Aged(@, ClearDwell)] IN
    /\ node = "active" /\ HasFsm(targets)
    /\ IF own = "fresh"
       THEN /\ fsm' = Update(f) /\ heading' = Towards(Desired(fsm'))
            /\ sinceEnc' = IF facing.enc # NoEncounter THEN 0 ELSE Aged(sinceEnc, ClearDwell + 1)
            /\ encFor' = IF facing.enc = NoEncounter
                         THEN IF fsm'.state \in Busy THEN Aged(encFor, ReactionDelay) ELSE Never
                         ELSE IF encFor = Never THEN 0 ELSE Aged(encFor, ReactionDelay)
       ELSE /\ fsm' = f /\ UNCHANGED heading
            /\ sinceEnc' = Aged(sinceEnc, ClearDwell + 1) /\ encFor' = Aged(encFor, ReactionDelay)
    /\ UNCHANGED <<node, targets, own, facing>>
-----------------------------------------------------------------------------
(* The node.                                                                *)

\* A new FSM target has a machine of its own.
Fresh == fsm' = Nominal /\ heading' = 0 /\ sinceEnc' = Never /\ encFor' = Never
Same  == UNCHANGED <<fsm, heading, sinceEnc, encFor>>

\* _validate_fsm_target_limit
Allowed(p) == p = "fsm" => ~HasFsm(targets)

\* The entry i of the file raises: it cannot be read, or it is one FSM target too many.
Refused(list, i) ==
    list[i] = "bad" \/ (list[i] = "fsm" /\ (HasFsm(targets) \/ HasFsm(SubSeq(list, 1, i - 1))))

\* The entries are added to what is there, up to the first that is refused, and stay.
AddEntries(list) ==
    \E n \in 0..Len(list) :
        /\ \A i \in 1..n : ~Refused(list, i)
        /\ n < Len(list) => Refused(list, n + 1)
        /\ targets' = targets \o SubSeq(list, 1, n)
        /\ node' = IF n = Len(list) THEN "inactive" ELSE node
        /\ IF HasFsm(SubSeq(list, 1, n)) THEN Fresh ELSE Same

\* on_configure: two FSM targets among the structured entries are refused before any is
\* added; the entries of the older form are not counted.
OnConfigure(list) ==
    /\ node = "unconfigured" /\ Len(targets) + Len(list) <= MaxTargets
    /\ \/ AddEntries(list)
       \/ TwoFsms(list) /\ Same /\ UNCHANGED <<targets, node>>
    /\ UNCHANGED <<own, facing>>

OnActivate   == node = "inactive" /\ node' = "active" /\ Same /\ UNCHANGED <<targets, own, facing>>
OnDeactivate == node = "active" /\ node' = "inactive" /\ Same /\ UNCHANGED <<targets, own, facing>>

OnCleanup ==
    /\ node = "inactive" /\ node' = "unconfigured"
    /\ targets' = <<>> /\ own' = "none" /\ Fresh /\ UNCHANGED facing

HandleAddTarget(p) ==
    /\ node = "active" /\ Len(targets) < MaxTargets
    /\ IF Allowed(p)
       THEN targets' = Append(targets, p) /\ (IF p = "fsm" THEN Fresh ELSE Same)
       ELSE UNCHANGED targets /\ Same
    /\ UNCHANGED <<node, own, facing>>

\* The places that stay, in their order, when those of one MMSI, which several targets
\* may have, go.
Kept(n) == {f \in [1..n -> DOMAIN targets] : \A i, j \in 1..n : i < j => f[i] < f[j]}

HandleRemoveTarget ==
    /\ node = "active"
    /\ \E n \in 0..Len(targets) : \E f \in Kept(n) : targets' = [i \in 1..n |-> targets[f[i]]]
    /\ IF HasFsm(targets) /\ ~HasFsm(targets') THEN Fresh ELSE Same
    /\ UNCHANGED <<node, own, facing>>

\* Own-ship messages arrive, or stay away past the two seconds.
HandleOwnship == node = "active" /\ own' = "fresh" /\ Same /\ UNCHANGED <<node, targets, facing>>
OwnshipSilent == own = "fresh" /\ own' = "stale" /\ Same /\ UNCHANGED <<node, targets, facing>>

\* The geometry changes; the nearness only matters for Rule 17.
Moves ==
    /\ node = "active"
    /\ facing' \in {[enc |-> e, own |-> o, near |-> n] :
                      e \in Encounters \cup {NoEncounter}, o \in {0, 1}, n \in BOOLEAN}
    /\ facing'.near => facing'.enc.rule = "17"
    /\ Same /\ UNCHANGED <<node, targets, own>>

Next ==
    \/ Step \/ OnActivate \/ OnDeactivate \/ OnCleanup \/ HandleOwnship \/ OwnshipSilent \/ Moves
    \/ \E n \in 0..MaxTargets : \E list \in [1..n -> {"fsm", "other", "bad"}] : OnConfigure(list)
    \/ (\E p \in {"fsm", "other"} : HandleAddTarget(p)) \/ HandleRemoveTarget

\* The timer steps while the node is active.
Spec == Init /\ [][Next]_vars /\ WF_vars(Step)
-----------------------------------------------------------------------------

\* At most one target is driven by the rules, over any sequence of configurations,
\* additions and removals.
OneFsmTarget == ~TwoFsms(targets)

\* The target goes back to its course only after the conflict was clear for the whole
\* dwell: a conflict that flickers starts the dwell again.
ReturnsAfterDwell ==
    fsm'.state = "RETURNING" /\ fsm.state # "RETURNING" => sinceEnc' >= ClearDwell

\* It turns only when the encounter has been there for the reaction delay, also when
\* it meets a second one on its way back from the first.
ReactsAfterDelay ==
    fsm'.state = "GIVE_WAY" /\ fsm.state # "GIVE_WAY" => encFor' >= ReactionDelay

\* When the encounter stays away and the own ship is heard, the target ends up on its
\* nominal course.
Undisturbed == node = "active" /\ HasFsm(targets) /\ own = "fresh" /\ facing.enc = NoEncounter
OnCourse    == fsm.state = "NOMINAL" /\ heading = 0
-----------------------------------------------------------------------------
(* What keeps these: the ages the machine counts and those of the history.    *)

FsmStates == Busy \cup {"NOMINAL", "RETURNING"}

Ages(limit) == (0..limit) \cup {Never}

Machine == [state : FsmStates, rule : {"none", "13", "14", "15", "17"},
            role : {"none", "BOTH_GIVE_WAY", "STAND_ON", "GIVE_WAY"},
            start : Ages(ReactionDelay), base : {0, 1, Never}, clear : Ages(ClearDwell)]

TypeOK ==
    /\ targets \in Seq({"fsm", "other"})
    /\ fsm \in Machine
    /\ heading \in Nat
    /\ facing \in [enc : Encounters \cup {NoEncounter}, own : {0, 1}, near : BOOLEAN]
    /\ sinceEnc \in Ages(ClearDwell + 1) /\ encFor \in Ages(ReactionDelay)

\* A machine that counts a clear spell has seen no encounter for longer than that.
ClearIsClear == fsm.clear # Never => sinceEnc > fsm.clear

\* A machine that attends to an encounter has seen it for as long as it counts.
StartedIsSeen == fsm.state \in Busy => fsm.start # Never /\ encFor # Never /\ encFor >= fsm.start
=============================================================================
