-------------------------- MODULE MCSafetySupervisor --------------------------
(* Instances of the M7 node for TLC. *)
EXTENDS SafetySupervisor

OpenSea == [harbour |-> FALSE, valid |-> TRUE]
Harbour == [harbour |-> TRUE, valid |-> TRUE]
SeaAndHarbour == {OpenSea, Harbour}

Clear == [confidence |-> "good", covered |-> TRUE, targets |-> TRUE,
          negative |-> FALSE, belowFloor |-> FALSE, crowded |-> FALSE]
Poor  == [Clear EXCEPT !.confidence = "poor"]
Blind == [Clear EXCEPT !.confidence = "low", !.covered = FALSE]
Close == [Clear EXCEPT !.belowFloor = TRUE, !.crowded = TRUE]
Wrong == [Clear EXCEPT !.negative = TRUE]
ClearWorlds  == {Clear}
MendedWorlds == {Clear, Poor, Close}
AllWorlds    == {Clear, Blind, Close, Wrong}

Free     == [solvable |-> TRUE, rule |-> 0, standOn |-> FALSE]
Crossing == [solvable |-> TRUE, rule |-> 15, standOn |-> FALSE]
StandOn  == [solvable |-> TRUE, rule |-> 15, standOn |-> TRUE]
Unsolved == [solvable |-> FALSE, rule |-> 0, standOn |-> FALSE]
FreeWater   == {Free}
MaybeSolved == {Free, Unsolved}
AllRules    == {Crossing, StandOn, Unsolved}

Starboard == [nlp |-> "converged", heading |-> 20, speedOk |-> TRUE, rotOk |-> TRUE]
Failed    == [Starboard EXCEPT !.nlp = "failed"]
TailGate  == [Starboard EXCEPT !.nlp = "tail_gate"]
TooFast   == [Starboard EXCEPT !.speedOk = FALSE]
TooSharp  == [Starboard EXCEPT !.rotOk = FALSE]
MendedPlans == {Starboard, Failed}
AllPlans    == {Starboard, Failed, TailGate, TooFast, TooSharp}

MCTimeout   == [m \in Modules |-> 1]
MCTolerance == [m \in Modules |-> 1]
=============================================================================
