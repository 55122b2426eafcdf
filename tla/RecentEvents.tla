----------------------------- MODULE RecentEvents -----------------------------
(***************************************************************************)
(* What a sliding window over boolean samples promises: it remembers the    *)
(* last Capacity samples since it was cleared, in order, and knows how many *)
(* of them were events.                                                     *)
(***************************************************************************)
EXTENDS Naturals, Sequences, FiniteSets

CONSTANT Capacity

VARIABLES recent,   \* the samples, oldest first
          total     \* how many of them are TRUE

EventsIn(samples) == Cardinality({i \in DOMAIN samples : samples[i]})

Init == recent = <<>> /\ total = 0

Sample(event) ==
    /\ recent' = Append(IF Len(recent) < Capacity THEN recent ELSE Tail(recent), event)
    /\ total' = EventsIn(recent')

Clear == recent' = <<>> /\ total' = 0

Next == Clear \/ \E event \in BOOLEAN : Sample(event)

Spec == Init /\ [][Next]_<<recent, total>>
=============================================================================
