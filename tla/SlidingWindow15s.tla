--------------------------- MODULE SlidingWindow15s ---------------------------
(***************************************************************************)
(* M7: sotif::SlidingWindow15s, the ring of the last kCapacity samples with *)
(* a running total of the events among them.  head_ is wrapped lazily: it   *)
(* stands at kCapacity until the next push.  reset() leaves the samples in  *)
(* the ring.                                                                *)
(***************************************************************************)
EXTENDS Integers, FiniteSets

CONSTANT kCapacity

ASSUME CapacityAssumption == kCapacity \in Nat \ {0}

Slots == 0..(kCapacity - 1)

VARIABLES buffer, head, size, running_total

window == <<buffer, head, size, running_total>>

WindowInit ==
    /\ buffer = [i \in Slots |-> FALSE]
    /\ head = 0 /\ size = 0 /\ running_total = 0

\* Mutant: an overwritten event stays in the total.
PushKeepingTotal(event) ==
    LET full == size = kCapacity
        slot == IF full /\ head = kCapacity THEN 0 ELSE head
    IN  /\ buffer' = [buffer EXCEPT ![slot] = event]
        /\ head' = slot + 1
        /\ size' = IF full THEN size ELSE size + 1
        /\ running_total' = running_total + (IF event THEN 1 ELSE 0)

\* Mutant: the head wraps one slot early.
PushWrappingEarly(event) ==
    LET full == size = kCapacity
        slot == IF full /\ head >= kCapacity - 1 THEN 0 ELSE head
    IN  /\ buffer' = [buffer EXCEPT ![slot] = event]
        /\ head' = slot + 1
        /\ size' = IF full THEN size ELSE size + 1
        /\ running_total' = running_total + (IF event THEN 1 ELSE 0)
                                          - (IF full /\ buffer[slot] THEN 1 ELSE 0)

\* Mutant: the head is never wrapped.
PushNeverWrapping(event) ==
    /\ buffer' = [buffer EXCEPT ![head] = event]
    /\ head' = head + 1
    /\ size' = IF size = kCapacity THEN size ELSE size + 1
    /\ running_total' = running_total + (IF event THEN 1 ELSE 0)

(* Append while there is room, else overwrite the oldest sample. *)
Push(event) ==
    LET full == size = kCapacity
        slot == IF full /\ head = kCapacity THEN 0 ELSE head
    IN  /\ buffer' = [buffer EXCEPT ![slot] = event]
        /\ head' = slot + 1
        /\ size' = IF full THEN size ELSE size + 1
        /\ running_total' = running_total + (IF event THEN 1 ELSE 0)
                                          - (IF full /\ buffer[slot] THEN 1 ELSE 0)

Reset ==
    /\ head' = 0 /\ size' = 0 /\ running_total' = 0
    /\ UNCHANGED buffer

(* rate() >= threshold, both as fractions of 100; an empty window has rate 0. *)
RateAtLeast(percent) == size > 0 /\ running_total * 100 >= percent * size
-----------------------------------------------------------------------------

WindowNext == Reset \/ \E event \in BOOLEAN : Push(event)

WindowSpec == WindowInit /\ [][WindowNext]_window

WindowType ==
    /\ buffer \in [Slots -> BOOLEAN]
    /\ head \in 0..kCapacity /\ size \in 0..kCapacity
    /\ running_total \in Int

\* Until the ring is full the head is the number of samples.
HeadAtSize == size < kCapacity => head = size

Live == {i \in 0..(size - 1) : buffer[i]}

(* The total kept push by push is the number of events in the ring, also     *)
(* after a wrap and after a reset that left old samples behind: the veto     *)
(* rate that M7 escalates on cannot drift.                                   *)
TotalIsCount == running_total = Cardinality(Live)

\* The samples in the ring, oldest first.
Oldest == IF size < kCapacity THEN 0 ELSE head
SlotOf(i) == IF Oldest + i <= kCapacity THEN Oldest + i - 1
             ELSE Oldest + i - 1 - kCapacity
Samples == [i \in 1..size |-> buffer[SlotOf(i)]]

(* The ring with its lazy head and its running total implements a memory of  *)
(* the last kCapacity samples.                                               *)
Abstract == INSTANCE RecentEvents
                WITH Capacity <- kCapacity, recent <- Samples, total <- running_total

WindowImplements == Abstract!Spec
=============================================================================
