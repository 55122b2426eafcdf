-------------------------- MODULE CheckerVetoCounter --------------------------
(***************************************************************************)
(* M7: sotif::CheckerVetoCounter between its two callers.  on_veto runs in  *)
(* the events callback group, which is Reentrant; on_cycle_tick runs in the *)
(* main loop's group.  The node spins a multi-threaded executor, so the two *)
(* overlap: on_cycle_tick pushes the flag and then clears it, and a veto    *)
(* may fall between the two.                                                *)
(*                                                                          *)
(* The tallies by reason class are left out: nothing in M7 reads them.      *)
(***************************************************************************)
EXTENDS SlidingWindow15s

CONSTANT Layers   \* checker_layer of the vetoes that can come; M7 counts "L3"

VARIABLES veto_occurred_this_cycle,
          tick      \* "idle", or "pushed" between the push and the clear

vars == <<window, veto_occurred_this_cycle, tick>>

Init == WindowInit /\ veto_occurred_this_cycle = FALSE /\ tick = "idle"

OnVeto(layer) ==
    /\ veto_occurred_this_cycle' = IF layer = "L3" THEN TRUE ELSE veto_occurred_this_cycle
    /\ UNCHANGED <<window, tick>>

\* Mutant: a quiet cycle is not sampled.
OnCycleTickPushVetoesOnly ==
    /\ tick = "idle"
    /\ IF veto_occurred_this_cycle THEN Push(TRUE) ELSE UNCHANGED window
    /\ tick' = "pushed"
    /\ UNCHANGED veto_occurred_this_cycle

OnCycleTickPush ==
    /\ tick = "idle"
    /\ Push(veto_occurred_this_cycle)
    /\ tick' = "pushed"
    /\ UNCHANGED veto_occurred_this_cycle

OnCycleTickClear ==
    /\ tick = "pushed"
    /\ veto_occurred_this_cycle' = FALSE
    /\ tick' = "idle"
    /\ UNCHANGED window

\* reset(), which the node never calls: taken in the main loop's thread.
CounterReset ==
    /\ tick = "idle"
    /\ Reset
    /\ veto_occurred_this_cycle' = FALSE
    /\ UNCHANGED tick

Next ==
    \/ \E layer \in Layers : OnVeto(layer)
    \/ OnCycleTickPush
    \/ OnCycleTickClear
    \/ CounterReset

Fairness == WF_vars(OnCycleTickPush) /\ WF_vars(OnCycleTickClear)

Spec == Init /\ [][Next]_vars /\ Fairness
=============================================================================
