------------------------------ MODULE RocOperator ------------------------------
(***************************************************************************)
(* The simulated remote operator: take-over requests arrive on the spin      *)
(* thread, the web server answers one, and in automatic mode a timer accepts *)
(* it after a while.  The answer is decided under the lock and published     *)
(* after it, and does not say which request it answers.                      *)
(***************************************************************************)
EXTENDS Naturals, Sequences, FiniteSets

CONSTANTS MaxTor  \* bound on the requests

VARIABLES tor,       \* number of the request shown, 0 is none
          response,  \* to it, or "none"
          timer,     \* the timer object kept: request it was armed for, 0 is none
          armed,     \* timers that run; cancelling removes one from here
          firing,    \* timers that ran out and wait for the lock
          outbox,    \* answers decided and not yet published
          answers    \* answers[k]: answers decided for request k (history)

vars == <<tor, response, timer, armed, firing, outbox, answers>>

Init ==
    /\ tor = 0 /\ response = "none" /\ timer = 0 /\ armed = {} /\ firing = {}
    /\ outbox = <<>> /\ answers = [k \in 1..MaxTor |-> 0]

\* Mutant: a timer is armed only when none is kept.
OnTorRequestKeepsTimer ==
    /\ tor < MaxTor /\ tor' = tor + 1 /\ response' = "none"
    /\ IF timer = 0 THEN armed' = armed \cup {tor'} /\ timer' = tor' ELSE UNCHANGED <<armed, timer>>
    /\ UNCHANGED <<firing, outbox, answers>>

\* A new request replaces the old one, and its timer the old timer; one that has run
\* out already cannot be cancelled.
OnTorRequest ==
    /\ tor < MaxTor /\ tor' = tor + 1 /\ response' = "none"
    /\ armed' = (armed \ {timer}) \cup {tor'} /\ timer' = tor'
    /\ UNCHANGED <<firing, outbox, answers>>

TimerRunsOut(k) ==
    /\ k \in armed /\ armed' = armed \ {k} /\ firing' = firing \cup {k}
    /\ UNCHANGED <<tor, response, timer, outbox, answers>>

Decide(r) ==
    /\ response' = r /\ outbox' = Append(outbox, r)
    /\ answers' = [answers EXCEPT ![tor] = @ + 1]

\* Mutant: the automatic answer does not look whether there is one.
AutoAcceptAlways(k) ==
    /\ k \in firing /\ firing' = firing \ {k}
    /\ Decide("ACCEPT") /\ UNCHANGED <<tor, timer, armed>>

AutoAccept(k) ==
    /\ k \in firing /\ firing' = firing \ {k}
    /\ IF response # "none" THEN UNCHANGED <<response, outbox, answers>> ELSE Decide("ACCEPT")
    /\ UNCHANGED <<tor, timer, armed>>

RespondToTor(r) ==
    /\ tor # 0 /\ response = "none"
    /\ armed' = armed \ {timer} /\ timer' = 0
    /\ Decide(r) /\ UNCHANGED <<tor, firing>>

\* Two threads past the lock publish in either order.
Publish ==
    /\ \E i \in DOMAIN outbox :
        outbox' = [j \in 1..(Len(outbox) - 1) |-> IF j < i THEN outbox[j] ELSE outbox[j + 1]]
    /\ UNCHANGED <<tor, response, timer, armed, firing, answers>>

Timers == \E k \in 1..MaxTor : TimerRunsOut(k) \/ AutoAccept(k)

Next ==
    \/ OnTorRequest \/ Publish \/ Timers
    \/ \E r \in {"ACCEPT", "REJECT", "DEFER"} : RespondToTor(r)

\* A timer that is not cancelled runs out and gets the lock.
Fairness == \A k \in 1..MaxTor : WF_vars(TimerRunsOut(k)) /\ WF_vars(AutoAccept(k))

Spec == Init /\ [][Next]_vars /\ Fairness
-----------------------------------------------------------------------------

\* No request is answered twice, by the operator and by the timer, or by two timers.
OneAnswer == \A k \in 1..MaxTor : answers[k] <= 1

\* In automatic mode every request is answered, unless a newer one replaces it:
\* cancelling and arming again never leaves a request without a timer.
Answered(k) == answers[k] = 1 \/ tor # k
-----------------------------------------------------------------------------
(* What keeps OneAnswer: a request not yet made, or shown without a response,  *)
(* has no answer, and every timer belongs to a request that was made.          *)

AnswersMatch ==
    /\ tor \in 0..MaxTor /\ answers \in [1..MaxTor -> 0..1]
    /\ armed \subseteq 1..tor /\ firing \subseteq 1..tor
    /\ \A k \in 1..MaxTor : k > tor \/ (k = tor /\ response = "none") => answers[k] = 0
=============================================================================
