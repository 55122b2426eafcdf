------------------------------ MODULE SelfCheck ------------------------------
(***************************************************************************)
(* The preflight self-check of the orchestrator: six gates in order, the     *)
(* evidence each leaves in the scenario's staging directory, the GO verdict, *)
(* and the copy of the staged evidence into the run directory on activation. *)
(*                                                                          *)
(* The route takes no lock: the checks of one scenario that several clients  *)
(* stream at once take turns at every await, and write the same six files.   *)
(*                                                                          *)
(* What a check sees of the host is an observation; a tool that is missing   *)
(* or a module nobody hears of counts for the run, as the code has it.       *)
(* Messages, durations and the texts of the checks are left out.             *)
(***************************************************************************)
EXTENDS Naturals, FiniteSets

CONSTANTS Streams,  \* requests for the self-check of one scenario
          NoStream,
          MaxFailed, \* bound on the gates that fail
          MaxRuns   \* bound on the activations

Gates == 1..6

VARIABLES gate,     \* gate[c]: 0 before the request, then its gate under way, 7 after the last, 8 at its end
          clear,    \* clear[c]: the gates of c passed so far
          verdict,  \* verdict[c]: go_no_go of its last event
          staged,   \* .preflight/gate_N.json: the stream it is of, and its result
          archived, \* what the last activation copied: the streams it is of, and whether all passed
          unfit,    \* history: c saw something that forbids a run
          others,   \* history: the streams that were under way when c began, or began later
          sealed,   \* history: the verdicts of the streams that had ended, alone, when it copied
          failed,   \* gates that failed
          runs

vars == <<gate, clear, verdict, staged, archived, unfit, others, sealed, failed, runs>>

UnderWay == {c \in Streams : gate[c] \in 1..7}

\* _copy_preflight_evidence: every staged file, whoever wrote it.
Copied(files) == [of |-> {files[g].of : g \in Gates}, passed |-> \A g \in Gates : files[g].passed]

NoFile == [of |-> NoStream, passed |-> FALSE]

Init ==
    /\ gate = [c \in Streams |-> 0] /\ clear = [c \in Streams |-> TRUE]
    /\ verdict = [c \in Streams |-> "none"] /\ unfit = [c \in Streams |-> FALSE]
    /\ staged = [g \in Gates |-> NoFile] /\ archived = Copied([g \in Gates |-> NoFile])
    /\ others = [c \in Streams |-> {}] /\ sealed = [c \in Streams |-> "none"] /\ failed = 0 /\ runs = 0
-----------------------------------------------------------------------------
(* The gates.                                                               *)

\* Without the CLI the orchestrator is in its own container and assumes health.
CheckDockerServices(o) == o.docker \in {"no_cli", "all_up"}
CheckRos2Discovery(o)  == o.ros2 \in {"no_cli", "sil_nodes"}
CheckPorts(o)          == o.ports

Gate1SystemReadiness(o) == CheckDockerServices(o) /\ CheckRos2Discovery(o) /\ CheckPorts(o)

\* Only a RED module fails; with no pulse on the bus every module is UNSPECIFIED.
FetchModulePulses(o) == IF o.pulse = "none" THEN "unspecified" ELSE o.pulse
VerifyM7Independent(o) == o.m7 # "contained"

Gate2ModuleHealth(o) == FetchModulePulses(o) # "red" /\ VerifyM7Independent(o)

\* A scenario that is not in the store reaches the gate as an empty record.
Gate3ScenarioIntegrity(o) == o.scenario = "sound"

Gate4OddAlignment(o) ==
    /\ o.scenario \notin {"missing", "unparseable"}
    /\ o.odd \in {"no_cell", "inside"}

CheckUtcPtp(o)   == o.utc # "drifted"
CheckSimClock(o) == o.clock \in {"no_cli", "error", "listed"}

\* Whether rosbag2 runs is reported, and passes either way.
Gate5TimeBase(o) == CheckUtcPtp(o) /\ CheckSimClock(o) /\ o.asdr

VerifyM7Sharing(o)        == o.shared = "none"
\* Mutant: an absent veto topic is let through like a missing CLI.
VetoTopicOptional(o) == TRUE

VerifyCheckerVetoTopic(o) == o.veto # "absent"

\* The latency test is a stub that passes.
Gate6DoerChecker(o) == VerifyM7Sharing(o) /\ VerifyCheckerVetoTopic(o)

Passes(g, o) == CASE g = 1 -> Gate1SystemReadiness(o) [] g = 2 -> Gate2ModuleHealth(o)
                  [] g = 3 -> Gate3ScenarioIntegrity(o) [] g = 4 -> Gate4OddAlignment(o)
                  [] g = 5 -> Gate5TimeBase(o) [] g = 6 -> Gate6DoerChecker(o)
-----------------------------------------------------------------------------
(* The routes.                                                              *)

StartStream(c) ==
    /\ gate[c] = 0 /\ gate' = [gate EXCEPT ![c] = 1]
    /\ others' = [d \in Streams |-> CASE d = c -> UnderWay
                                      [] d # c /\ gate[d] # 0 -> others[d] \cup {c}
                                      [] d # c /\ gate[d] = 0 -> others[d]]
    /\ UNCHANGED <<clear, verdict, staged, archived, unfit, sealed, failed, runs>>

\* What forbids a run whatever the gates say: the reference for the verdict.
Disqualifying(g, o) ==
    \/ g = 1 /\ (o.docker = "some_down" \/ o.ros2 = "other_nodes" \/ ~o.ports)
    \/ g = 2 /\ (o.pulse = "red" \/ o.m7 = "contained")
    \/ g = 3 /\ o.scenario # "sound"
    \/ g = 4 /\ o.odd \in {"bad_domain", "outside", "not_numeric"}
    \/ g = 5 /\ (o.utc = "drifted" \/ o.clock = "missing" \/ ~o.asdr)
    \/ g = 6 /\ (o.shared # "none" \/ o.veto = "absent")

\* One gate, when its handler is back: the evidence is written before the next await.
GateDone(c, passed, bad) ==
    /\ clear' = [clear EXCEPT ![c] = clear[c] /\ passed]
    /\ staged' = [staged EXCEPT ![gate[c]] = [of |-> c, passed |-> passed]]
    /\ gate' = [gate EXCEPT ![c] = gate[c] + 1]
    /\ unfit' = [unfit EXCEPT ![c] = unfit[c] \/ bad]
    /\ failed' = failed + (IF passed THEN 0 ELSE 1) /\ failed' <= MaxFailed
    /\ UNCHANGED <<verdict, archived, others, sealed, runs>>

RunGate(c, o)  == gate[c] \in Gates /\ GateDone(c, Passes(gate[c], o), Disqualifying(gate[c], o))
GateCrashes(c) == gate[c] \in Gates /\ GateDone(c, FALSE, TRUE)

Complete(c) ==
    /\ gate[c] = 7 /\ gate' = [gate EXCEPT ![c] = 8]
    /\ verdict' = [verdict EXCEPT ![c] = IF clear[c] THEN "GO" ELSE "NO-GO"]
    /\ UNCHANGED <<clear, staged, archived, unfit, others, sealed, failed, runs>>

\* The client goes away: the generator ends at the await it is at.
Disconnect(c) ==
    /\ gate[c] \in 1..7 /\ gate' = [gate EXCEPT ![c] = 8]
    /\ UNCHANGED <<clear, verdict, staged, archived, unfit, others, sealed, failed, runs>>

\* lifecycle_activate copies what is staged, and asks for no verdict.
CopyPreflightEvidence ==
    /\ runs < MaxRuns /\ runs' = runs + 1
    /\ archived' = Copied(staged)
    /\ sealed' = [c \in Streams |-> IF others[c] = {} THEN verdict[c] ELSE "none"]
    /\ UNCHANGED <<gate, clear, verdict, staged, unfit, others, failed>>

\* Observations that differ from a healthy host in one place.
Healthy == [docker |-> "all_up", ros2 |-> "sil_nodes", ports |-> TRUE, pulse |-> "green",
            m7 |-> "alone", scenario |-> "sound", odd |-> "inside", utc |-> "close",
            clock |-> "listed", asdr |-> TRUE, shared |-> "none", veto |-> "found"]

Unlike ==
    [docker |-> {"no_cli", "timeout", "error", "some_down"},
     ros2 |-> {"no_cli", "timeout", "other_nodes", "empty"},
     ports |-> {FALSE}, asdr |-> {FALSE},
     pulse |-> {"none", "amber", "red"},
     m7 |-> {"no_tools", "absent", "contained"},
     scenario |-> {"missing", "stale_hash", "unparseable", "no_outcome"},
     odd |-> {"no_cell", "bad_domain", "not_numeric", "outside"},
     utc |-> {"no_cli", "unparseable", "drifted"},
     clock |-> {"no_cli", "timeout", "error", "missing"},
     shared |-> {"pid", "container", "import"},
     veto |-> {"no_cli", "error", "empty_bus", "absent"}]

OneOff ==
    {Healthy} \cup UNION {{[Healthy EXCEPT ![f] = v] : v \in Unlike[f]} : f \in DOMAIN Unlike}

Next ==
    \/ CopyPreflightEvidence
    \/ \E c \in Streams :
        \/ StartStream(c) \/ GateCrashes(c) \/ Complete(c) \/ Disconnect(c)
        \/ \E o \in OneOff : RunGate(c, o)

Spec == Init /\ [][Next]_vars
-----------------------------------------------------------------------------

\* GO is never given by a self-check that crashed in a gate or saw something that
\* forbids a run: a service down, a RED module, M7 inside a container or sharing
\* with the doers, a broken scenario, a drifted or absent clock, no veto topic;
\* whatever other self-checks run beside it.
GoMeansFit == \A c \in Streams : verdict[c] = "GO" => ~unfit[c]

\* After a self-check ran to its end nothing is staged of one that was over when it
\* began.  If no other ran beside it or after it, the staged evidence is all its own and
\* agrees with its verdict, and so is what an activation archived then.  (Two at once
\* overwrite each other's files: of their evidence the code says no more.)
EvidenceIsWhole ==
    \A c \in Streams :
        /\ verdict[c] # "none" =>
            /\ \A g \in Gates : staged[g].of \in {c} \cup others[c]
            /\ others[c] = {} => Copied(staged) = [of |-> {c}, passed |-> verdict[c] = "GO"]
        /\ sealed[c] # "none" => archived = [of |-> {c}, passed |-> sealed[c] = "GO"]
=============================================================================
