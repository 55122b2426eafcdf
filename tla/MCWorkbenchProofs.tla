--------------------------- MODULE MCWorkbenchProofs ---------------------------
(***************************************************************************)
(* What the machines of the workbench promise, of the specification that the *)
(* run checks: for every value of the constants and any number of commands,  *)
(* records, ticks and runs.  First the last machine's calls; then the         *)
(* machines together; then the theorems.  The evaluators and the coverage     *)
(* campaign share the variables and are no machine of MCMachines.            *)
(***************************************************************************)
EXTENDS MCWorkbench, MCMachinesProofs, TLAPS
-----------------------------------------------------------------------------
(* The calls of the simulator of shell B.                                   *)

(* The simulator's own steps leave what is under way; a call is over or goes  *)
(* on.                                                                        *)
LEMMA ShellTypesKeep ==
    ASSUME ShellTypes, UNCHANGED <<s1, s4, s5, s6>>, s2' \subseteq Modules, s3' \in Seq(Modules),
           s7' \in [op : {"idle", "accept", "step", "spin", "reset", "discover"}, k : Nat],
           s8' \in [ep : Nat, n : Nat, apply : BOOLEAN, returned : BOOLEAN, cold : BOOLEAN, whole : BOOLEAN],
           s8'.cold = s8.cold, s8'.ep = s8.ep
    PROVE  ShellTypes'
<1>1. Cmds' = Cmds  BY DEF Cmds, Eps
<1> QED  BY <1>1 DEF ShellTypes

LEMMA ShellStepEnds ==
    ASSUME ShellInv, ShellB!StepEnds
    PROVE  ShellInv'
<1>1. ShellTypes /\ Connected /\ Believed /\ Protocol  BY DEF ShellInv
<1>2. /\ s7.op = "spin" /\ s7' = [op |-> "idle", k |-> 0] /\ ShellB!SpinOnce
      /\ s8' = [s8 EXCEPT !.n = s8.n + 1, !.returned = TRUE] /\ UNCHANGED <<s1, s2, s3, s4, s5, s6>>
    BY DEF ShellB!StepEnds, ShellB!Idle
<1>3. s8.n \in Nat /\ s8.n + 1 \in Nat /\ (s8.n + 1) - 1 = s8.n  BY <1>1 DEF ShellTypes
<1>4. PICK n \in Nat : n = s8.n + 1 /\ n - 1 = s8.n  BY <1>3
<1>5. /\ s8' \in [ep : Nat, n : Nat, apply : BOOLEAN, returned : BOOLEAN, cold : BOOLEAN, whole : BOOLEAN]
      /\ s8'.cold = s8.cold /\ s8'.ep = s8.ep /\ s8'.whole = s8.whole /\ s8'.n = n
    BY <1>1, <1>2, <1>4, Zenon DEF ShellTypes
<1>6. ShellTypes'
  <2>1. s7' \in [op : {"idle", "accept", "step", "spin", "reset", "discover"}, k : Nat]  BY <1>2
  <2>2. s2' \subseteq Modules /\ s3' \in Seq(Modules)  BY <1>1, <1>2 DEF ShellTypes
  <2> QED  BY <1>1, <1>2, <1>5, <2>1, <2>2, ShellTypesKeep
<1>7. Connected'  BY <1>1, <1>2, <1>5 DEF Connected
<1>8. Believed'  BY <1>1, <1>2, <1>5, ShellSpins
<1>9. Protocol'
  <2>1. \A i \in DOMAIN s3 : Done(s3[i], "STEP")  BY <1>1, <1>2 DEF Protocol
  <2>2. s7'.op = "idle"  BY <1>2
  <2>3. \A i \in DOMAIN s3' : Quiet(s3[i])'  BY <1>2, <2>1 DEF Done, Quiet
  <2>4. \A i \in DOMAIN s3' : s6'[s3'[i]] = [op |-> "STEP", ep |-> s8'.ep, n |-> s8'.n - 1]
      BY <1>2, <1>4, <1>5, <2>1 DEF Done, Asked
  <2> QED  BY <2>2, <2>3, <2>4 DEF Protocol
<1> QED  BY <1>6, <1>7, <1>8, <1>9 DEF ShellInv

LEMMA ShellDiscovers ==
    ASSUME ShellInv, ShellB!WaitForDiscovery
    PROVE  ShellInv'
<1>1. ShellTypes /\ Connected /\ Believed /\ Protocol  BY DEF ShellInv
<1>2. s7.op = "discover" /\ ShellB!SpinOnce /\ UNCHANGED <<s1, s2, s3, s4, s5, s6>>
    BY DEF ShellB!WaitForDiscovery
<1>3. s8.n = 0 /\ ~s8.returned /\ \A i \in DOMAIN s3 : Quiet(s3[i])
    BY <1>1, <1>2 DEF Protocol
<1>4. CASE UNCHANGED <<s7, s8>>
  <2>1. s7 \in [op : {"idle", "accept", "step", "spin", "reset", "discover"}, k : Nat]  BY <1>1 DEF ShellTypes
  <2>2. ShellTypes'  BY <1>1, <1>2, <1>4, Zenon DEF ShellTypes, Cmds, Eps
  <2>3. Connected'  BY <1>1, <1>2, <1>4 DEF Connected
  <2>4. Believed'  BY <1>1, <1>2, <1>4, ShellSpins
  <2>5. Protocol'  BY <1>2, <1>3, <1>4 DEF Protocol, Quiet
  <2> QED  BY <2>2, <2>3, <2>4, <2>5 DEF ShellInv
<1>5. CASE s7' = [op |-> "idle", k |-> 0] /\ s8' = [s8 EXCEPT !.returned = TRUE]
  <2>1. /\ s8' \in [ep : Nat, n : Nat, apply : BOOLEAN, returned : BOOLEAN, cold : BOOLEAN, whole : BOOLEAN]
        /\ s8'.cold = s8.cold /\ s8'.ep = s8.ep /\ s8'.whole = s8.whole /\ s8'.n = 0
      BY <1>1, <1>3, <1>5, Zenon DEF ShellTypes
  <2>2. s7' \in [op : {"idle", "accept", "step", "spin", "reset", "discover"}, k : Nat]  BY <1>5
  <2>3. s2' \subseteq Modules /\ s3' \in Seq(Modules)  BY <1>1, <1>2 DEF ShellTypes
  <2>4. ShellTypes'  BY <1>1, <1>2, <2>1, <2>2, <2>3, ShellTypesKeep
  <2>5. Connected'  BY <1>1, <1>2, <2>1 DEF Connected
  <2>6. Believed'  BY <1>1, <1>2, <2>1, ShellSpins
  <2>7. Protocol'
    <3>1. s7'.op = "idle" /\ ~(s8'.n > 0)  BY <1>5, <2>1
    <3>2. \A i \in DOMAIN s3' : Quiet(s3[i])'  BY <1>2, <1>3 DEF Quiet
    <3> QED  BY <3>1, <3>2 DEF Protocol
  <2> QED  BY <2>4, <2>5, <2>6, <2>7 DEF ShellInv
<1> QED  BY <1>4, <1>5 DEF ShellB!WaitForDiscovery, ShellB!Idle

(* As many connections as there are modules are all of them.                  *)
LEMMA AllConnected ==
    ASSUME s3 \in Seq(Modules), \A i, j \in DOMAIN s3 : s3[i] = s3[j] => i = j,
           Len(s3) = Cardinality(Modules), NEW m \in Modules
    PROVE  \E i \in DOMAIN s3 : s3[i] = m
<1>1. Len(s3) \in Nat /\ DOMAIN s3 = 1..Len(s3) /\ s3 \in [1..Len(s3) -> Modules]
    BY LenProperties
<1>2. s3 \in Injection(1..Len(s3), Modules)
    BY <1>1 DEF Injection, IsInjective
<1>3. Cardinality(1..Len(s3)) = Len(s3)
    BY <1>1, FS_Interval
<1>4. s3 \in Surjection(1..Len(s3), Modules)
    BY <1>2, <1>3, FS_Injection, ShellBAssumption
<1> QED  BY <1>1, <1>4 DEF Surjection

LEMMA ShellAccept ==
    ASSUME ShellInv, NEW m \in Modules, ShellB!Accept(m)
    PROVE  ShellInv'
<1>1. ShellTypes /\ Connected /\ Believed /\ Protocol  BY DEF ShellInv
<1>2. /\ s7.op = "accept" /\ m \in s2 /\ s2' = s2 \ {m} /\ s3' = Append(s3, m)
      /\ UNCHANGED <<s1, s4, s5, s6, s7, s8, s9, s10>>
    BY DEF ShellB!Accept
<1>3. ~s8.whole /\ s8.n = 0 /\ ~s8.returned /\ \A x \in Modules : Quiet(x)
    BY <1>1, <1>2 DEF Protocol
<1>4. /\ Len(s3) \in Nat /\ DOMAIN s3 = 1..Len(s3) /\ DOMAIN s3' = 1..(Len(s3) + 1) /\ s3' \in Seq(Modules)
      /\ \A i \in 1..Len(s3) : s3'[i] = s3[i]
      /\ s3'[Len(s3) + 1] = m
    BY <1>1, <1>2 DEF ShellTypes
<1>5. ShellTypes'  BY <1>1, <1>2, <1>4, Zenon DEF ShellTypes, Cmds, Eps
<1>6. Connected'
  <2>1. \A i \in 1..Len(s3) : s3[i] # m  BY <1>1, <1>2, <1>4 DEF Connected
  <2>2. ASSUME NEW i \in DOMAIN s3', NEW j \in DOMAIN s3', s3'[i] = s3'[j] PROVE i = j
    <3>1. (i \in 1..Len(s3) \/ i = Len(s3) + 1) /\ (j \in 1..Len(s3) \/ j = Len(s3) + 1)  BY <1>4, <2>2
    <3> QED  BY <1>1, <1>4, <2>1, <2>2, <3>1 DEF Connected
  <2>3. ASSUME NEW i \in DOMAIN s3' PROVE s3'[i] \notin s2' /\ s1'[s3'[i]] # "starting"
    <3>1. i \in 1..Len(s3) \/ i = Len(s3) + 1  BY <1>4
    <3> QED  BY <1>1, <1>2, <1>4, <2>1, <3>1 DEF Connected
  <2>4. \A x \in s2' : s1'[x] # "starting"  BY <1>1, <1>2 DEF Connected
  <2> QED  BY <1>2, <1>3, <2>2, <2>3, <2>4 DEF Connected
<1>7. Believed'  BY <1>1, <1>2, Zenon DEF Believed, Msgs, Ctls, Eps
<1>8. Protocol'
  <2>1. \A x \in Modules : Quiet(x)'  BY <1>2, <1>3 DEF Quiet
  <2> QED  BY <1>2, <1>3, <2>1 DEF Protocol
<1> QED  BY <1>5, <1>6, <1>7, <1>8 DEF ShellInv

(* The connections are counted, or waited for too long.                       *)
LEMMA ShellAccepted ==
    ASSUME ShellInv, ShellB!Accepted \/ ShellB!AcceptTimesOut
    PROVE  ShellInv'
<1>1. ShellTypes /\ Connected /\ Believed /\ Protocol  BY DEF ShellInv
<1>2. s7.op = "accept" /\ UNCHANGED <<s1, s2, s3, s4, s5, s6, s9, s10>>
    BY DEF ShellB!Accepted, ShellB!AcceptTimesOut
<1>3. ~s8.whole /\ s8.n = 0 /\ ~s8.returned /\ \A x \in Modules : Quiet(x)
    BY <1>1, <1>2 DEF Protocol
<1>4. \A i \in DOMAIN s3' : Quiet(s3[i])'
  <2>1. \A i \in DOMAIN s3 : s3[i] \in Modules  BY <1>1 DEF ShellTypes
  <2> QED  BY <1>2, <1>3, <2>1 DEF Quiet
<1>5. s2' \subseteq Modules /\ s3' \in Seq(Modules)  BY <1>1, <1>2 DEF ShellTypes
<1>6. CASE s7' = [op |-> "discover", k |-> 0] /\ s8' = [s8 EXCEPT !.whole = TRUE]
           /\ Len(s3) = Cardinality(Modules)
  <2>1. /\ s8' \in [ep : Nat, n : Nat, apply : BOOLEAN, returned : BOOLEAN, cold : BOOLEAN, whole : BOOLEAN]
        /\ s8'.cold = s8.cold /\ s8'.ep = s8.ep /\ s8'.n = 0 /\ ~s8'.returned
      BY <1>1, <1>3, <1>6, Zenon DEF ShellTypes
  <2>2. s7' \in [op : {"idle", "accept", "step", "spin", "reset", "discover"}, k : Nat] /\ s7'.op = "discover"
      BY <1>6
  <2>3. ShellTypes'  BY <1>1, <1>2, <1>5, <2>1, <2>2, ShellTypesKeep
  <2>4. Connected'
    <3>1. s3 \in Seq(Modules) /\ \A i, j \in DOMAIN s3 : s3[i] = s3[j] => i = j
        BY <1>1 DEF ShellTypes, Connected
    <3>2. \A m \in Modules : \E i \in DOMAIN s3 : s3[i] = m  BY <1>6, <3>1, AllConnected
    <3> QED  BY <1>1, <1>2, <3>2 DEF Connected
  <2>5. Believed'  BY <1>1, <1>2, <2>1, Zenon DEF Believed, Msgs, Ctls, Eps
  <2>6. Protocol'  BY <1>4, <2>1, <2>2 DEF Protocol
  <2> QED  BY <2>3, <2>4, <2>5, <2>6 DEF ShellInv
<1>7. CASE ShellB!Raise
  <2>1. s7' = [op |-> "idle", k |-> 0] /\ s8' = [s8 EXCEPT !.returned = FALSE]
      BY <1>7 DEF ShellB!Raise, ShellB!Idle
  <2>2. /\ s8' \in [ep : Nat, n : Nat, apply : BOOLEAN, returned : BOOLEAN, cold : BOOLEAN, whole : BOOLEAN]
        /\ s8'.cold = s8.cold /\ s8'.ep = s8.ep /\ s8'.n = 0 /\ ~s8'.returned /\ s8'.whole = s8.whole
      BY <1>1, <1>3, <2>1, Zenon DEF ShellTypes
  <2>3. s7' \in [op : {"idle", "accept", "step", "spin", "reset", "discover"}, k : Nat] /\ s7'.op = "idle"
      BY <2>1
  <2>4. ShellTypes'  BY <1>1, <1>2, <1>5, <2>2, <2>3, ShellTypesKeep
  <2>5. Connected'  BY <1>1, <1>2, <2>2 DEF Connected
  <2>6. Believed'  BY <1>1, <1>2, <2>2, Zenon DEF Believed, Msgs, Ctls, Eps
  <2>7. Protocol'  BY <1>4, <2>2, <2>3 DEF Protocol
  <2> QED  BY <2>4, <2>5, <2>6, <2>7 DEF ShellInv
<1> QED  BY <1>6, <1>7, SameCardinality DEF ShellB!Accepted, ShellB!AcceptTimesOut

(* The processes and the sockets are new, or gone.                            *)
LEMMA ShellStartsOrCloses ==
    ASSUME ShellInv, ShellB!ResetCold \/ ShellB!Close
    PROVE  ShellInv'
<1>1. ShellTypes /\ Connected /\ Believed /\ Protocol  BY DEF ShellInv
<1>2. /\ s2' = {} /\ s3' = <<>> /\ s4' = [m \in Modules |-> <<>>] /\ s5' = [m \in Modules |-> <<>>]
      /\ s9' = [t \in ShellB!Topics |-> <<>>] /\ s6' = s6 /\ s7.op = "idle"
      /\ s10' = ShellB!Fresh
  <2>1. ShellB!CloseRest /\ ShellB!ResetLocalState /\ s6' = s6 /\ s7 = [op |-> "idle", k |-> 0]
      BY Zenon DEF ShellB!ResetCold, ShellB!Close, ShellB!Idle
  <2>2. s7.op = "idle"  BY <2>1
  <2> QED  BY <2>1, <2>2 DEF ShellB!CloseRest, ShellB!Empty, ShellB!ResetLocalState
<1>3. \E st \in {"none", "starting"} : s1' = [m \in Modules |-> st]
    BY Zenon DEF ShellB!ResetCold, ShellB!Close
<1>4. /\ s7' \in [op : {"idle", "accept"}, k : Nat]
      /\ s8' \in [ep : Nat, n : Nat, apply : BOOLEAN, returned : BOOLEAN, cold : BOOLEAN, whole : BOOLEAN]
      /\ ~s8'.returned /\ ~s8'.whole
      /\ s7'.op = "accept" => s8'.n = 0
  <2>1. CASE ShellB!ResetCold
    <3>1. s7' = [op |-> "accept", k |-> 0]  BY <2>1 DEF ShellB!ResetCold
    <3>2. s8' = [s8 EXCEPT !.ep = s8.ep + 1, !.n = 0, !.returned = FALSE, !.cold = TRUE, !.whole = FALSE]
        BY <2>1, Zenon DEF ShellB!ResetCold, ShellB!Episode
    <3>3. PICK e \in Nat : e = s8.ep + 1
      <4>1. s8.ep + 1 \in Nat  BY <1>1 DEF ShellTypes
      <4> QED  BY <4>1
    <3>4. s8' = [s8 EXCEPT !.ep = e, !.n = 0, !.returned = FALSE, !.cold = TRUE, !.whole = FALSE]
        BY <3>2, <3>3
    <3> QED  BY <1>1, <3>1, <3>4, Zenon DEF ShellTypes
  <2>2. CASE ShellB!Close
    <3>1. s7' = s7 /\ s8' = [s8 EXCEPT !.returned = FALSE, !.whole = FALSE]  BY <2>2 DEF ShellB!Close
    <3>2. s7' \in [op : {"idle", "accept"}, k : Nat] /\ s7'.op = "idle"  BY <1>1, <1>2, <3>1 DEF ShellTypes
    <3> QED  BY <1>1, <3>1, <3>2, Zenon DEF ShellTypes
  <2> QED  BY <2>1, <2>2
<1>5. ShellTypes'
  <2>1. s4' \in [Modules -> Seq(Cmds)']  BY <1>2
  <2>2. s5' \in [Modules -> Seq(AnyCmds)]  BY <1>2
  <2>3. s1' \in [Modules -> {"none", "starting", "up", "exiting", "gone"}]  BY <1>3
  <2>4. s7' \in [op : {"idle", "accept", "step", "spin", "reset", "discover"}, k : Nat]  BY <1>4
  <2>5. s3' \in Seq(Modules)  BY <1>2
  <2> QED  BY <1>1, <1>2, <1>4, <2>1, <2>2, <2>3, <2>4, <2>5 DEF ShellTypes, AnyCmds
<1>6. Connected'  BY <1>2, <1>4 DEF Connected
<1>7. Believed'
  <2>1. s9' \in [ShellB!Topics -> Seq(Msgs')]  BY <1>2
  <2>2. s10' \in Ctls' /\ ~s10'.avoiding  BY <1>2 DEF Ctls, ShellB!Fresh
  <2> QED  BY <2>1, <2>2 DEF Believed
<1>8. Protocol'
  <2>1. \A m \in Modules : Quiet(m)'  BY <1>2 DEF Quiet
  <2>2. DOMAIN s3' = {}  BY <1>2
  <2>3. s7'.op \in {"idle", "accept"}  BY <1>4
  <2> QED  BY <1>4, <2>1, <2>2, <2>3 DEF Protocol
<1> QED  BY <1>5, <1>6, <1>7, <1>8 DEF ShellInv

LEMMA SomeOrAll == \A n \in Nat : \A k \in 0..n : k < n \/ k = n
OBVIOUS

(* A command goes to the clients in order: it reaches all of them, or one     *)
(* that is deaf has stopped it.                                               *)
LEMMA SendReaches ==
    ASSUME ShellInv, s7.op = "idle", NEW op \in {"STEP", "RESET"}, NEW name \in {"step", "reset"},
           NEW cmd, cmd = Asked(op)', ShellB!SendAll(cmd, name), s3 # <<>>, UNCHANGED <<s1, s3, s5, s6>>
    PROVE  \/ s7' = [op |-> "idle", k |-> 0] /\ \E i \in DOMAIN s3' : Deaf(s3[i])'
           \/ s7' = [op |-> name, k |-> 1] /\ Reading(op)'
<1>1. ShellTypes /\ Connected /\ Protocol  BY DEF ShellInv
<1>2. /\ Len(s3) \in Nat /\ DOMAIN s3 = 1..Len(s3) /\ 1 \in DOMAIN s3
      /\ \A i \in DOMAIN s3 : s3[i] \in Modules
    BY <1>1, EmptySeq DEF ShellTypes
<1>3. PICK sent \in 0..Len(s3) :
        /\ sent < Len(s3) => ~ShellB!Hears(s3[sent + 1])
        /\ s4' = [m \in Modules |-> IF m \in ShellB!ToSet(SubSeq(s3, 1, sent)) THEN Append(s4[m], cmd) ELSE s4[m]]
        /\ s7' = IF sent < Len(s3) THEN ShellB!Idle ELSE [op |-> name, k |-> 1]
    BY DEF ShellB!SendAll
<1>4. (\E i \in DOMAIN s3 : Deaf(s3[i])) \/ (\A i \in DOMAIN s3 : Quiet(s3[i]))
    BY <1>1 DEF Protocol
<1>5. ASSUME NEW i \in DOMAIN s3, Deaf(s3[i]) PROVE Deaf(s3[i])'
    BY <1>5 DEF Deaf, ShellB!Hears
<1>6. CASE sent < Len(s3)
  <2>1. sent + 1 \in DOMAIN s3  BY <1>2, <1>6
  <2>2. s7' = [op |-> "idle", k |-> 0]  BY <1>3, <1>6 DEF ShellB!Idle
  <2>3. Quiet(s3[sent + 1]) => Deaf(s3[sent + 1])  BY <1>3, <1>6 DEF Quiet, Deaf
  <2>4. \E i \in DOMAIN s3 : Deaf(s3[i])  BY <1>4, <2>1, <2>3
  <2>5. \E i \in DOMAIN s3' : Deaf(s3[i])'  BY <1>5, <2>4
  <2> QED  BY <2>2, <2>5
<1>7. CASE sent = Len(s3)
  <2>1. s7' = [op |-> name, k |-> 1] /\ s7'.k = 1  BY <1>2, <1>3, <1>7
  <2>2. CASE \E i \in DOMAIN s3 : Deaf(s3[i])
    <3>1. \E i \in DOMAIN s3' : i >= s7'.k /\ Deaf(s3[i])'  BY <1>2, <1>5, <2>1, <2>2
    <3> QED  BY <1>2, <2>1, <3>1 DEF Reading
  <2>3. CASE \A i \in DOMAIN s3 : Quiet(s3[i])
    <3>1. SubSeq(s3, 1, sent) = s3  BY <1>1, <1>7, SubSeqFull DEF ShellTypes
    <3>2. ASSUME NEW i \in DOMAIN s3 PROVE Owes(s3[i], op)'
      <4>1. s3[i] \in ShellB!ToSet(SubSeq(s3, 1, sent))  BY <3>1, Zenon DEF ShellB!ToSet
      <4>2. s4[s3[i]] = <<>> /\ s5[s3[i]] = <<>>  BY <2>3 DEF Quiet
      <4>3. s4'[s3[i]] = Append(<<>>, cmd)  BY <1>2, <1>3, <4>1, <4>2, Zenon
      <4>4. s4'[s3'[i]] = <<cmd>> /\ s5'[s3'[i]] = <<>>  BY <4>2, <4>3
      <4> QED  BY <4>4 DEF Owes
    <3>3. \A i \in DOMAIN s3' : ~(i < s7'.k)  BY <1>2, <2>1
    <3> QED  BY <1>2, <2>1, <3>2, <3>3 DEF Reading
  <2> QED  BY <1>4, <2>1, <2>2, <2>3
<1>8. sent < Len(s3) \/ sent = Len(s3)
  <2>1. sent \in 0..Len(s3) /\ Len(s3) \in Nat  BY <1>2, <1>3
  <2> QED  BY <2>1, SomeOrAll
<1> QED  BY <1>6, <1>7, <1>8

LEMMA SendTypes ==
    ASSUME ShellTypes, NEW cmd, NEW name \in {"step", "reset"}, ShellB!SendAll(cmd, name),
           cmd \in Cmds', Cmds \subseteq Cmds'
    PROVE  s4' \in [Modules -> Seq(Cmds)'] /\ s7' \in [op : {"idle", "step", "reset"}, k : Nat]
<1>1. \A m \in Modules : s4[m] \in Seq(Cmds')
    BY SeqMonotonic DEF ShellTypes
<1>2. \A m \in Modules : Append(s4[m], cmd) \in Seq(Cmds')
    BY <1>1, AppendProperties
<1> QED  BY <1>1, <1>2 DEF ShellB!SendAll, ShellB!Idle

(* Where a call begins, with or without clients.                              *)
LEMMA CallBegins ==
    ASSUME Protocol, s7.op = "idle", UNCHANGED <<s1, s3, s5, s6>>, ~s8'.returned,
           \/ s3 = <<>> /\ s7'.op = "spin"
           \/ s3 = <<>> /\ s7'.op = "discover" /\ s8'.n = 0
           \/ s7'.op = "idle" /\ \E i \in DOMAIN s3' : Deaf(s3[i])'
           \/ s7'.op = "step" /\ Reading("STEP")'
           \/ s7'.op = "reset" /\ Reading("RESET")' /\ s8'.n = 0
    PROVE  Protocol'
<1>1. s3 = <<>> => DOMAIN s3' = {}  OBVIOUS
<1> QED  BY <1>1 DEF Protocol

LEMMA ShellStepBegins ==
    ASSUME ShellInv, ShellB!StepBegins
    PROVE  ShellInv'
<1>1. ShellTypes /\ Connected /\ Believed /\ Protocol  BY DEF ShellInv
<1>2. /\ s7 = [op |-> "idle", k |-> 0] /\ s10' = ShellB!ComputeAutopilot(s10)
      /\ s8' = [s8 EXCEPT !.returned = FALSE] /\ UNCHANGED <<s1, s2, s3, s5, s6, s9>>
      /\ \/ s3 = <<>> /\ s7' = [op |-> "spin", k |-> 0] /\ s4' = s4
         \/ s3 # <<>> /\ ShellB!SendAll([op |-> "STEP", ep |-> s8.ep, n |-> s8.n], "step")
    BY DEF ShellB!StepBegins, ShellB!Idle
<1>3. s7.op = "idle"  BY <1>2
<1>4. /\ s8' \in [ep : Nat, n : Nat, apply : BOOLEAN, returned : BOOLEAN, cold : BOOLEAN, whole : BOOLEAN]
      /\ s8'.cold = s8.cold /\ s8'.ep = s8.ep /\ s8'.whole = s8.whole /\ s8'.n = s8.n /\ ~s8'.returned
    BY <1>1, <1>2, Zenon DEF ShellTypes
<1>5. Cmds' = Cmds /\ Ctls' = Ctls /\ Msgs' = Msgs  BY <1>4 DEF Cmds, Ctls, Msgs, Eps
<1>6. Connected'  BY <1>1, <1>2, <1>4 DEF Connected
<1>7. Believed'
  <2>1. s10' \in Ctls /\ (s10'.avoiding => s10'.course)  BY <1>1, <1>2, AutopilotKeepsCourse DEF Believed
  <2> QED  BY <1>1, <1>2, <1>5, <2>1 DEF Believed
<1>8. CASE s3 = <<>> /\ s7' = [op |-> "spin", k |-> 0] /\ s4' = s4
  <2>1. s7' \in [op : {"idle", "accept", "step", "spin", "reset", "discover"}, k : Nat] /\ s7'.op = "spin"
      BY <1>8
  <2>2. s2' \subseteq Modules /\ s3' \in Seq(Modules)  BY <1>1, <1>2 DEF ShellTypes
  <2>3. ShellTypes'  BY <1>1, <1>2, <1>4, <1>8, <2>1, <2>2, ShellTypesKeep
  <2>4. Protocol'  BY <1>1, <1>2, <1>3, <1>4, <1>8, <2>1, CallBegins
  <2> QED  BY <1>6, <1>7, <2>3, <2>4 DEF ShellInv
<1>9. ASSUME s3 # <<>>, ShellB!SendAll([op |-> "STEP", ep |-> s8.ep, n |-> s8.n], "step")
      PROVE  ShellInv'
  <2>1. PICK cmd \in Cmds : cmd = [op |-> "STEP", ep |-> s8.ep, n |-> s8.n]
      BY <1>1, Zenon DEF Cmds, Eps, ShellTypes
  <2>2. ShellB!SendAll(cmd, "step")  BY <1>9, <2>1
  <2>3. cmd = Asked("STEP")'  BY <1>4, <2>1 DEF Asked
  <2>4. s4' \in [Modules -> Seq(Cmds)'] /\ s7' \in [op : {"idle", "step", "reset"}, k : Nat]
      BY <1>1, <1>5, <2>2, SendTypes
  <2>5. ShellTypes'  BY <1>1, <1>2, <1>4, <2>4, Zenon DEF ShellTypes
  <2>6. \/ s7' = [op |-> "idle", k |-> 0] /\ \E i \in DOMAIN s3' : Deaf(s3[i])'
        \/ s7' = [op |-> "step", k |-> 1] /\ Reading("STEP")'
      BY <1>2, <1>3, <1>9, <2>2, <2>3, SendReaches
  <2>7. \/ s7'.op = "idle" /\ \E i \in DOMAIN s3' : Deaf(s3[i])'
        \/ s7'.op = "step" /\ Reading("STEP")'
      BY <2>6
  <2>8. Protocol'  BY <1>1, <1>2, <1>3, <1>4, <2>7, CallBegins
  <2> QED  BY <1>6, <1>7, <2>5, <2>8 DEF ShellInv
<1> QED  BY <1>2, <1>8, <1>9

LEMMA ShellResetInPlace ==
    ASSUME ShellInv, ShellB!ResetInPlace
    PROVE  ShellInv'
<1>1. ShellTypes /\ Connected /\ Believed /\ Protocol  BY DEF ShellInv
<1>2. /\ s7 = [op |-> "idle", k |-> 0] /\ s10' = ShellB!Fresh
      /\ s8' = [s8 EXCEPT !.ep = s8.ep + 1, !.n = 0, !.returned = FALSE, !.cold = FALSE, !.whole = s8.whole /\ ~FALSE]
      /\ UNCHANGED <<s1, s2, s3, s5, s6, s9>>
      /\ \/ s3 = <<>> /\ s7' = [op |-> "discover", k |-> 0] /\ s4' = s4
         \/ s3 # <<>> /\ ShellB!SendAll([op |-> "RESET", ep |-> s8.ep + 1, n |-> 0], "reset")
    BY DEF ShellB!ResetInPlace, ShellB!Idle, ShellB!Episode, ShellB!ResetLocalState
<1>3. s7.op = "idle"  BY <1>2
<1>4. PICK e \in Nat : e = s8.ep + 1
  <2>1. s8.ep + 1 \in Nat  BY <1>1 DEF ShellTypes
  <2> QED  BY <2>1
<1>5. /\ s8' \in [ep : Nat, n : Nat, apply : BOOLEAN, returned : BOOLEAN, cold : BOOLEAN, whole : BOOLEAN]
      /\ ~s8'.cold /\ s8'.ep = e /\ s8'.whole = s8.whole /\ s8'.n = 0 /\ ~s8'.returned
  <2>1. PICK w \in BOOLEAN : w = (s8.whole /\ ~FALSE)  BY Zenon
  <2>2. s8' = [s8 EXCEPT !.ep = e, !.n = 0, !.returned = FALSE, !.cold = FALSE, !.whole = w]
      BY <1>2, <1>4, <2>1
  <2>3. s8.whole \in BOOLEAN  BY <1>1 DEF ShellTypes
  <2>4. w = s8.whole  BY <2>1, <2>3
  <2> QED  BY <1>1, <2>2, <2>4, Zenon DEF ShellTypes
<1>6. Eps' = Nat /\ Eps \subseteq Nat  BY <1>1, <1>5 DEF Eps, ShellTypes
<1>7. Cmds \subseteq Cmds' /\ Msgs \subseteq Msgs'  BY <1>6, Zenon DEF Cmds, Msgs
<1>8. Connected'  BY <1>1, <1>2, <1>5 DEF Connected
<1>9. Believed'
  <2>1. \A t \in ShellB!Topics : s9[t] \in Seq(Msgs')  BY <1>1, <1>7, SeqMonotonic DEF Believed
  <2>2. s9' \in [ShellB!Topics -> Seq(Msgs')]  BY <1>1, <1>2, <2>1 DEF Believed
  <2>3. s10' \in Ctls' /\ ~s10'.avoiding  BY <1>2 DEF Ctls, ShellB!Fresh
  <2> QED  BY <2>2, <2>3 DEF Believed
<1>10. CASE s3 = <<>> /\ s7' = [op |-> "discover", k |-> 0] /\ s4' = s4
  <2>1. s7' \in [op : {"idle", "accept", "step", "spin", "reset", "discover"}, k : Nat] /\ s7'.op = "discover"
      BY <1>10
  <2>2. \A m \in Modules : s4[m] \in Seq(Cmds')  BY <1>1, <1>7, SeqMonotonic DEF ShellTypes
  <2>3. s4' \in [Modules -> Seq(Cmds')]  BY <1>1, <1>10, <2>2 DEF ShellTypes
  <2>4. ShellTypes'  BY <1>1, <1>2, <1>5, <2>1, <2>3, Zenon DEF ShellTypes
  <2>5. Protocol'  BY <1>1, <1>2, <1>3, <1>5, <1>10, <2>1, CallBegins
  <2> QED  BY <1>8, <1>9, <2>4, <2>5 DEF ShellInv
<1>11. ASSUME s3 # <<>>, ShellB!SendAll([op |-> "RESET", ep |-> s8.ep + 1, n |-> 0], "reset")
       PROVE  ShellInv'
  <2>1. PICK cmd \in Cmds' : cmd = [op |-> "RESET", ep |-> s8.ep + 1, n |-> 0] /\ cmd = [op |-> "RESET", ep |-> e, n |-> 0]
    <3>1. [op |-> "RESET", ep |-> e, n |-> 0] \in Cmds'  BY <1>6 DEF Cmds
    <3> QED  BY <1>4, <3>1
  <2>2. ShellB!SendAll(cmd, "reset")  BY <1>11, <2>1
  <2>3. cmd = Asked("RESET")'  BY <1>5, <2>1 DEF Asked
  <2>4. s4' \in [Modules -> Seq(Cmds)'] /\ s7' \in [op : {"idle", "step", "reset"}, k : Nat]
      BY <1>1, <1>7, <2>1, <2>2, SendTypes
  <2>5. ShellTypes'  BY <1>1, <1>2, <1>5, <2>4, Zenon DEF ShellTypes
  <2>6. \/ s7' = [op |-> "idle", k |-> 0] /\ \E i \in DOMAIN s3' : Deaf(s3[i])'
        \/ s7' = [op |-> "reset", k |-> 1] /\ Reading("RESET")'
      BY <1>2, <1>3, <1>11, <2>2, <2>3, SendReaches
  <2>7. \/ s7'.op = "idle" /\ \E i \in DOMAIN s3' : Deaf(s3[i])'
        \/ s7'.op = "reset" /\ Reading("RESET")'
      BY <2>6
  <2>8. Protocol'  BY <1>1, <1>2, <1>3, <1>5, <2>7, CallBegins
  <2> QED  BY <1>8, <1>9, <2>5, <2>8 DEF ShellInv
<1> QED  BY <1>2, <1>10, <1>11

(* One line is read: from a client that has left it, or the call has failed   *)
(* at a deaf one.                                                             *)
LEMMA LineRead ==
    ASSUME ShellInv, NEW op \in {"STEP", "RESET"}, Reading(op), UNCHANGED <<s1, s3, s4, s6>>,
           s8'.ep = s8.ep, s8'.n = s8.n, NEW k, k = s7.k,
           s5[s3[k]] # <<>>, s5' = [s5 EXCEPT ![s3[k]] = Tail(s5[s3[k]])]
    PROVE  \/ \E i \in DOMAIN s3 : i > k /\ Deaf(s3[i])'
           \/ /\ Head(s5[s3[k]]) = Asked(op) /\ Done(s3[k], op)'
              /\ \A i \in DOMAIN s3 : i < k => Done(s3[i], op)'
              /\ \A i \in DOMAIN s3 : i > k => Owes(s3[i], op)'
<1>1. ShellTypes /\ Connected  BY DEF ShellInv
<1>2. k \in DOMAIN s3  BY DEF Reading
<1>3. DOMAIN s3 \subseteq Nat /\ k \in Nat /\ \A i \in DOMAIN s3 : s3[i] \in Modules
  <2>1. DOMAIN s3 = 1..Len(s3) /\ Len(s3) \in Nat /\ \A i \in DOMAIN s3 : s3[i] \in Modules
      BY <1>1 DEF ShellTypes
  <2> QED  BY <1>2, <2>1
<1>4. PICK m \in Modules : m = s3[k]
  <2>1. s3[k] \in Modules  BY <1>2, <1>3
  <2> QED  BY <2>1
<1>5. s5'[m] = Tail(s5[m]) /\ s5[m] # <<>> /\ \A x \in Modules : x # m => s5'[x] = s5[x]
    BY <1>1, <1>2, <1>4 DEF ShellTypes
<1>6. ASSUME NEW i \in DOMAIN s3, i # k PROVE s3[i] # m
    BY <1>1, <1>2, <1>4, <1>6 DEF Connected
<1>7. ~Deaf(m)  BY <1>5 DEF Deaf
<1>8. Asked(op)' = Asked(op)  BY DEF Asked
<1>9. CASE \E i \in DOMAIN s3 : i >= s7.k /\ Deaf(s3[i])
  <2>1. PICK i \in DOMAIN s3 : i >= k /\ Deaf(s3[i])  BY <1>9
  <2>2. i # k /\ i > k  BY <1>3, <1>4, <1>7, <2>1
  <2>3. s3[i] # m /\ s5'[s3[i]] = s5[s3[i]]  BY <1>3, <1>5, <1>6, <2>2
  <2>4. Deaf(s3[i])'  BY <2>1, <2>3 DEF Deaf, ShellB!Hears
  <2> QED  BY <2>1, <2>2, <2>4
<1>10. CASE \A i \in DOMAIN s3 : IF i < s7.k THEN Done(s3[i], op) ELSE Owes(s3[i], op)
  <2>1. Owes(m, op)  BY <1>2, <1>3, <1>4, <1>10
  <2>2. s4[m] = <<>> /\ s5[m] = <<Asked(op)>> /\ s6[m] = Asked(op)  BY <1>5, <2>1 DEF Owes
  <2>3. Head(s5[m]) = Asked(op) /\ Tail(s5[m]) = <<>>  BY <2>2
  <2>4. Done(s3[k], op)'  BY <1>4, <1>5, <1>8, <2>2, <2>3 DEF Done, Quiet
  <2>5. ASSUME NEW i \in DOMAIN s3, i < k PROVE Done(s3[i], op)'
    <3>1. Done(s3[i], op) /\ i # k  BY <1>2, <1>3, <1>10, <2>5
    <3>2. s5'[s3[i]] = s5[s3[i]]  BY <1>3, <1>5, <1>6, <3>1
    <3> QED  BY <1>8, <3>1, <3>2 DEF Done, Quiet
  <2>6. ASSUME NEW i \in DOMAIN s3, i > k PROVE Owes(s3[i], op)'
    <3>1. Owes(s3[i], op) /\ i # k  BY <1>2, <1>3, <1>10, <2>6
    <3>2. s5'[s3[i]] = s5[s3[i]]  BY <1>3, <1>5, <1>6, <3>1
    <3> QED  BY <1>8, <3>1, <3>2, Zenon DEF Owes
  <2> QED  BY <1>4, <2>3, <2>4, <2>5, <2>6
<1> QED  BY <1>9, <1>10 DEF Reading

LEMMA ShellReads ==
    ASSUME ShellInv, NEW name, NEW next, NEW op, ShellB!ReadLine(name, next),
           \/ name = "step" /\ next = "spin" /\ op = "STEP"
           \/ name = "reset" /\ next = "discover" /\ op = "RESET"
    PROVE  ShellInv'
<1>1. ShellTypes /\ Connected /\ Believed /\ Protocol  BY DEF ShellInv
<1>2. s7.op = name /\ UNCHANGED <<s1, s2, s3, s4, s6, s9, s10>>  BY DEF ShellB!ReadLine
<1>3. Reading(op) /\ ~s8.returned /\ (name = "reset" => s8.n = 0)  BY <1>1, <1>2 DEF Protocol
<1>4. PICK k \in DOMAIN s3 : k = s7.k  BY <1>3 DEF Reading
<1>5. /\ DOMAIN s3 = 1..Len(s3) /\ Len(s3) \in Nat /\ k \in Nat
      /\ s3[k] \in Modules /\ s5[s3[k]] \in Seq(AnyCmds)
    BY <1>1, <1>4 DEF ShellTypes
<1>6. s2' \subseteq Modules /\ s3' \in Seq(Modules)  BY <1>1, <1>2 DEF ShellTypes
<1>7. \/ /\ s5[s3[k]] # <<>> /\ s5' = [s5 EXCEPT ![s3[k]] = Tail(s5[s3[k]])] /\ s8' = s8
         /\ s7' = IF k = Len(s3) THEN [op |-> next, k |-> 0] ELSE [op |-> name, k |-> k + 1]
      \/ /\ s5[s3[k]] # <<>> /\ name = "reset" /\ Head(s5[s3[k]]).op # "RESET"
         /\ s5' = [s5 EXCEPT ![s3[k]] = Tail(s5[s3[k]])] /\ ShellB!Raise
      \/ s5[s3[k]] = <<>> /\ ~ShellB!Hears(s3[k]) /\ s5' = s5 /\ ShellB!Raise
    BY <1>2, <1>4 DEF ShellB!ReadLine, ShellB!LastAnswer
<1>8. s5' \in [Modules -> Seq(AnyCmds)]
  <2>1. s5[s3[k]] # <<>> => Tail(s5[s3[k]]) \in Seq(AnyCmds)  BY <1>5, HeadTailProperties
  <2> QED  BY <1>1, <1>5, <1>7, <2>1, Zenon DEF ShellTypes
<1>9. ASSUME s8'.ep = s8.ep, s8'.n = s8.n, s8'.cold = s8.cold, s8'.whole = s8.whole, Protocol',
             s8' \in [ep : Nat, n : Nat, apply : BOOLEAN, returned : BOOLEAN, cold : BOOLEAN, whole : BOOLEAN],
             s7' \in [op : {"idle", "accept", "step", "spin", "reset", "discover"}, k : Nat]
      PROVE  ShellInv'
  <2>1. Cmds' = Cmds /\ Msgs' = Msgs /\ Ctls' = Ctls  BY <1>9 DEF Cmds, Msgs, Ctls, Eps
  <2>2. ShellTypes'  BY <1>1, <1>2, <1>6, <1>8, <1>9, <2>1, Zenon DEF ShellTypes
  <2>3. Connected'  BY <1>1, <1>2, <1>9 DEF Connected
  <2>4. Believed'  BY <1>1, <1>2, <2>1 DEF Believed
  <2> QED  BY <1>9, <2>2, <2>3, <2>4 DEF ShellInv
<1>10. ASSUME ShellB!Raise
       PROVE  /\ s7' \in [op : {"idle", "accept", "step", "spin", "reset", "discover"}, k : Nat] /\ s7'.op = "idle"
              /\ s8' \in [ep : Nat, n : Nat, apply : BOOLEAN, returned : BOOLEAN, cold : BOOLEAN, whole : BOOLEAN]
              /\ s8'.ep = s8.ep /\ s8'.n = s8.n /\ s8'.cold = s8.cold /\ s8'.whole = s8.whole /\ ~s8'.returned
  <2>1. s7' = [op |-> "idle", k |-> 0] /\ s8' = [s8 EXCEPT !.returned = FALSE]
      BY <1>10 DEF ShellB!Raise, ShellB!Idle
  <2> QED  BY <1>1, <2>1, Zenon DEF ShellTypes
<1>11. CASE /\ s5[s3[k]] # <<>> /\ s5' = [s5 EXCEPT ![s3[k]] = Tail(s5[s3[k]])] /\ s8' = s8
            /\ s7' = IF k = Len(s3) THEN [op |-> next, k |-> 0] ELSE [op |-> name, k |-> k + 1]
  <2>1. \/ \E i \in DOMAIN s3 : i > k /\ Deaf(s3[i])'
        \/ /\ Head(s5[s3[k]]) = Asked(op) /\ Done(s3[k], op)'
           /\ \A i \in DOMAIN s3 : i < k => Done(s3[i], op)'
           /\ \A i \in DOMAIN s3 : i > k => Owes(s3[i], op)'
      BY <1>2, <1>3, <1>4, <1>11, LineRead, Zenon
  <2>2. s8 \in [ep : Nat, n : Nat, apply : BOOLEAN, returned : BOOLEAN, cold : BOOLEAN, whole : BOOLEAN]
      BY <1>1 DEF ShellTypes
  <2>3. CASE k = Len(s3)
    <3>1. s7' = [op |-> next, k |-> 0]  BY <1>11, <2>3
    <3>2. s7' \in [op : {"idle", "accept", "step", "spin", "reset", "discover"}, k : Nat] /\ s7'.op = next
        BY <3>1
    <3>3. \A i \in DOMAIN s3 : ~(i > k)  BY <1>5, <2>3
    <3>4. ASSUME NEW i \in DOMAIN s3 PROVE Done(s3[i], op)'
      <4>1. i = k \/ i < k  BY <1>5, <2>3
      <4> QED  BY <2>1, <3>3, <4>1
    <3>5. \A i \in DOMAIN s3' : Done(s3[i], op)'  BY <1>2, <3>4
    <3>6. \A i \in DOMAIN s3' : Quiet(s3[i])'  BY <3>5 DEF Done
    <3>7. Protocol'  BY <1>3, <1>11, <3>2, <3>5, <3>6 DEF Protocol
    <3> QED  BY <1>9, <1>11, <2>2, <3>2, <3>7
  <2>4. CASE k # Len(s3)
    <3>1. k + 1 \in DOMAIN s3 /\ k + 1 \in Nat  BY <1>4, <1>5, <2>4
    <3>2. s7' = [op |-> name, k |-> k + 1]  BY <1>11, <2>4
    <3>3. s7' \in [op : {"idle", "accept", "step", "spin", "reset", "discover"}, k : Nat] /\ s7'.op = name /\ s7'.k = k + 1
        BY <3>1, <3>2
    <3>4. \A i \in DOMAIN s3 : (i > k <=> i >= k + 1) /\ (i < k + 1 <=> i < k \/ i = k)
        BY <1>5
    <3>5. Reading(op)'
      <4>1. s7'.k \in DOMAIN s3'  BY <1>2, <3>1, <3>3
      <4>2. CASE \E i \in DOMAIN s3 : i > k /\ Deaf(s3[i])'
        <5>1. \E i \in DOMAIN s3' : i >= s7'.k /\ Deaf(s3[i])'  BY <1>2, <3>3, <3>4, <4>2
        <5> QED  BY <4>1, <5>1 DEF Reading
      <4>3. CASE /\ Done(s3[k], op)' /\ \A i \in DOMAIN s3 : i < k => Done(s3[i], op)'
                 /\ \A i \in DOMAIN s3 : i > k => Owes(s3[i], op)'
        <5>1. ASSUME NEW i \in DOMAIN s3 PROVE i < k \/ i = k \/ i > k  BY <1>5
        <5>2. ASSUME NEW i \in DOMAIN s3, i < s7'.k PROVE Done(s3[i], op)'
            BY <3>3, <3>4, <4>3, <5>2
        <5>3. ASSUME NEW i \in DOMAIN s3, ~(i < s7'.k) PROVE Owes(s3[i], op)'
            BY <3>3, <3>4, <4>3, <5>1, <5>3
        <5>4. \A i \in DOMAIN s3' : IF i < s7'.k THEN Done(s3[i], op)' ELSE Owes(s3[i], op)'
            BY <1>2, <5>2, <5>3
        <5> QED  BY <4>1, <5>4 DEF Reading
      <4> QED  BY <2>1, <4>2, <4>3
    <3>6. Protocol'  BY <1>3, <1>11, <3>3, <3>5 DEF Protocol
    <3> QED  BY <1>9, <1>11, <2>2, <3>3, <3>6
  <2> QED  BY <2>3, <2>4
<1>12. CASE /\ s5[s3[k]] # <<>> /\ name = "reset" /\ Head(s5[s3[k]]).op # "RESET"
            /\ s5' = [s5 EXCEPT ![s3[k]] = Tail(s5[s3[k]])] /\ ShellB!Raise
  <2>1. op = "RESET" /\ Head(s5[s3[k]]) # Asked(op)  BY <1>12 DEF Asked
  <2>2. \E i \in DOMAIN s3 : i > k /\ Deaf(s3[i])'
      BY <1>2, <1>3, <1>4, <1>10, <1>12, <2>1, LineRead, Zenon
  <2>3. \E i \in DOMAIN s3' : Deaf(s3[i])'  BY <1>2, <2>2
  <2>4. Protocol'  BY <1>10, <1>12, <2>3 DEF Protocol
  <2> QED  BY <1>9, <1>10, <1>12, <2>4
<1>13. CASE s5[s3[k]] = <<>> /\ ~ShellB!Hears(s3[k]) /\ s5' = s5 /\ ShellB!Raise
  <2>1. Deaf(s3[k])'  BY <1>2, <1>13 DEF Deaf, ShellB!Hears
  <2>2. \E i \in DOMAIN s3' : Deaf(s3[i])'  BY <1>2, <1>4, <2>1
  <2>3. Protocol'  BY <1>10, <1>13, <2>2 DEF Protocol
  <2> QED  BY <1>9, <1>10, <1>13, <2>3
<1> QED  BY <1>7, <1>11, <1>12, <1>13

LEMMA ShellStep == ShellInv /\ ShellB!Next => ShellInv'
<1> SUFFICES ASSUME ShellInv, ShellB!Next PROVE ShellInv'
    OBVIOUS
<1>1. CASE ShellB!StepReads
  <2>1. ShellB!ReadLine("step", "spin")  BY <1>1 DEF ShellB!StepReads
  <2> QED  BY <2>1, ShellReads
<1>2. CASE ShellB!ResetReads
  <2>1. ShellB!ReadLine("reset", "discover")  BY <1>2 DEF ShellB!ResetReads
  <2> QED  BY <2>1, ShellReads
<1> QED
    BY <1>1, <1>2, ShellProcs, ShellServe, ShellAccept, ShellStepBegins, ShellStepEnds, ShellResetInPlace,
       ShellStartsOrCloses, ShellAccepted, ShellDiscovers
    DEF ShellB!Next

LEMMA ShellPromise == ShellInv => ShellB!InLockstep /\ ShellB!ColdEpisodeClean /\ ShellB!AvoidsByCourse
<1> SUFFICES ASSUME ShellInv PROVE ShellB!InLockstep /\ ShellB!ColdEpisodeClean /\ ShellB!AvoidsByCourse
    OBVIOUS
<1>1. ShellTypes /\ Connected /\ Believed /\ Protocol  BY DEF ShellInv
<1>2. ShellB!InLockstep
  <2> SUFFICES ASSUME s8.returned, s8.n > 0
               PROVE  /\ \A m \in ShellB!ToSet(s3) : s6[m] = [op |-> "STEP", ep |-> s8.ep, n |-> s8.n - 1]
                      /\ s8.whole => ShellB!ToSet(s3) = Modules
      BY DEF ShellB!InLockstep
  <2>1. \A i \in DOMAIN s3 : s6[s3[i]] = [op |-> "STEP", ep |-> s8.ep, n |-> s8.n - 1]
      BY <1>1 DEF Protocol
  <2>2. \A i \in DOMAIN s3 : s3[i] \in Modules  BY <1>1 DEF ShellTypes
  <2>3. s8.whole => \A m \in Modules : \E i \in DOMAIN s3 : s3[i] = m  BY <1>1 DEF Connected
  <2> QED  BY <2>1, <2>2, <2>3 DEF ShellB!ToSet
<1>3. ShellB!ColdEpisodeClean  BY <1>1 DEF Believed, Ctls, Eps, ShellB!ColdEpisodeClean
<1>4. ShellB!AvoidsByCourse
  <2>1. s10.law \in {"none", "course", "route"}  BY <1>1 DEF Believed, Ctls
  <2>2. s10.law # "turn radius" /\ s10.law # "amidships"  BY <2>1, Zenon
  <2> QED  BY <2>2, Zenon DEF ShellB!AvoidsByCourse
<1> QED  BY <1>2, <1>3, <1>4
-----------------------------------------------------------------------------
(* All machines: a behaviour is one of the machine that part names.          *)

MachinesInv ==
    /\ part = "gate" => GateInv
    /\ part = "console" => ConsoleInv
    /\ part = "store" => StoreInv
    /\ part = "export" => ExportInv
    /\ part = "session" => SessionInv
    /\ part = "writer" => WriterInv
    /\ part = "display" => DisplayInv
    /\ part = "mock" => MockInv
    /\ part = "ship" => ShipInv
    /\ part = "wind" => WindInv
    /\ part = "scoring" => ScorerInv
    /\ part = "pilot" => PilotInv
    /\ part = "shellb" => ShellInv

LEMMA MachinesInit == MachineInit => MachinesInv
BY GateInit, ConsoleInit, StoreInit, ExportInit, SessionInit, WriterInit, DisplayInit, MockInit, ShipInit, WindInit,
   ScorerInit, PilotInit, ShellInit
DEF MachineInit, MachinesInv

LEMMA MachinesStep ==
    ASSUME MachinesInv, MachineNext, part' = part
    PROVE  MachinesInv'
<1>1. /\ part = "gate" => Gate!Next
      /\ part = "console" => Console!Next
      /\ part = "store" => Store!Next
      /\ part = "export" => Export!Next
      /\ part = "session" => Session!Next
      /\ part = "writer" => Writer!Next
      /\ part = "display" => Display!Next
      /\ part = "mock" => Mock!Next
      /\ part = "ship" => Ship!Next
      /\ part = "wind" => Wind!Next
      /\ part = "scoring" => Scorer!Next
      /\ part = "pilot" => Pilot!Next
      /\ part = "shellb" => ShellB!Next
    BY DEF MachineNext
<1> QED
    BY <1>1, GateStep, ConsoleStep, StoreStep, ExportStep, SessionStep, WriterStep, DisplayStep, MockStep, ShipStep,
       WindStep, ScorerStep, PilotStep, ShellStep
    DEF MachinesInv

LEMMA MachinesStay ==
    ASSUME MachinesInv, UNCHANGED <<part, slots>>
    PROVE  MachinesInv'
<1> USE DEF slots
<1>1. GateInv => GateInv'
  <2>1. Gate!Copied(s4)' = Gate!Copied(s4)
      BY DEF Gate!Copied, Gate!Gates
  <2>2. s3' = s3 /\ s4' = s4 /\ s5' = s5 /\ s7' = s7 /\ s8' = s8
      OBVIOUS
  <2>3. Gate!EvidenceIsWhole => Gate!EvidenceIsWhole'
      BY <2>1, <2>2, Zenon DEF Gate!EvidenceIsWhole, Gate!Gates
  <2>4. GateType => GateType'
      BY Zenon DEF GateType, Gate!Gates
  <2>5. \A c \in Streams : GateFiles(c) => GateFiles(c)'
      BY DEF GateFiles
  <2> QED  BY <2>3, <2>4, <2>5 DEF GateInv
<1>2. ConsoleInv => ConsoleInv'
    BY DEF ConsoleInv, Console!EffectivePluginRoles, Console!GoMeansSingle, Console!PluginsUp
<1>3. StoreInv => StoreInv'
    BY DEF StoreInv
<1>4. ExportInv => ExportInv'
    BY DEF ExportInv
<1>5. SessionInv => SessionInv'
    BY DEF SessionInv, Session!OwnDirectory, Session!KeptWasValid
<1>6. WriterInv => WriterInv'
    BY Zenon DEF WriterInv, WriterTypes, WriterTiles, WriterDue
<1>7. DisplayInv => DisplayInv'
    BY DEF DisplayInv, Display!MrcHasCause
<1>8. MockInv => MockInv'
    BY DEF MockInv, Mock!ActiveFollows, Mock!RouteOfScenario, Mock!NewestMatching
<1>9. ShipInv => ShipInv'
    BY DEF ShipInv, ShipStepped, ShipPublished, Apart
<1>10. WindInv => WindInv'
    BY DEF WindInv, Wind!WindReplays
<1>11. ScorerInv => ScorerInv'
    BY DEF ScorerInv, HeldInv, FileTypes, FileTiles, Written
<1>12. PilotInv => PilotInv'
  <2>1. PilotTypes => PilotTypes'  BY DEF PilotTypes, Pilot!NoPlan, Pilot!None
  <2>2. Onsets /\ Releases => Onsets' /\ Releases'  BY DEF Onsets, Releases, Pilot!NoPlan, Pilot!None
  <2>3. Rudders => Rudders'  BY RuddersKeep
  <2>4. Pilot!AvoidingHasCourse => Pilot!AvoidingHasCourse'
      BY DEF Pilot!AvoidingHasCourse, Pilot!Within, Pilot!None
  <2> QED  BY <2>1, <2>2, <2>3, <2>4 DEF PilotInv
<1>13. ShellInv => ShellInv'
  <2>1. ShellTypes => ShellTypes'  BY Zenon DEF ShellTypes, Cmds, Eps
  <2>2. Connected => Connected'  BY DEF Connected
  <2>3. Believed => Believed'  BY Zenon DEF Believed, Msgs, Ctls, Eps
  <2>4. \A i \in DOMAIN s3 : Deaf(s3[i]) => Deaf(s3[i])'  BY DEF Deaf, ShellB!Hears
  <2>5. Protocol => Protocol'  BY <2>4, ProtocolKeeps
  <2> QED  BY <2>1, <2>2, <2>3, <2>5 DEF ShellInv
<1>14. part' = part  OBVIOUS
<1> QED
    BY <1>1, <1>2, <1>3, <1>4, <1>5, <1>6, <1>7, <1>8, <1>9, <1>10, <1>11, <1>12, <1>13, <1>14
    DEF MachinesInv

LEMMA MachinesPromise ==
    MachinesInv => GoIsEarned /\ EvidenceHolds /\ NodesReplayFaithfully /\ SteersByItsOwnRun
BY GatePromise, ConsolePromise, StorePromise, ExportPromise, SessionPromise, WriterPromise, DisplayPromise,
   MockPromise, ShipPromise, WindPromise, ScorerPromise, PilotPromise, ShellPromise
DEF MachinesInv, GoIsEarned, EvidenceHolds, NodesReplayFaithfully, SteersByItsOwnRun

-----------------------------------------------------------------------------
(* The run.                                                                 *)

LEMMA NoMachine == part \in Evaluators \cup {"coverage"} => MachinesInv
BY DEF Evaluators, MachinesInv

LEMMA WorkbenchInit == Init => MachinesInv
BY MachinesInit, NoMachine DEF Init, FirstInput

LEMMA WorkbenchStep == MachinesInv /\ [Next]_vars => MachinesInv'
<1> SUFFICES ASSUME MachinesInv, [Next]_vars PROVE MachinesInv'
    OBVIOUS
<1>1. CASE MachineNext /\ part' = part
    BY <1>1, MachinesStep
<1>2. CASE UNCHANGED <<part, slots>>
    BY <1>2, MachinesStay
<1>3. CASE part = "coverage" /\ part' = part
    BY <1>3 DEF MachinesInv
<1> QED  BY <1>1, <1>2, <1>3 DEF Next, Feed, vars

(* Every machine keeps the invariant its promise rests on: what a gate or an  *)
(* answer under way has seen, which directory a session holds, which records  *)
(* a thread is about to write, what a message was made from, and which        *)
(* command a client owes an answer to.                                       *)
THEOREM WorkbenchSafe == Spec => []MachinesInv
BY WorkbenchInit, WorkbenchStep, PTL DEF Spec

(* The permission to run is earned.  However many self-checks of a scenario   *)
(* take turns, crash, fail and are abandoned, none says GO over what it saw   *)
(* to forbid a run, and the evidence of one that no other ran beside or after  *)
(* is its own; however plugins are switched, started and lost, the runtime    *)
(* console runs no two of one role unless a start it gave up on is carried    *)
(* out later, and its probe says GO over none; and no request to the scenario  *)
(* store changes, removes or hides a file below a baseline folder.           *)
THEOREM WorkbenchGoIsEarned == Spec => []GoIsEarned
BY WorkbenchSafe, MachinesPromise, PTL

(* What a run leaves can be relied on.  A marzip export says PASS only over    *)
(* rows of which none was unsafe, whatever is recorded while it is built; two  *)
(* sessions of the evidence library never share a directory and a kept one    *)
(* held valid evidence; and the trace writer's flushes, by any number of      *)
(* threads, the timer and rotations, lose and double no record.               *)
THEOREM WorkbenchEvidenceHolds == Spec => []EvidenceHolds
BY WorkbenchSafe, MachinesPromise, PTL

(* The simulation nodes give every scenario its own run, over any sequence of  *)
(* lifecycle transitions, messages and clock jumps: the display's MRC, the     *)
(* mock L2's route (or the configured waypoints under its id, or none where    *)
(* routes are switched off), the ship's integrated time and cadence, the       *)
(* wind's draws and the scores and rows of the activation.                    *)
THEOREM WorkbenchNodesReplay == Spec => []NodesReplayFaithfully
BY WorkbenchSafe, MachinesPromise, PTL

(* The lock-step ships steer by what they were told in this run: the course    *)
(* of an avoidance lies in the band it began with and the rudder moves by its  *)
(* rate; and step() of shell B has returned only when every accepted client    *)
(* has executed exactly that step, for any number of processes, whichever of   *)
(* them exit, and whatever calls failed before.                              *)
THEOREM WorkbenchSteers == Spec => []SteersByItsOwnRun
BY WorkbenchSafe, MachinesPromise, PTL
=============================================================================
