---------------------------- MODULE MCMachinesProofs ----------------------------
(***************************************************************************)
(* The safety of the machines of MCMachines: for any set of plugins,         *)
(* scenarios, sessions, threads, plans and modules, any limits, rates and    *)
(* periods, and whatever the bounds on commands, records, ticks and runs.    *)
(*                                                                          *)
(* For each machine: the invariant its promise rests on, that it holds at    *)
(* first, that each of the machine's actions keeps it, and that it gives     *)
(* the promise.  Of the simulator of shell B, the last one, this module has   *)
(* the processes and the callbacks; the calls are in MCWorkbenchProofs,       *)
(* where the machines are put together.                                     *)
(***************************************************************************)
EXTENDS MCMachines, SequenceTheorems, FiniteSetTheorems, TLAPS

-----------------------------------------------------------------------------
(* A machine's Cardinality is the one the theorems of the library are about.  *)
LEMMA SameCardinality ==
    ASSUME NEW S
    PROVE  /\ Console!Cardinality(S) = Cardinality(S) /\ Session!Cardinality(S) = Cardinality(S)
           /\ ShellB!Cardinality(S) = Cardinality(S)
BY DEF Console!Cardinality, Session!Cardinality, ShellB!Cardinality, Cardinality

-----------------------------------------------------------------------------
(* The self-check.                                                          *)

(* Two self-checks that overlap know of each other.  Of one that has passed a *)
(* gate the file is its own, or that of another since; while there is no      *)
(* other, the files agree with what it has seen.  What forbids a run failed a *)
(* gate of it.                                                                *)
GateFiles(c) ==
    /\ \A g \in Gate!Gates : g < s1[c] => s4[g].of \in {c} \cup s7[c]
    /\ s7[c] = {} => (s2[c] <=> \A g \in Gate!Gates : g < s1[c] => s4[g].passed)

GateType ==
    /\ s1 \in [Streams -> 0..8] /\ s2 \in [Streams -> BOOLEAN] /\ s3 \in [Streams -> {"none", "GO", "NO-GO"}]
    /\ s4 \in [Gate!Gates -> [of : Streams \cup {NoStream}, passed : BOOLEAN]]
    /\ s6 \in [Streams -> BOOLEAN] /\ s7 \in [Streams -> SUBSET Streams]
    /\ s8 \in [Streams -> {"none", "GO", "NO-GO"}]

GateInv ==
    /\ GateType
    /\ \A c \in Streams :
        /\ s1[c] = 0 => s2[c] /\ ~s6[c]
        /\ s6[c] => ~s2[c]
        /\ s3[c] = "none" \/ (s1[c] = 8 /\ (s3[c] = "GO" <=> s2[c]))
        /\ s1[c] \in 1..7 => GateFiles(c)
        /\ \A d \in Streams : d # c /\ s1[c] # 0 /\ s1[d] \in 1..7 => d \in s7[c]
    /\ Gate!EvidenceIsWhole

LEMMA OneOffObserved ==
    ASSUME NEW o \in Gate!OneOff
    PROVE  o.ports \in BOOLEAN /\ o.asdr \in BOOLEAN
<1>1. Gate!Healthy.ports = TRUE /\ Gate!Healthy.asdr = TRUE
    BY DEF Gate!Healthy
<1>2. ASSUME NEW f \in DOMAIN Gate!Unlike, NEW v \in Gate!Unlike[f], o = [Gate!Healthy EXCEPT ![f] = v]
      PROVE  o.ports \in BOOLEAN /\ o.asdr \in BOOLEAN
  <2>1. CASE f \in {"ports", "asdr"}
    <3>1. Gate!Unlike.ports = {FALSE} /\ Gate!Unlike.asdr = {FALSE}  BY DEF Gate!Unlike
    <3>2. CASE f = "ports"
      <4>1. v = FALSE  BY <1>2, <3>1, <3>2, Zenon
      <4> QED  BY <1>1, <1>2, <3>2, <4>1, Zenon DEF Gate!Healthy
    <3>3. CASE f = "asdr"
      <4>1. v = FALSE  BY <1>2, <3>1, <3>3, Zenon
      <4> QED  BY <1>1, <1>2, <3>3, <4>1, Zenon DEF Gate!Healthy
    <3> QED  BY <2>1, <3>2, <3>3
  <2>2. CASE f \notin {"ports", "asdr"}
      BY <1>1, <1>2, <2>2, Zenon DEF Gate!Healthy
  <2> QED  BY <2>1, <2>2
<1> QED  BY <1>1, <1>2, Zenon DEF Gate!OneOff

(* What forbids a run fails the gate that sees it.                            *)
LEMMA DisqualifyingFails ==
    ASSUME NEW o \in Gate!OneOff, NEW g \in Gate!Gates
    PROVE  /\ Gate!Passes(g, o) \in BOOLEAN
           /\ Gate!Disqualifying(g, o) \in BOOLEAN
           /\ Gate!Disqualifying(g, o) => ~Gate!Passes(g, o)
<1>1. CASE g = 1
    BY <1>1, OneOffObserved
    DEF Gate!Passes, Gate!Disqualifying, Gate!Gate1SystemReadiness, Gate!CheckDockerServices,
        Gate!CheckRos2Discovery, Gate!CheckPorts
<1>2. CASE g = 2
    BY <1>2
    DEF Gate!Passes, Gate!Disqualifying, Gate!Gate2ModuleHealth, Gate!FetchModulePulses, Gate!VerifyM7Independent
<1>3. CASE g = 3
    BY <1>3 DEF Gate!Passes, Gate!Disqualifying, Gate!Gate3ScenarioIntegrity
<1>4. CASE g = 4
    BY <1>4 DEF Gate!Passes, Gate!Disqualifying, Gate!Gate4OddAlignment
<1>5. CASE g = 5
    BY <1>5, OneOffObserved
    DEF Gate!Passes, Gate!Disqualifying, Gate!Gate5TimeBase, Gate!CheckUtcPtp, Gate!CheckSimClock
<1>6. CASE g = 6
    BY <1>6
    DEF Gate!Passes, Gate!Disqualifying, Gate!Gate6DoerChecker, Gate!VerifyM7Sharing, Gate!VerifyCheckerVetoTopic
<1> QED  BY <1>1, <1>2, <1>3, <1>4, <1>5, <1>6 DEF Gate!Gates

LEMMA GateInit == Gate!Init => GateInv
BY DEF Gate!Init, GateInv, GateType, Gate!EvidenceIsWhole, Gate!NoFile, Gate!Gates

(* A gate done: only the stream's own gate and file change.                   *)
LEMMA GateDone ==
    ASSUME GateInv, NEW c \in Streams, NEW passed \in BOOLEAN, NEW bad \in BOOLEAN, bad => ~passed,
           s1[c] \in Gate!Gates, Gate!GateDone(c, passed, bad)
    PROVE  GateInv'
<1> USE DEF Gate!Gates
<1>1. /\ s1' = [s1 EXCEPT ![c] = s1[c] + 1] /\ s2' = [s2 EXCEPT ![c] = s2[c] /\ passed]
      /\ s4' = [s4 EXCEPT ![s1[c]] = [of |-> c, passed |-> passed]]
      /\ s6' = [s6 EXCEPT ![c] = s6[c] \/ bad]
      /\ s3' = s3 /\ s5' = s5 /\ s7' = s7 /\ s8' = s8
    BY DEF Gate!GateDone
<1>2. GateType /\ s1[c] \in 1..6
    BY DEF GateInv
<1>3. GateType'
  <2>1. s1' \in [Streams -> 0..8]  BY <1>1, <1>2 DEF GateType
  <2>2. s2' \in [Streams -> BOOLEAN] /\ s6' \in [Streams -> BOOLEAN]
      BY <1>1, <1>2, Zenon DEF GateType
  <2>3. s4' \in [Gate!Gates -> [of : Streams \cup {NoStream}, passed : BOOLEAN]]
      BY <1>1, <1>2 DEF GateType
  <2> QED  BY <1>1, <1>2, <2>1, <2>2, <2>3, Zenon DEF GateType
<1>4. ASSUME NEW d \in Streams
      PROVE  /\ s1'[d] = IF d = c THEN s1[c] + 1 ELSE s1[d]
             /\ s2'[d] <=> (IF d = c THEN s2[c] /\ passed ELSE s2[d])
             /\ s6'[d] <=> (IF d = c THEN s6[c] \/ bad ELSE s6[d])
    BY <1>1, <1>2, Zenon DEF GateType
<1>5. \A g \in Gate!Gates : s4'[g] = IF g = s1[c] THEN [of |-> c, passed |-> passed] ELSE s4[g]
    BY <1>1, <1>2, Zenon DEF GateType
<1>6. s1[c] \in 1..7 /\ s3[c] = "none"
    BY <1>2 DEF GateInv
<1>7. ASSUME NEW d \in Streams
      PROVE  /\ s1'[d] = 0 => s2'[d] /\ ~s6'[d]
             /\ s6'[d] => ~s2'[d]
             /\ s3'[d] = "none" \/ (s1'[d] = 8 /\ (s3'[d] = "GO" <=> s2'[d]))
             /\ \A e \in Streams : e # d /\ s1'[d] # 0 /\ s1'[e] \in 1..7 => e \in s7'[d]
  <2>1. /\ s1[d] = 0 => s2[d] /\ ~s6[d]
        /\ s6[d] => ~s2[d]
        /\ s3[d] = "none" \/ (s1[d] = 8 /\ (s3[d] = "GO" <=> s2[d]))
        /\ \A e \in Streams : e # d /\ s1[d] # 0 /\ s1[e] \in 1..7 => e \in s7[d]
      BY DEF GateInv
  <2>2. s1'[d] # 0 <=> s1[d] # 0
      BY <1>2, <1>4
  <2>3. ASSUME NEW e \in Streams, s1'[e] \in 1..7 PROVE s1[e] \in 1..7
      BY <1>2, <1>4, <2>3
  <2>4. s1'[d] = 0 => s2'[d] /\ ~s6'[d]
      BY <2>1, <2>2, <1>2, <1>4
  <2>5. s6'[d] => ~s2'[d]
      BY <2>1, <1>4
  <2>6. s3'[d] = "none" \/ (s1'[d] = 8 /\ (s3'[d] = "GO" <=> s2'[d]))
      BY <2>1, <1>1, <1>4, <1>6
  <2> QED  BY <1>1, <2>1, <2>2, <2>3, <2>4, <2>5, <2>6
<1>8. ASSUME NEW d \in Streams, d # c, s1[d] # 0 PROVE c \in s7[d]
    BY <1>6, <1>8 DEF GateInv
<1>9. ASSUME NEW d \in Streams, s1'[d] \in 1..7 PROVE GateFiles(d)'
  <2>1. CASE d # c
    <3>1. s1[d] \in 1..7 /\ s1'[d] = s1[d] /\ s7'[d] = s7[d] /\ c \in s7[d]
        BY <1>1, <1>4, <1>8, <1>9, <2>1
    <3>2. \A g \in Gate!Gates : g < s1[d] => s4[g].of \in {d} \cup s7[d]
        BY <3>1 DEF GateInv, GateFiles
    <3>3. \A g \in Gate!Gates : g < s1'[d] => s4'[g].of \in {d} \cup s7'[d]
        BY <3>1, <3>2, <1>5
    <3> QED  BY <3>1, <3>3 DEF GateFiles
  <2>2. CASE d = c
    <3>1. GateFiles(c)  BY <1>6 DEF GateInv
    <3>2. s1'[c] = s1[c] + 1 /\ s7'[c] = s7[c] /\ (s2'[c] <=> s2[c] /\ passed)
        BY <1>1, <1>4
    <3>3. \A g \in Gate!Gates : g < s1'[c] <=> g < s1[c] \/ g = s1[c]
        BY <3>2, <1>2
    <3>4. \A g \in Gate!Gates : g < s1'[c] => s4'[g].of \in {c} \cup s7'[c]
        BY <3>1, <3>2, <3>3, <1>5 DEF GateFiles
    <3>5. ASSUME s7[c] = {} PROVE s2'[c] <=> \A g \in Gate!Gates : g < s1'[c] => s4'[g].passed
      <4>1. s2[c] <=> \A g \in Gate!Gates : g < s1[c] => s4[g].passed
          BY <3>1, <3>5 DEF GateFiles
      <4>2. \A g \in Gate!Gates : g < s1[c] => s4'[g] = s4[g]
          BY <1>2, <1>5
      <4>3. s1[c] \in Gate!Gates /\ s4'[s1[c]].passed = passed
          BY <1>5
      <4> QED  BY <3>2, <3>3, <4>1, <4>2, <4>3
    <3> QED  BY <2>2, <3>2, <3>4, <3>5 DEF GateFiles
  <2> QED  BY <2>1, <2>2
<1>10. Gate!EvidenceIsWhole'
  <2> SUFFICES ASSUME NEW d \in Streams
               PROVE  /\ s3'[d] # "none" =>
                          /\ \A g \in Gate!Gates : s4'[g].of \in {d} \cup s7'[d]
                          /\ s7'[d] = {} => Gate!Copied(s4') = [of |-> {d}, passed |-> s3'[d] = "GO"]
                      /\ s8'[d] # "none" => s5' = [of |-> {d}, passed |-> s8'[d] = "GO"]
      BY Zenon DEF Gate!EvidenceIsWhole
  <2>1. /\ s3[d] # "none" => \A g \in Gate!Gates : s4[g].of \in {d} \cup s7[d]
        /\ s8[d] # "none" => s5 = [of |-> {d}, passed |-> s8[d] = "GO"]
      BY Zenon DEF GateInv, Gate!EvidenceIsWhole
  <2>2. s3[d] # "none" => d # c /\ s1[d] = 8
      BY <1>6 DEF GateInv
  <2>3. s3[d] # "none" => c \in s7[d]
      BY <2>2, <1>8
  <2> QED  BY <1>1, <1>5, <2>1, <2>3
<1> QED  BY <1>3, <1>7, <1>9, <1>10, Zenon DEF GateInv

LEMMA GateStarts ==
    ASSUME GateInv, NEW c \in Streams, Gate!StartStream(c)
    PROVE  GateInv'
<1> USE DEF Gate!Gates
<1>1. /\ s1[c] = 0 /\ s1' = [s1 EXCEPT ![c] = 1]
      /\ s2' = s2 /\ s3' = s3 /\ s4' = s4 /\ s5' = s5 /\ s6' = s6 /\ s8' = s8
      /\ s7' = [d \in Streams |-> CASE d = c -> Gate!UnderWay
                                    [] d # c /\ s1[d] # 0 -> s7[d] \cup {c}
                                    [] d # c /\ s1[d] = 0 -> s7[d]]
    BY DEF Gate!StartStream
<1>2. GateType  BY DEF GateInv
<1>3. Gate!UnderWay \in SUBSET Streams  BY DEF Gate!UnderWay
<1>4. ASSUME NEW d \in Streams
      PROVE  /\ s1'[d] = IF d = c THEN 1 ELSE s1[d]
             /\ d = c => s7'[d] = Gate!UnderWay
             /\ d # c /\ s1[d] # 0 => s7'[d] = s7[d] \cup {c}
             /\ d # c /\ s1[d] = 0 => s7'[d] = s7[d]
  <2>1. s1'[d] = IF d = c THEN 1 ELSE s1[d]
      BY <1>1, <1>2, Zenon DEF GateType
  <2>2. CASE d = c  BY <1>1, <2>1, <2>2
  <2>3. CASE d # c /\ s1[d] # 0  BY <1>1, <2>1, <2>3
  <2>4. CASE d # c /\ s1[d] = 0  BY <1>1, <2>1, <2>4
  <2> QED  BY <2>2, <2>3, <2>4
<1>5. GateType'
  <2>1. s1' \in [Streams -> 0..8]  BY <1>1, <1>2 DEF GateType
  <2>2. ASSUME NEW d \in Streams PROVE s7'[d] \in SUBSET Streams
    <3>1. s7[d] \in SUBSET Streams  BY <1>2, Zenon DEF GateType
    <3>2. s7[d] \cup {c} \in SUBSET Streams  BY <3>1
    <3> QED  BY <1>3, <1>4, <3>1, <3>2, Zenon
  <2>3. s7' \in [Streams -> SUBSET Streams]
      BY <1>1, <2>2
  <2> QED  BY <1>1, <1>2, <2>1, <2>3, Zenon DEF GateType
<1>6. ASSUME NEW d \in Streams
      PROVE  /\ s1'[d] = 0 => s2'[d] /\ ~s6'[d]
             /\ s6'[d] => ~s2'[d]
             /\ s3'[d] = "none" \/ (s1'[d] = 8 /\ (s3'[d] = "GO" <=> s2'[d]))
    BY <1>1, <1>4 DEF GateInv
<1>7. ASSUME NEW d \in Streams, NEW e \in Streams, e # d, s1'[d] # 0, s1'[e] \in 1..7 PROVE e \in s7'[d]
  <2>1. CASE d = c
      BY <1>4, <1>7, <2>1 DEF Gate!UnderWay
  <2>2. CASE d # c /\ e = c
    <3>1. s1[d] # 0  BY <1>4, <1>7, <2>2
    <3> QED  BY <1>4, <2>2, <3>1
  <2>3. CASE d # c /\ e # c
    <3>1. s1[d] # 0 /\ s1[e] \in 1..7  BY <1>4, <1>7, <2>3
    <3>2. e \in s7[d]  BY <1>7, <3>1 DEF GateInv
    <3> QED  BY <1>4, <2>3, <3>1, <3>2
  <2> QED  BY <2>1, <2>2, <2>3
<1>8. ASSUME NEW d \in Streams, s1'[d] \in 1..7 PROVE GateFiles(d)'
  <2>1. CASE d = c
    <3>1. s1'[c] = 1 /\ s2[c]  BY <1>1, <1>4 DEF GateInv
    <3> QED  BY <2>1, <3>1, <1>1 DEF GateFiles
  <2>2. CASE d # c
    <3>1. s1[d] \in 1..7 /\ s1'[d] = s1[d] /\ s7'[d] = s7[d] \cup {c}
      <4>1. s1'[d] = s1[d]  BY <1>4, <2>2
      <4>2. s1[d] # 0  BY <1>8, <4>1
      <4> QED  BY <1>4, <1>8, <2>2, <4>1, <4>2
    <3>2. GateFiles(d)  BY <3>1 DEF GateInv
    <3> QED  BY <3>1, <3>2, <1>1 DEF GateFiles
  <2> QED  BY <2>1, <2>2
<1>9. Gate!EvidenceIsWhole'
  <2> SUFFICES ASSUME NEW d \in Streams
               PROVE  /\ s3'[d] # "none" =>
                          /\ \A g \in Gate!Gates : s4'[g].of \in {d} \cup s7'[d]
                          /\ s7'[d] = {} => Gate!Copied(s4') = [of |-> {d}, passed |-> s3'[d] = "GO"]
                      /\ s8'[d] # "none" => s5' = [of |-> {d}, passed |-> s8'[d] = "GO"]
      BY Zenon DEF Gate!EvidenceIsWhole
  <2>1. /\ s3[d] # "none" => \A g \in Gate!Gates : s4[g].of \in {d} \cup s7[d]
        /\ s8[d] # "none" => s5 = [of |-> {d}, passed |-> s8[d] = "GO"]
      BY Zenon DEF GateInv, Gate!EvidenceIsWhole
  <2>2. s3[d] # "none" => d # c /\ s1[d] # 0
      BY <1>1 DEF GateInv
  <2>3. s3[d] # "none" => s7'[d] = s7[d] \cup {c}
      BY <2>2, <1>4
  <2> QED  BY <1>1, <2>1, <2>3
<1> QED  BY <1>5, <1>6, <1>7, <1>8, <1>9, Zenon DEF GateInv

LEMMA GateEnds ==
    ASSUME GateInv, NEW c \in Streams, Gate!Complete(c) \/ Gate!Disconnect(c)
    PROVE  GateInv'
<1> USE DEF Gate!Gates
<1> DEFINE go == IF s2[c] THEN "GO" ELSE "NO-GO"
<1>1. /\ s1[c] \in 1..7 /\ s1' = [s1 EXCEPT ![c] = 8]
      /\ s2' = s2 /\ s4' = s4 /\ s5' = s5 /\ s6' = s6 /\ s7' = s7 /\ s8' = s8
      /\ s3' = s3 \/ (s1[c] = 7 /\ s3' = [s3 EXCEPT ![c] = go])
    BY DEF Gate!Complete, Gate!Disconnect
<1>2. GateType /\ GateFiles(c) /\ s3[c] = "none"
    BY <1>1 DEF GateInv
<1>3. GateType'
  <2>1. s1' \in [Streams -> 0..8] /\ s3' \in [Streams -> {"none", "GO", "NO-GO"}]
      BY <1>1, <1>2 DEF GateType
  <2> QED  BY <1>1, <1>2, <2>1, Zenon DEF GateType
<1>4. ASSUME NEW d \in Streams
      PROVE  /\ s1'[d] = IF d = c THEN 8 ELSE s1[d]
             /\ d # c => s3'[d] = s3[d]
             /\ s3'[c] = "none" \/ (s1[c] = 7 /\ s3'[c] = go)
    BY <1>1, <1>2 DEF GateType
<1>5. ASSUME NEW d \in Streams
      PROVE  /\ s1'[d] = 0 => s2'[d] /\ ~s6'[d]
             /\ s6'[d] => ~s2'[d]
             /\ s3'[d] = "none" \/ (s1'[d] = 8 /\ (s3'[d] = "GO" <=> s2'[d]))
             /\ s1'[d] \in 1..7 => GateFiles(d)'
             /\ \A e \in Streams : e # d /\ s1'[d] # 0 /\ s1'[e] \in 1..7 => e \in s7'[d]
  <2>1. s1'[d] = 0 => s2'[d] /\ ~s6'[d]  BY <1>1, <1>4 DEF GateInv
  <2>2. s6'[d] => ~s2'[d]  BY <1>1 DEF GateInv
  <2>3. s3'[d] = "none" \/ (s1'[d] = 8 /\ (s3'[d] = "GO" <=> s2'[d]))
      BY <1>1, <1>4 DEF GateInv
  <2>4. s1'[d] \in 1..7 => GateFiles(d)'
      BY <1>1, <1>4 DEF GateInv, GateFiles
  <2>5. \A e \in Streams : e # d /\ s1'[d] # 0 /\ s1'[e] \in 1..7 => e \in s7'[d]
      BY <1>1, <1>4 DEF GateInv
  <2> QED  BY <2>1, <2>2, <2>3, <2>4, <2>5
<1>6. Gate!EvidenceIsWhole'
  <2> SUFFICES ASSUME NEW d \in Streams
               PROVE  /\ s3'[d] # "none" =>
                          /\ \A g \in Gate!Gates : s4'[g].of \in {d} \cup s7'[d]
                          /\ s7'[d] = {} => Gate!Copied(s4') = [of |-> {d}, passed |-> s3'[d] = "GO"]
                      /\ s8'[d] # "none" => s5' = [of |-> {d}, passed |-> s8'[d] = "GO"]
      BY Zenon DEF Gate!EvidenceIsWhole
  <2>1. /\ s3[d] # "none" =>
            /\ \A g \in Gate!Gates : s4[g].of \in {d} \cup s7[d]
            /\ s7[d] = {} => Gate!Copied(s4) = [of |-> {d}, passed |-> s3[d] = "GO"]
        /\ s8[d] # "none" => s5 = [of |-> {d}, passed |-> s8[d] = "GO"]
      BY Zenon DEF GateInv, Gate!EvidenceIsWhole
  <2>2. CASE d # c \/ s3'[d] = "none"
      BY <1>1, <1>4, <2>1, <2>2, Zenon
  <2>3. CASE d = c /\ s3'[c] # "none"
    <3>1. s1[c] = 7 /\ s3'[c] = go  BY <1>4, <2>3
    <3>2. \A g \in Gate!Gates : s4[g].of \in {c} \cup s7[c]
        BY <1>2, <3>1 DEF GateFiles
    <3>3. ASSUME s7[c] = {} PROVE Gate!Copied(s4) = [of |-> {c}, passed |-> go = "GO"]
      <4>1. s2[c] <=> \A g \in Gate!Gates : s4[g].passed
          BY <1>2, <3>1, <3>3 DEF GateFiles
      <4>2. {s4[g].of : g \in Gate!Gates} = {c}
          BY <3>2, <3>3
      <4>3. (\A g \in Gate!Gates : s4[g].passed) = (go = "GO")
          BY <4>1
      <4> QED  BY <4>2, <4>3, Zenon DEF Gate!Copied
    <3> QED  BY <1>1, <2>1, <2>3, <3>1, <3>2, <3>3
  <2> QED  BY <2>2, <2>3
<1> QED  BY <1>3, <1>5, <1>6, Zenon DEF GateInv

LEMMA GateCopies ==
    ASSUME GateInv, Gate!CopyPreflightEvidence
    PROVE  GateInv'
<1>1. /\ s1' = s1 /\ s2' = s2 /\ s3' = s3 /\ s4' = s4 /\ s6' = s6 /\ s7' = s7
      /\ s5' = Gate!Copied(s4) /\ s8' = [c \in Streams |-> IF s7[c] = {} THEN s3[c] ELSE "none"]
    BY DEF Gate!CopyPreflightEvidence
<1>2. GateType'
  <2>1. s8' \in [Streams -> {"none", "GO", "NO-GO"}]
      BY <1>1 DEF GateInv, GateType
  <2> QED  BY <1>1, <2>1, Zenon DEF GateInv, GateType
<1>3. Gate!EvidenceIsWhole'
    BY <1>1, Zenon DEF GateInv, Gate!EvidenceIsWhole
<1> QED  BY <1>1, <1>2, <1>3 DEF GateInv, GateFiles

LEMMA GateStep == GateInv /\ Gate!Next => GateInv'
<1> SUFFICES ASSUME GateInv, Gate!Next PROVE GateInv'
    OBVIOUS
<1>1. CASE Gate!CopyPreflightEvidence
    BY <1>1, GateCopies
<1>2. ASSUME NEW c \in Streams, Gate!StartStream(c) PROVE GateInv'
    BY <1>2, GateStarts
<1>3. ASSUME NEW c \in Streams, Gate!GateCrashes(c) PROVE GateInv'
    BY <1>3, GateDone, Zenon DEF Gate!GateCrashes
<1>4. ASSUME NEW c \in Streams, Gate!Complete(c) \/ Gate!Disconnect(c) PROVE GateInv'
    BY <1>4, GateEnds
<1>5. ASSUME NEW c \in Streams, NEW o \in Gate!OneOff, Gate!RunGate(c, o) PROVE GateInv'
  <2>1. s1[c] \in Gate!Gates /\ Gate!GateDone(c, Gate!Passes(s1[c], o), Gate!Disqualifying(s1[c], o))
      BY <1>5 DEF Gate!RunGate
  <2> QED  BY <2>1, GateDone, DisqualifyingFails
<1> QED  BY <1>1, <1>2, <1>3, <1>4, <1>5 DEF Gate!Next

LEMMA GatePromise == GateInv => Gate!GoMeansFit /\ Gate!EvidenceIsWhole
BY DEF GateInv, Gate!GoMeansFit
-----------------------------------------------------------------------------
(* The runtime console.                                                     *)

(* While no command was given up on, what runs of a role is what the console  *)
(* expects there, or nothing; and a GO was given over such a state.           *)
ConsoleInv ==
    /\ s3 \in [Roles -> Plugins \cup {"none"}]
    /\ \A r \in Roles : s3[r] # "none" => RoleOf[s3[r]] = r
    /\ s4 \in BOOLEAN
    /\ ~s4 => s2 = {} /\ \A p \in Plugins \cap s1 : p = Console!EffectivePluginRoles(RoleOf[p])
    /\ Console!GoMeansSingle

(* What the console expects in a role is a plugin of the role, or nothing.    *)
LEMMA ConsoleInit == Console!Init => ConsoleInv
<1> SUFFICES ASSUME Console!Init PROVE ConsoleInv
    OBVIOUS
<1> USE ConsoleAssumption
<1>1. /\ s3 = [r \in Roles |-> "none"] /\ s4 = FALSE /\ s2 = {} /\ s5.answer = "none"
      /\ s1 = Core \cup {ProfileRoles[r] : r \in DOMAIN ProfileRoles}
      /\ \A r \in DOMAIN ProfileRoles : r \in Roles /\ RoleOf[ProfileRoles[r]] = r
    BY DEF Console!Init, Console!ParsePluginRoles
<1>2. ASSUME NEW p \in Plugins \cap s1 PROVE p = Console!EffectivePluginRoles(RoleOf[p])
  <2>1. PICK r \in DOMAIN ProfileRoles : p = ProfileRoles[r]  BY <1>1, <1>2
  <2> QED  BY <1>1, <2>1 DEF Console!EffectivePluginRoles
<1>3. s3 \in [Roles -> Plugins \cup {"none"}] /\ \A r \in Roles : s3[r] = "none"  BY <1>1
<1> QED  BY <1>1, <1>2, <1>3, Zenon DEF ConsoleInv, Console!GoMeansSingle

(* At most one plugin of a role runs when each that runs is the expected one. *)
LEMMA ConsoleSingle ==
    ASSUME NEW r, NEW up, NEW x, \A p \in Console!PluginsUp(r, up) : p = x
    PROVE  Cardinality(Console!PluginsUp(r, up)) <= 1
<1> DEFINE S == Console!PluginsUp(r, up)
<1>1. S = {} \/ S = {x}  OBVIOUS
<1>2. Cardinality(S) = 0 \/ Cardinality(S) = 1
  <2> HIDE DEF S
  <2>1. Cardinality({}) = 0 /\ Cardinality({x}) = 1  BY FS_EmptySet, FS_Singleton, Zenon
  <2> QED  BY <1>1, <2>1
<1> QED  BY <1>2

(* A switch stops the expected plugin; what is left of the role is the one    *)
(* that is started, if it is started.                                         *)
LEMMA ConsoleSwitch ==
    ASSUME ConsoleInv, NEW r \in Roles, NEW p \in Plugins, RoleOf[p] = r, UNCHANGED <<s4, s5>>,
           LET old == Console!EffectivePluginRoles(r)
               down == IF old = "none" THEN s1 ELSE s1 \ {old} IN
           \/ s1' = down \cup {p} /\ s3' = [s3 EXCEPT ![r] = p] /\ s2' = s2
           \/ s1' = down /\ s3' = s3 /\ s2' = s2
    PROVE  ConsoleInv'
<1> DEFINE old == Console!EffectivePluginRoles(r)
           down == IF old = "none" THEN s1 ELSE s1 \ {old}
<1> USE ConsoleAssumption
<1>1. s3' \in [Roles -> Plugins \cup {"none"}] /\ \A q \in Roles : s3'[q] # "none" => RoleOf[s3'[q]] = q
    BY DEF ConsoleInv
<1>2. ASSUME ~s4, NEW q \in Plugins, q \in down PROVE q = Console!EffectivePluginRoles(RoleOf[q]) /\ RoleOf[q] # r
    BY <1>2 DEF ConsoleInv
<1>3. ASSUME ~s4, NEW q \in Plugins \cap s1' PROVE q = Console!EffectivePluginRoles(RoleOf[q])'
  <2>1. CASE s1' = down \cup {p} /\ s3' = [s3 EXCEPT ![r] = p]
    <3>1. CASE q = p
        BY <2>1, <3>1 DEF ConsoleInv, Console!EffectivePluginRoles
    <3>2. CASE q # p
      <4>1. q = Console!EffectivePluginRoles(RoleOf[q]) /\ RoleOf[q] # r  BY <1>2, <1>3, <2>1, <3>2
      <4> QED  BY <2>1, <4>1 DEF ConsoleInv, Console!EffectivePluginRoles
    <3> QED  BY <3>1, <3>2
  <2>2. CASE s1' = down /\ s3' = s3
      BY <1>2, <1>3, <2>2 DEF Console!EffectivePluginRoles
  <2> QED  BY <2>1, <2>2
<1>4. ~s4 => s2' = {}
    BY DEF ConsoleInv
<1>5. Console!GoMeansSingle'
    BY DEF ConsoleInv, Console!GoMeansSingle, Console!PluginsUp
<1>6. s4' = s4 /\ s4 \in BOOLEAN
    BY DEF ConsoleInv
<1>7. ~s4' => s2' = {} /\ \A q \in Plugins \cap s1' : q = Console!EffectivePluginRoles(RoleOf[q])'
    BY <1>3, <1>4, <1>6
<1> QED  BY <1>1, <1>5, <1>6, <1>7, Zenon DEF ConsoleInv

(* Other commands and deaths change what runs among the plugins only by       *)
(* stopping one.                                                              *)
LEMMA ConsoleStops ==
    ASSUME ConsoleInv, s1' \cap Plugins \subseteq s1, UNCHANGED <<s2, s3, s4, s5>>
    PROVE  ConsoleInv'
BY DEF ConsoleInv, Console!GoMeansSingle, Console!EffectivePluginRoles, Console!PluginsUp

LEMMA ConsoleStep == ConsoleInv /\ Console!Next => ConsoleInv'
<1> SUFFICES ASSUME ConsoleInv, Console!Next PROVE ConsoleInv'
    OBVIOUS
<1>1. ASSUME NEW r \in Roles, NEW p \in Plugins,
             Console!SwitchPlugin(r, p) \/ Console!SwitchStartFails(r, p)
      PROVE  ConsoleInv'
  <2>1. RoleOf[p] = r /\ UNCHANGED <<s2, s4, s5>>
      BY <1>1 DEF Console!SwitchPlugin, Console!SwitchStartFails
  <2> QED  BY <1>1, <2>1, ConsoleSwitch
           DEF Console!SwitchPlugin, Console!SwitchStartFails, Console!Started, Console!Stopped
<1>2. ASSUME NEW r \in Roles, NEW p \in Plugins, Console!SwitchStartTimesOut(r, p) PROVE ConsoleInv'
  <2>1. s4' = TRUE /\ UNCHANGED <<s3, s5>>
      BY <1>2 DEF Console!SwitchStartTimesOut
  <2> QED  BY <2>1 DEF ConsoleInv, Console!GoMeansSingle, Console!PluginsUp
<1>3. CASE Console!LateStart
  <2>1. s2 # {} /\ UNCHANGED <<s3, s4, s5>>
      BY <1>3 DEF Console!LateStart
  <2> QED  BY <2>1 DEF ConsoleInv, Console!GoMeansSingle, Console!PluginsUp
<1>4. CASE Console!StartCoreStack \/ Console!StopCoreStack \/ Console!StopCoreHalfway \/ Console!ServiceDies
  <2>1. s1' \cap Plugins \subseteq s1 /\ UNCHANGED <<s2, s3, s4, s5>>
      BY <1>4, ConsoleAssumption
      DEF Console!StartCoreStack, Console!StopCoreStack, Console!StopCoreHalfway, Console!ServiceDies
  <2> QED  BY <2>1, ConsoleStops
<1>5. CASE Console!Probe
  <2>1. /\ s5' = [answer |-> IF Console!Gates(s1) THEN "GO" ELSE "NO-GO", saw |-> s1]
        /\ UNCHANGED <<s1, s2, s3, s4>>
      BY <1>5 DEF Console!Probe
  <2>2. ASSUME Console!Gates(s1), NEW r \in Roles
        PROVE  Cardinality(Console!PluginsUp(r, s1)) <= 1
    <3>1. \A p \in Console!PluginsUp(r, s1) : p = Console!EffectivePluginRoles(r)
        BY <2>2 DEF Console!Gates, Console!PluginsUp
    <3> QED  BY <3>1, ConsoleSingle, SameCardinality
  <2>3. Console!GoMeansSingle'
    <3>1. s5'.saw = s1 /\ (s5'.answer = "GO" => Console!Gates(s1))  BY <2>1
    <3>2. s5'.answer = "GO" => \A r \in Roles : Cardinality(Console!PluginsUp(r, s5'.saw)) <= 1
        BY <2>2, <3>1
    <3> QED  BY <3>2, SameCardinality DEF Console!GoMeansSingle
  <2> QED  BY <2>1, <2>3 DEF ConsoleInv, Console!EffectivePluginRoles
<1> QED  BY <1>1, <1>2, <1>3, <1>4, <1>5 DEF Console!Next

LEMMA ConsolePromise == ConsoleInv => Console!OnePluginPerRole /\ Console!GoMeansSingle
<1>1. ASSUME ConsoleInv, ~s4, NEW r \in Roles PROVE Cardinality(Console!PluginsUp(r, s1)) <= 1
  <2>1. \A p \in Console!PluginsUp(r, s1) : p = Console!EffectivePluginRoles(r)
      BY <1>1 DEF ConsoleInv, Console!PluginsUp
  <2> QED  BY <2>1, ConsoleSingle
<1>2. ConsoleInv => Console!OnePluginPerRole
    BY <1>1, SameCardinality DEF Console!OnePluginPerRole
<1> QED  BY <1>2 DEF ConsoleInv

-----------------------------------------------------------------------------
(* The scenario store.                                                      *)

(* What is below a baseline folder is still there, and no two files have one  *)
(* name, so that each is found by it.                                         *)
StoreInv ==
    /\ \A f \in s1 : DOMAIN f = {"dir", "id", "text"}
    /\ \A f, g \in s1 : f.id = g.id => f = g
    /\ \A f \in InitFiles : Store!FolderFor(f) \in Baseline => f \in s1

LEMMA StoreInit == Store!Init => StoreInv
BY StoreAssumption DEF Store!Init, StoreInv, Store!File

(* With unique names what a name finds is the file of that name.              *)
LEMMA StoreFinds ==
    ASSUME StoreInv, NEW id
    PROVE  Store!PathFor(s1, id) = {f \in s1 : f.id = id}
<1> DEFINE named == {f \in s1 : f.id = id}
<1>1. \A f, g \in named : f = g  BY DEF StoreInv
<1>2. CASE named = {}
    BY <1>2 DEF Store!PathFor
<1>3. ASSUME NEW f \in named PROVE Store!PathFor(s1, id) = named
  <2>1. named = {f}  BY <1>1, <1>3
  <2>2. (CHOOSE g \in named : TRUE) = f  BY <2>1
  <2> QED  BY <2>1, <2>2 DEF Store!PathFor
<1> QED  BY <1>2, <1>3

LEMMA StoreStep == StoreInv /\ Store!Next => StoreInv'
<1> SUFFICES ASSUME StoreInv, Store!Next PROVE StoreInv'
    OBVIOUS
<1>1. ASSUME NEW text \in Contents, Store!CreateScenario(text) PROVE StoreInv'
  <2>1. PICK id \in StoreIds : (\A f \in s1 : f.id # id) /\ s1' = s1 \cup {Store!File(<<>>, id, text)}
      BY <1>1 DEF Store!CreateScenario
  <2>2. DOMAIN Store!File(<<>>, id, text) = {"dir", "id", "text"} /\ Store!File(<<>>, id, text).id = id
      BY DEF Store!File
  <2> QED  BY <2>1, <2>2 DEF StoreInv
<1>2. ASSUME NEW text \in Contents, NEW id \in StoreIds, Store!UpdateScenario(id, text) PROVE StoreInv'
  <2> DEFINE found == Store!PathFor(s1, id)
  <2>1. found = {f \in s1 : f.id = id}  BY StoreFinds
  <2>2. CASE s1' = s1
      BY <2>2 DEF StoreInv
  <2>3. CASE ~Store!IsBaseline(s1, id) /\ s1' = (s1 \ found) \cup {[f EXCEPT !.text = text] : f \in found}
    <3>1. \A f \in found : Store!FolderFor(f) \notin Baseline  BY <2>3 DEF Store!IsBaseline
    <3>2. \A f \in found : LET g == [f EXCEPT !.text = text] IN
                           DOMAIN g = {"dir", "id", "text"} /\ g.id = id
        BY <2>1 DEF StoreInv
    <3>3. \A f, g \in found : f = g  BY <2>1 DEF StoreInv
    <3>4. \A f \in s1' : \/ f \in s1 /\ f.id # id
                         \/ \E g \in found : f = [g EXCEPT !.text = text]
        BY <2>1, <2>3
    <3>5. \A f \in s1' : DOMAIN f = {"dir", "id", "text"}
        BY <3>2, <3>4 DEF StoreInv
    <3>6. \A f, g \in s1' : f.id = g.id => f = g
        BY <3>2, <3>3, <3>4 DEF StoreInv
    <3>7. \A f \in InitFiles : Store!FolderFor(f) \in Baseline => f \in s1'
        BY <2>1, <2>3, <3>1 DEF StoreInv
    <3> QED  BY <3>5, <3>6, <3>7 DEF StoreInv
  <2> QED  BY <1>2, <2>2, <2>3 DEF Store!UpdateScenario
<1>3. ASSUME NEW id \in StoreIds, Store!DeleteScenario(id) PROVE StoreInv'
  <2>1. \/ s1' = s1
        \/ ~Store!IsBaseline(s1, id) /\ s1' = s1 \ Store!PathFor(s1, id)
      BY <1>3 DEF Store!DeleteScenario
  <2> QED  BY <2>1 DEF StoreInv, Store!IsBaseline
<1> QED  BY <1>1, <1>2, <1>3 DEF Store!Next

LEMMA StorePromise == StoreInv => Store!BaselinesUntouched
BY StoreFinds DEF StoreInv, Store!BaselinesUntouched
-----------------------------------------------------------------------------
(* The export.                                                              *)

(* A pack that says PASS is of a task that is done and passed its rows.       *)
ExportInv ==
    /\ s1 \in Seq(BagRows)
    /\ s4 \in [Tasks -> {"none", "queued", "scored", "done", "failed"}]
    /\ s5 \in [Tasks -> Seq(BagRows)]
    /\ s6 = "PASS" => \E t \in Tasks : s4[t] = "done" /\ Export!BuildVerdict(s5[t]) = "PASS"

LEMMA ExportInit == Export!Init => ExportInv
<1> SUFFICES ASSUME Export!Init PROVE ExportInv
    OBVIOUS
<1>1. s1 \in Seq(BagRows)
  <2>1. PICK n \in 0..MaxBag : s1 \in [1..n -> BagRows]  BY DEF Export!Init
  <2> QED  BY <2>1
<1> QED  BY <1>1 DEF Export!Init, ExportInv

(* A task that is not done is not the one the archive is of.                  *)
LEMMA ExportKeeps ==
    ASSUME ExportInv, NEW t \in Tasks, s4[t] # "done", s6' = s6, s1' = s1,
           s4' \in [Tasks -> {"none", "queued", "scored", "done", "failed"}],
           s5' \in [Tasks -> Seq(BagRows)],
           \A u \in Tasks \ {t} : s4'[u] = s4[u] /\ s5'[u] = s5[u]
    PROVE  ExportInv'
<1>1. s6' = "PASS" => \E u \in Tasks : s4'[u] = "done" /\ Export!BuildVerdict(s5'[u]) = "PASS"
  <2>1. ASSUME s6 = "PASS" PROVE \E u \in Tasks : s4'[u] = "done" /\ Export!BuildVerdict(s5'[u]) = "PASS"
    <3>1. PICK u \in Tasks : s4[u] = "done" /\ Export!BuildVerdict(s5[u]) = "PASS"
        BY <2>1 DEF ExportInv
    <3> QED  BY <3>1
  <2> QED  BY <2>1
<1> QED  BY <1>1 DEF ExportInv

LEMMA ExportStep == ExportInv /\ Export!Next => ExportInv'
<1> SUFFICES ASSUME ExportInv, Export!Next PROVE ExportInv'
    OBVIOUS
<1>1. CASE Export!Recorded
  <2>1. PICK r \in BagRows : s1' = Append(s1, r)  BY <1>1 DEF Export!Recorded
  <2>2. UNCHANGED <<s4, s5, s6>>  BY <1>1 DEF Export!Recorded
  <2>3. s1' \in Seq(BagRows)  BY <2>1 DEF ExportInv
  <2> QED  BY <2>2, <2>3 DEF ExportInv
<1>2. ASSUME NEW t \in Tasks, Export!ExportMarzip(t) PROVE ExportInv'
  <2>1. s4[t] = "none" /\ s4' = [s4 EXCEPT ![t] = "queued"] /\ UNCHANGED <<s1, s5, s6>>
      BY <1>2 DEF Export!ExportMarzip
  <2> QED  BY <2>1, ExportKeeps DEF ExportInv
<1>3. ASSUME NEW t \in Tasks, Export!Assemble(t) PROVE ExportInv'
  <2>1. /\ s4[t] = "queued" /\ s4' = [s4 EXCEPT ![t] = "scored"] /\ UNCHANGED <<s1, s6>>
        /\ \E rows \in {s1, <<>>} : s5' = [s5 EXCEPT ![t] = rows]
      BY <1>3, Zenon DEF Export!Assemble, Export!McapToPolars
  <2>2. PICK rows \in Seq(BagRows) : s5' = [s5 EXCEPT ![t] = rows]
    <3>1. s1 \in Seq(BagRows) /\ <<>> \in Seq(BagRows)  BY DEF ExportInv
    <3> QED  BY <2>1, <3>1, Zenon
  <2>3. s5' \in [Tasks -> Seq(BagRows)] /\ s4' \in [Tasks -> {"none", "queued", "scored", "done", "failed"}]
      BY <2>1, <2>2 DEF ExportInv
  <2>4. \A u \in Tasks \ {t} : s4'[u] = s4[u] /\ s5'[u] = s5[u]
      BY <2>1, <2>2 DEF ExportInv
  <2> QED  BY <2>1, <2>3, <2>4, ExportKeeps
<1>4. ASSUME NEW t \in Tasks, Export!MakeArchive(t) PROVE ExportInv'
  <2>1. /\ s6' = Export!BuildVerdict(s5[t]) /\ s4' = [s4 EXCEPT ![t] = "done"]
        /\ UNCHANGED <<s1, s5>>
      BY <1>4 DEF Export!MakeArchive
  <2>2. s4' \in [Tasks -> {"none", "queued", "scored", "done", "failed"}] /\ s4'[t] = "done"
      BY <2>1 DEF ExportInv
  <2>3. s6' = "PASS" => \E u \in Tasks : s4'[u] = "done" /\ Export!BuildVerdict(s5'[u]) = "PASS"
      BY <2>1, <2>2, Zenon
  <2> QED  BY <2>1, <2>2, <2>3 DEF ExportInv
<1>5. ASSUME NEW t \in Tasks, Export!AssembleFails(t) PROVE ExportInv'
  <2>1. s4[t] \in {"queued", "scored"} /\ s4' = [s4 EXCEPT ![t] = "failed"] /\ UNCHANGED <<s1, s5, s6>>
      BY <1>5 DEF Export!AssembleFails
  <2> QED  BY <2>1, ExportKeeps DEF ExportInv
<1> QED  BY <1>1, <1>2, <1>3, <1>4, <1>5 DEF Export!Next

(* A verdict of PASS is of rows, none of them unsafe.                         *)
LEMMA ExportPromise == ExportInv => Export!PassMeansSafe
<1> SUFFICES ASSUME ExportInv, s6 = "PASS"
             PROVE  \E t \in Tasks : /\ s4[t] = "done" /\ s5[t] # <<>>
                                     /\ \A i \in DOMAIN s5[t] : s5[t][i].safety >= 80
    BY DEF Export!PassMeansSafe, Export!THRESHOLD_SAFETY_MIN
<1>1. PICK t \in Tasks : s4[t] = "done" /\ Export!BuildVerdict(s5[t]) = "PASS"
    BY DEF ExportInv
<1>2. s5[t] # <<>> /\ ~Export!SafetyMinBelow(s5[t], 80)
    BY <1>1 DEF Export!BuildVerdict, Export!THRESHOLD_SAFETY_MIN
<1>3. s5[t] \in Seq(BagRows)
    BY DEF ExportInv
<1>4. ASSUME NEW i \in DOMAIN s5[t] PROVE s5[t][i].safety >= 80
  <2>1. s5[t][i] \in BagRows  BY <1>3
  <2>2. s5[t][i].safety \in Int  BY <2>1, EvidenceAssumption
  <2>3. ~(s5[t][i].safety < 80)  BY <1>2 DEF Export!SafetyMinBelow
  <2> QED  BY <2>2, <2>3
<1> QED  BY <1>1, <1>2, <1>4

-----------------------------------------------------------------------------
(* The evidence sessions.                                                   *)

SuffixNumbers == 0..MaxSuffix

(* Who has a session has a directory of his own that is there, and what is    *)
(* kept in it has been valid.                                                 *)
SessionInv ==
    /\ s1 \in [SuffixNumbers -> {"free", "pending", "kept", "discarded"}]
    /\ s2 \in [SuffixNumbers -> [SessionScenarios -> {"absent", "valid", "invalid"}]]
    /\ s3 \in [Owners -> SuffixNumbers \cup {Session!None}]
    /\ s4 \in [Owners -> SuffixNumbers \cup {Session!None}]
    /\ s5 \in [SuffixNumbers -> BOOLEAN]
    /\ \A o \in Owners : s4[o] # Session!None => s1[s4[o]] \in {"pending", "kept"}
    /\ Session!OwnDirectory
    /\ \A d \in SuffixNumbers, sc \in SessionScenarios : s2[d][sc] = "valid" => s5[d]
    /\ Session!KeptWasValid

(* None is no directory.                                                     *)
LEMMA SessionNone == Session!None \notin SuffixNumbers
<1>1. Cardinality(0..MaxSuffix) = MaxSuffix + 1
    BY EvidenceAssumption, FS_Interval
<1>2. Session!None = MaxSuffix + 2
    BY <1>1, SameCardinality, EvidenceAssumption DEF Session!None
<1> QED  BY <1>2, EvidenceAssumption DEF SuffixNumbers

LEMMA SessionInit == Session!Init => SessionInv
BY DEF Session!Init, SessionInv, SuffixNumbers, Session!OwnDirectory, Session!KeptWasValid

(* A directory is made where none is, so nobody has it.                       *)
LEMMA SessionMade ==
    ASSUME SessionInv, NEW o \in Owners, NEW d \in SuffixNumbers, ~Session!Exists(d), Session!Made(o, d)
    PROVE  SessionInv'
<1> USE SessionNone
<1>1. /\ s1' = [s1 EXCEPT ![d] = "pending"]
      /\ s2' = [s2 EXCEPT ![d] = [sc \in SessionScenarios |-> "absent"]]
      /\ s5' = [s5 EXCEPT ![d] = FALSE]
      /\ s4' = [s4 EXCEPT ![o] = d] /\ s3' = [s3 EXCEPT ![o] = Session!None]
    BY DEF Session!Made
<1>2. /\ s1' \in [SuffixNumbers -> {"free", "pending", "kept", "discarded"}]
      /\ s3' \in [Owners -> SuffixNumbers \cup {Session!None}]
      /\ s4' \in [Owners -> SuffixNumbers \cup {Session!None}]
    BY <1>1 DEF SessionInv
<1>3. s2' \in [SuffixNumbers -> [SessionScenarios -> {"absent", "valid", "invalid"}]] /\ s5' \in [SuffixNumbers -> BOOLEAN]
    BY <1>1 DEF SessionInv
<1>4. \A p \in Owners : s4[p] # d
    BY DEF SessionInv, Session!Exists
<1>5. \A p \in Owners : s4'[p] # Session!None => s1'[s4'[p]] \in {"pending", "kept"}
    BY <1>1 DEF SessionInv
<1>6. Session!OwnDirectory'
    BY <1>1, <1>4 DEF SessionInv, Session!OwnDirectory
<1>7. \A c \in SuffixNumbers, sc \in SessionScenarios : s2'[c][sc] = "valid" => s5'[c]
  <2> TAKE c \in SuffixNumbers, sc \in SessionScenarios
  <2>1. CASE c = d
    <3>1. s2'[c][sc] = "absent"  BY <1>1, <2>1 DEF SessionInv
    <3> QED  BY <3>1
  <2>2. CASE c # d
    <3>1. s2'[c] = s2[c] /\ s5'[c] = s5[c]  BY <1>1, <2>2 DEF SessionInv
    <3> QED  BY <3>1 DEF SessionInv
  <2> QED  BY <2>1, <2>2
<1>8. Session!KeptWasValid'
  <2>1. ASSUME NEW c \in SuffixNumbers, s1'[c] = "kept" PROVE s5'[c]
    <3>1. c # d  BY <1>1, <2>1 DEF SessionInv
    <3>2. s1[c] = "kept" /\ s5'[c] = s5[c]  BY <1>1, <2>1, <3>1 DEF SessionInv
    <3> QED  BY <3>2 DEF SessionInv, Session!KeptWasValid, SuffixNumbers
  <2> QED  BY <2>1 DEF Session!KeptWasValid, SuffixNumbers
<1> QED  BY <1>2, <1>3, <1>5, <1>6, <1>7, <1>8 DEF SessionInv

LEMMA SessionStep == SessionInv /\ Session!Next => SessionInv'
<1> SUFFICES ASSUME SessionInv, Session!Next PROVE SessionInv'
    OBVIOUS
<1> USE SessionNone
<1>1. ASSUME NEW o \in Owners, Session!UniqueDir(o) PROVE SessionInv'
  <2>1. PICK d \in SuffixNumbers : s3' = [s3 EXCEPT ![o] = d]
      BY <1>1, Zenon DEF Session!UniqueDir, SuffixNumbers
  <2>2. UNCHANGED <<s1, s2, s4, s5>>
      BY <1>1 DEF Session!UniqueDir
  <2> QED  BY <2>1, <2>2 DEF SessionInv, Session!OwnDirectory, Session!KeptWasValid
<1>2. ASSUME NEW o \in Owners, Session!Start(o) PROVE SessionInv'
  <2>1. s3[o] \in SuffixNumbers
      BY <1>2 DEF Session!Start, SessionInv
  <2>2. CASE ~Session!Exists(s3[o]) /\ Session!Made(o, s3[o])
      BY <2>1, <2>2, SessionMade
  <2>3. CASE s3' = [s3 EXCEPT ![o] = Session!None] /\ UNCHANGED <<s1, s2, s4, s5>>
      BY <2>3 DEF SessionInv, Session!OwnDirectory, Session!KeptWasValid
  <2> QED  BY <1>2, <2>2, <2>3 DEF Session!Start
<1>3. ASSUME NEW o \in Owners, Session!Finalize(o) PROVE SessionInv'
  <2> DEFINE d == s4[o]
  <2>1. d \in SuffixNumbers /\ UNCHANGED <<s2, s3, s5>>
      BY <1>3 DEF Session!Finalize, SessionInv
  <2>2. CASE (\E sc \in SessionScenarios : s2[d][sc] = "valid") /\ s1' = [s1 EXCEPT ![d] = "kept"] /\ s4' = s4
    <3>1. s5[d]  BY <2>1, <2>2 DEF SessionInv
    <3>2. Session!KeptWasValid'
      <4>1. ASSUME NEW c \in SuffixNumbers, s1'[c] = "kept" PROVE s5[c]
          BY <2>1, <2>2, <3>1, <4>1 DEF SessionInv, Session!KeptWasValid, SuffixNumbers
      <4> QED  BY <2>1, <4>1 DEF Session!KeptWasValid, SuffixNumbers
    <3> QED  BY <2>1, <2>2, <3>2 DEF SessionInv, Session!OwnDirectory
  <2>3. CASE s1' = [s1 EXCEPT ![d] = "discarded"] /\ s4' = [s4 EXCEPT ![o] = Session!None]
    <3>1. \A p \in Owners : s4'[p] # Session!None => s4'[p] = s4[p] /\ s4[p] # d
        BY <2>1, <2>3 DEF SessionInv, Session!OwnDirectory
    <3>2. Session!KeptWasValid'
        BY <2>1, <2>3 DEF SessionInv, Session!KeptWasValid, SuffixNumbers
    <3>3. Session!OwnDirectory'
        BY <2>1, <2>3, <3>1 DEF SessionInv, Session!OwnDirectory
    <3>4. \A p \in Owners : s4'[p] # Session!None => s1'[s4'[p]] \in {"pending", "kept"}
        BY <2>1, <2>3, <3>1 DEF SessionInv
    <3> QED  BY <2>1, <2>3, <3>2, <3>3, <3>4 DEF SessionInv
  <2> QED  BY <1>3, <2>2, <2>3 DEF Session!Finalize
<1>4. ASSUME NEW o \in Owners, NEW sc \in SessionScenarios, Session!ArchiveScenario(o, sc) PROVE SessionInv'
  <2> DEFINE d == s4[o]
             v == Session!ValidTrace(s6)
  <2>1. /\ d \in SuffixNumbers /\ UNCHANGED <<s1, s3, s4>>
        /\ s2' = [s2 EXCEPT ![d][sc] = IF v THEN "valid" ELSE "invalid"]
        /\ s5' = [s5 EXCEPT ![d] = s5[d] \/ v]
      BY <1>4 DEF Session!ArchiveScenario, SessionInv
  <2>2. v \in BOOLEAN  BY DEF Session!ValidTrace
  <2> HIDE DEF v
  <2>3. s2' \in [SuffixNumbers -> [SessionScenarios -> {"absent", "valid", "invalid"}]]
      BY <2>1, <2>2 DEF SessionInv
  <2>4. s5' \in [SuffixNumbers -> BOOLEAN] /\ \A c \in SuffixNumbers : s5[c] => s5'[c]
      BY <2>1, <2>2 DEF SessionInv
  <2>5. ASSUME NEW c \in SuffixNumbers, NEW x \in SessionScenarios, s2'[c][x] = "valid" PROVE s5'[c]
    <3>1. CASE c = d /\ x = sc
      <4>1. s2'[c][x] = IF v THEN "valid" ELSE "invalid"  BY <2>1, <3>1 DEF SessionInv
      <4>2. v  BY <4>1, <2>5
      <4> QED  BY <2>1, <3>1, <4>2, Zenon DEF SessionInv
    <3>2. CASE ~(c = d /\ x = sc)
      <4>1. s2'[c][x] = s2[c][x]  BY <2>1, <3>2 DEF SessionInv
      <4> QED  BY <2>4, <2>5, <4>1 DEF SessionInv
    <3> QED  BY <3>1, <3>2
  <2>6. Session!KeptWasValid'
      BY <2>1, <2>4 DEF SessionInv, Session!KeptWasValid, SuffixNumbers
  <2> QED  BY <2>1, <2>3, <2>4, <2>5, <2>6 DEF SessionInv, Session!OwnDirectory
<1>5. ASSUME NEW t, Session!TraceChanges(t) PROVE SessionInv'
    BY <1>5 DEF Session!TraceChanges, SessionInv, Session!OwnDirectory, Session!KeptWasValid
<1> QED  BY <1>1, <1>2, <1>3, <1>4, <1>5 DEF Session!Next

LEMMA SessionPromise == SessionInv => Session!OwnDirectory /\ Session!KeptWasValid
BY DEF SessionInv
-----------------------------------------------------------------------------
(* The trace writer.                                                        *)

LEMMA ConcatAppend ==
    ASSUME NEW S, NEW p \in Seq(S), NEW q \in Seq(S), NEW e \in S
    PROVE  p \o Append(q, e) = Append(p \o q, e)
<1>1. <<e>> \in Seq(S)  OBVIOUS
<1>2. Append(q, e) = q \o <<e>> /\ p \o q \in Seq(S)  BY AppendIsConcat, ConcatProperties
<1>3. Append(p \o q, e) = (p \o q) \o <<e>>  BY <1>2, AppendIsConcat
<1> QED  BY <1>1, <1>2, <1>3, ConcatAssociative

(* Sequences over S are joined piece by piece; records are numbers.            *)
Joins(S) ==
    /\ \A p, q, r \in Seq(S) : (p \o q) \o r = p \o (q \o r)
    /\ \A p, q \in Seq(S) : \A e \in S : p \o Append(q, e) = Append(p \o q, e)

LEMMA AllJoin == ASSUME NEW S PROVE Joins(S)
<1>1. \A p, q, r \in Seq(S) : (p \o q) \o r = p \o (q \o r)
    BY ConcatAssociative
<1>2. \A p, q \in Seq(S) : \A e \in S : p \o Append(q, e) = Append(p \o q, e)
    BY ConcatAppend
<1> QED  BY <1>1, <1>2 DEF Joins

LEMMA RecordsJoin ==
    /\ \A p, q, r \in Seq(Nat) : (p \o q) \o r = p \o (q \o r)
    /\ \A p, q \in Seq(Nat) : \A e \in Nat : p \o Append(q, e) = Append(p \o q, e)
<1>1. Joins(Nat)  BY AllJoin, Zenon
<1> QED  BY <1>1, Zenon DEF Joins

WriterTypes ==
    /\ s1 \in [state : Nat, run : Nat] /\ s2 \in Nat
    /\ s4 \in [Threads -> [pc : {"idle", "append", "flush", "anchor", "reset", "entered"},
                           state : Nat, run : Nat, stamp : Nat]]
    /\ s5 \in Seq(Nat) /\ s6 \in Seq(Nat) /\ s8 \in Seq(Nat) /\ s10 \in Seq(Nat)
    /\ s7 \in BOOLEAN /\ s11 \in BOOLEAN

(* Until something is lost archive, file and buffer are what was appended; a  *)
(* buffer of an open file that is due has a thread about to flush it.         *)
WriterTiles == ~s11 => s8 \o s6 \o s5 = s10
WriterDue == s7 /\ ~(Len(s5) < InlineEvery) => \E t \in Threads : s4[t].pc = "flush"

WriterInv == WriterTypes /\ WriterTiles /\ WriterDue

LEMMA WriterInit == Writer!Init => WriterInv
<1> SUFFICES ASSUME Writer!Init PROVE WriterInv
    OBVIOUS
<1>1. WriterTypes
  <2>1. s4 = [t \in Threads |-> [pc |-> "idle", state |-> 0, run |-> 0, stamp |-> 0]]
      BY DEF Writer!Init, Writer!Idle
  <2>2. s1 = [state |-> 2, run |-> 0] /\ s2 = 0 /\ s7 = TRUE /\ s11 = FALSE
      BY DEF Writer!Init, Writer!Inactive
  <2>3. s5 = <<>> /\ s6 = <<>> /\ s8 = <<>> /\ s10 = <<>>
      BY DEF Writer!Init
  <2>4. s4 \in [Threads -> [pc : {"idle", "append", "flush", "anchor", "reset", "entered"},
                            state : Nat, run : Nat, stamp : Nat]]
      BY <2>1
  <2>5. s1 \in [state : Nat, run : Nat] /\ <<>> \in Seq(Nat)
      BY <2>2
  <2> QED  BY <2>2, <2>3, <2>4, <2>5, Zenon DEF WriterTypes
<1>2. s5 = <<>> /\ s6 = <<>> /\ s8 = <<>> /\ s10 = <<>> /\ s7 = TRUE /\ s11 = FALSE
    BY DEF Writer!Init
<1>3. WriterTiles  BY <1>2 DEF WriterTiles
<1>4. WriterDue  BY <1>2, EvidenceAssumption DEF WriterDue
<1> QED  BY <1>1, <1>3, <1>4 DEF WriterInv

(* What a thread does that is not about to flush and leaves the records.      *)
LEMMA WriterKeeps ==
    ASSUME WriterInv, NEW t \in Threads, s4[t].pc # "flush", NEW u, s4' = [s4 EXCEPT ![t] = u],
           WriterTypes', UNCHANGED <<s5, s6, s7, s8, s10, s11>>
    PROVE  WriterInv'
<1>1. WriterTiles'  BY DEF WriterInv, WriterTiles
<1>2. \A p \in Threads : s4[p].pc = "flush" => s4'[p].pc = "flush"
    BY Zenon DEF WriterInv, WriterTypes
<1>3. WriterDue'  BY <1>2 DEF WriterInv, WriterDue
<1> QED  BY <1>1, <1>3 DEF WriterInv

(* A flush empties the buffer of an open file, whether it writes, rotates or  *)
(* fails.                                                                     *)
LEMMA WriterFlush ==
    ASSUME WriterInv, NEW ok \in BOOLEAN, NEW rotates \in BOOLEAN, Writer!Flush(ok, rotates),
           s4' \in [Threads -> [pc : {"idle", "append", "flush", "anchor", "reset", "entered"},
                                state : Nat, run : Nat, stamp : Nat]]
    PROVE  WriterInv'
<1> DEFINE f == IF s7 /\ ok THEN s6 \o s5 ELSE s6
<1>1. /\ s5' = IF s7 THEN <<>> ELSE s5
      /\ ~s11' => ~s11 /\ ~(s7 /\ ~ok /\ s5 # <<>>)
      /\ s11' \in BOOLEAN /\ s7' \in BOOLEAN /\ (s7' => s7)
      /\ \/ s8' = s8 \o f /\ s6' = <<>>
         \/ s6' = f /\ s8' = s8
         \/ s6' = f /\ s8' = s8 \o f /\ s11'
      /\ UNCHANGED <<s1, s2, s3, s10>>
  <2>1. /\ s5' = IF s7 THEN <<>> ELSE s5
        /\ UNCHANGED <<s1, s2, s3, s10>>
      BY DEF Writer!Flush
  <2>2. s7 \in BOOLEAN /\ s11 \in BOOLEAN
      BY DEF WriterInv, WriterTypes
  <2>3. Writer!Written(ok) = f
      BY DEF Writer!Written
  <2>4. CASE s7 /\ Len(f) > RotateSize /\ ~rotates
    <3>1. PICK copied \in BOOLEAN, reopens \in BOOLEAN :
              /\ Writer!RotateFailed(f, copied, reopens)
              /\ s11' = (s11 \/ (s7 /\ ~ok /\ s5 # <<>>) \/ copied)
        BY <2>3, <2>4, Zenon DEF Writer!Flush
    <3>2. s6' = f /\ s7' = reopens /\ s8' = IF copied THEN s8 \o f ELSE s8
        BY <3>1, Zenon DEF Writer!RotateFailed
    <3> HIDE DEF f
    <3>3. CASE copied
      <4>1. s8' = s8 \o f /\ s11' = TRUE  BY <3>1, <3>2, <3>3, Zenon
      <4> QED  BY <2>1, <2>4, <3>2, <4>1, Zenon
    <3>4. CASE ~copied
      <4>1. s8' = s8 /\ s11' = (s11 \/ (s7 /\ ~ok /\ s5 # <<>>))  BY <3>1, <3>2, <3>4, Zenon
      <4>2. s11' \in BOOLEAN  BY <2>2, <4>1
      <4> QED  BY <2>1, <2>4, <3>2, <4>1, <4>2, Zenon
    <3> QED  BY <3>3, <3>4
  <2>5. CASE ~(s7 /\ Len(f) > RotateSize /\ ~rotates)
    <3>1. /\ s11' = (s11 \/ (s7 /\ ~ok /\ s5 # <<>>)) /\ s7' = s7
          /\ (s8' = s8 \o f /\ s6' = <<>>) \/ (s6' = f /\ s8' = s8)
        BY <2>3, <2>5, Zenon DEF Writer!Flush, Writer!Rotated
    <3>2. s11' \in BOOLEAN  BY <2>2, <3>1
    <3> HIDE DEF f
    <3> QED  BY <2>1, <2>2, <3>1, <3>2, Zenon
  <2> QED  BY <2>4, <2>5
<1>10. ~s7 => s5' = s5 /\ s6' = s6 /\ s8' = s8
    BY Zenon DEF Writer!Flush, Writer!Written
<1>2. WriterTypes  BY DEF WriterInv
<1>3. f \in Seq(Nat)  BY <1>2, ConcatProperties DEF WriterTypes
<1>4. <<>> \in Seq(Nat)  OBVIOUS
<1>5. WriterTypes'
  <2>1. s5' \in Seq(Nat)  BY <1>1, <1>2, <1>4 DEF WriterTypes
  <2>2. s6' \in Seq(Nat) /\ s8' \in Seq(Nat)
    <3> HIDE DEF f
    <3>1. s8 \in Seq(Nat)  BY <1>2 DEF WriterTypes
    <3>2. s8 \o f \in Seq(Nat)  BY <1>3, <3>1, ConcatProperties
    <3> QED  BY <1>1, <1>3, <1>4, <3>1, <3>2, Zenon
  <2>3. s11' \in BOOLEAN  BY <1>1
  <2> QED  BY <1>1, <1>2, <2>1, <2>2, <2>3 DEF WriterTypes
<1>6. WriterTiles'
  <2> SUFFICES ASSUME ~s11' PROVE s8' \o s6' \o s5' = s10
      BY <1>1 DEF WriterTiles
  <2>1. ~s11 /\ s8 \o s6 \o s5 = s10 /\ (s7 => ok \/ s5 = <<>>)
      BY <1>1, Zenon DEF WriterInv, WriterTiles
  <2>7. CASE ~s7
    <3>1. s8' = s8 /\ s6' = s6 /\ s5' = s5
        BY <2>7, <1>10
    <3> QED  BY <2>1, <3>1, <1>1
  <2>8. CASE s7
    <3>1. s5' = <<>> /\ (ok \/ s5 = <<>>)
        BY <1>1, <2>1, <2>8
    <3>2. s5 \in Seq(Nat) /\ s6 \in Seq(Nat) /\ s8 \in Seq(Nat) /\ s10 \in Seq(Nat)
        BY <1>2 DEF WriterTypes
    <3>3. f = s6 \o s5
      <4>1. CASE ok
          BY <2>8, <4>1
      <4>2. CASE ~ok
          BY <3>1, <3>2, <4>2, ConcatEmptySeq
      <4> QED  BY <4>1, <4>2
    <3>4. s8 \o f = s10
      <4>1. (s8 \o s6) \o s5 = s8 \o (s6 \o s5)  BY <3>2, RecordsJoin, Zenon
      <4> QED  BY <2>1, <3>3, <4>1, Zenon
    <3>5. s8' \o s6' = s8 \o f
      <4> HIDE DEF f
      <4>1. s8 \o f \in Seq(Nat)  BY <3>2, <1>3, ConcatProperties
      <4> QED  BY <1>1, <4>1, ConcatEmptySeq, Zenon
    <3> HIDE DEF f
    <3> QED  BY <1>1, <3>1, <3>2, <3>4, <3>5, ConcatEmptySeq
  <2> QED  BY <2>7, <2>8
<1>7. WriterDue'
  <2>1. s7' => s5' = <<>>  BY <1>1
  <2> QED  BY <2>1, EvidenceAssumption DEF WriterDue
<1> QED  BY <1>5, <1>6, <1>7 DEF WriterInv

LEMMA WriterAppend ==
    ASSUME WriterInv, NEW t \in Threads, Writer!Append1(t)
    PROVE  WriterInv'
<1> DEFINE x == s4[t].stamp
           b == Append(s5, x)
<1>1. /\ s10' = Append(s10, x)
      /\ s5' = IF Len(b) > MaxBuf THEN Tail(b) ELSE b
      /\ s11' = (s11 \/ Len(b) > MaxBuf)
      /\ s4' = [s4 EXCEPT ![t].pc = IF Len(s5') >= InlineEvery THEN "flush" ELSE "idle"]
      /\ s4[t].pc = "append"
      /\ UNCHANGED <<s1, s2, s6, s7, s8>>
    BY DEF Writer!Append1, Writer!Go, Writer!Due
<1>2. WriterTypes  BY DEF WriterInv
<1>3. x \in Nat  BY <1>2 DEF WriterTypes
<1> HIDE DEF x
<1>4. b \in Seq(Nat) /\ Tail(b) \in Seq(Nat)
  <2>1. s5 \in Seq(Nat)  BY <1>2 DEF WriterTypes
  <2>2. b \in Seq(Nat) /\ b # <<>>  BY <1>3, <2>1, AppendProperties
  <2> HIDE DEF b
  <2> QED  BY <2>2, HeadTailProperties
<1>5. WriterTypes'
  <2>1. s5' \in Seq(Nat) /\ s10' \in Seq(Nat)
      BY <1>1, <1>2, <1>3, <1>4, AppendProperties, Zenon DEF WriterTypes
  <2>2. s4' \in [Threads -> [pc : {"idle", "append", "flush", "anchor", "reset", "entered"},
                             state : Nat, run : Nat, stamp : Nat]]
      BY <1>1, <1>2, ZenonT(60) DEF WriterTypes
  <2>3. s11' \in BOOLEAN  BY <1>1
  <2> QED  BY <1>1, <1>2, <2>1, <2>2, <2>3, Zenon DEF WriterTypes
<1>6. WriterTiles'
  <2> SUFFICES ASSUME ~s11' PROVE s8 \o s6 \o s5' = s10'
      BY <1>1, Zenon DEF WriterTiles
  <2>1. ~s11 /\ ~(Len(b) > MaxBuf)  BY <1>1, Zenon
  <2>2. s5' = b /\ s8 \o s6 \o s5 = s10  BY <1>1, <2>1, Zenon DEF WriterInv, WriterTiles
  <2>3. s8 \in Seq(Nat) /\ s6 \in Seq(Nat) /\ s5 \in Seq(Nat)  BY <1>2 DEF WriterTypes
  <2>4. s8 \o s6 \in Seq(Nat)  BY <2>3, ConcatProperties
  <2>5. (s8 \o s6) \o Append(s5, x) = Append((s8 \o s6) \o s5, x)  BY <1>3, <2>3, <2>4, RecordsJoin, Zenon
  <2> QED  BY <1>1, <2>2, <2>5, Zenon
<1>7. WriterDue'
  <2>1. ASSUME ~(Len(s5') < InlineEvery) PROVE s4'[t].pc = "flush"
    <3>1. Len(s5') >= InlineEvery  BY <1>5, <2>1, EvidenceAssumption DEF WriterTypes
    <3> QED  BY <1>1, <1>2, <3>1 DEF WriterTypes
  <2> QED  BY <2>1 DEF WriterDue
<1> QED  BY <1>5, <1>6, <1>7 DEF WriterInv

LEMMA WriterReset ==
    ASSUME WriterInv, NEW t \in Threads, Writer!Reset(t)
    PROVE  WriterInv'
<1>1. /\ s4' = [s4 EXCEPT ![t].pc = "entered"] /\ s2' = s4[t].run
      /\ s5' = <<>> /\ s10' = <<>> /\ s8' = <<>> /\ s1' = s1
      /\ \/ s6' = <<>> /\ s7' = TRUE /\ s11' = FALSE
         \/ s7' = FALSE /\ s11' = TRUE /\ s6' = s6
    BY DEF Writer!Reset, Writer!Go
<1>2. WriterTypes'
  <2>1. <<>> \in Seq(Nat)  OBVIOUS
  <2>2. s4' \in [Threads -> [pc : {"idle", "append", "flush", "anchor", "reset", "entered"},
                             state : Nat, run : Nat, stamp : Nat]]
      BY <1>1, Zenon DEF WriterInv, WriterTypes
  <2>3. s2' \in Nat /\ s6' \in Seq(Nat) /\ s7' \in BOOLEAN /\ s11' \in BOOLEAN
      BY <1>1, <2>1, Zenon DEF WriterInv, WriterTypes
  <2> QED  BY <1>1, <2>1, <2>2, <2>3, Zenon DEF WriterInv, WriterTypes
<1>3. WriterTiles'  BY <1>1 DEF WriterTiles
<1>4. WriterDue'  BY <1>1, EvidenceAssumption DEF WriterDue
<1> QED  BY <1>2, <1>3, <1>4 DEF WriterInv

LEMMA WriterStep == WriterInv /\ Writer!Next => WriterInv'
<1> SUFFICES ASSUME WriterInv, Writer!Next PROVE WriterInv'
    OBVIOUS
<1>1. CASE Writer!RunStarts \/ Writer!RunStops
  <2>1. s1' \in [state : Nat, run : Nat] /\ UNCHANGED <<s2, s4, s5, s6, s7, s8, s10, s11>>
      BY <1>1 DEF Writer!RunStarts, Writer!RunStops, Writer!Active, Writer!Inactive, WriterInv, WriterTypes
  <2> QED  BY <2>1, Zenon DEF WriterInv, WriterTypes, WriterTiles, WriterDue
<1>2. CASE Writer!TimerFlush
  <2>1. s4' = s4 /\ \E ok, rotates \in BOOLEAN : Writer!Flush(ok, rotates)
      BY <1>2 DEF Writer!TimerFlush
  <2> QED  BY <2>1, WriterFlush DEF WriterInv, WriterTypes
<1>3. ASSUME NEW t \in Threads, Writer!InlineFlush(t) PROVE WriterInv'
  <2>1. s4' = [s4 EXCEPT ![t].pc = "idle"] /\ \E ok, rotates \in BOOLEAN : Writer!Flush(ok, rotates)
      BY <1>3 DEF Writer!InlineFlush, Writer!Go
  <2>2. s4' \in [Threads -> [pc : {"idle", "append", "flush", "anchor", "reset", "entered"},
                             state : Nat, run : Nat, stamp : Nat]]
      BY <2>1, Zenon DEF WriterInv, WriterTypes
  <2> QED  BY <2>1, <2>2, WriterFlush
<1>4. ASSUME NEW t \in Threads, Writer!OnMessage(t) PROVE WriterInv'
  <2>1. /\ s4' = [s4 EXCEPT ![t] = [s4[t] EXCEPT !.pc = "append", !.stamp = s2]] /\ s4[t].pc = "idle"
        /\ UNCHANGED <<s1, s2, s5, s6, s7, s8, s10, s11>>
      BY <1>4, Zenon DEF Writer!OnMessage
  <2>2. WriterTypes'  BY <2>1, Zenon DEF WriterInv, WriterTypes
  <2> QED  BY <2>1, <2>2, WriterKeeps, Zenon
<1>5. ASSUME NEW t \in Threads, Writer!OnLifecycle(t) PROVE WriterInv'
  <2>1. /\ s4' = [s4 EXCEPT ![t] = [pc |-> "anchor", state |-> s1.state, run |-> s1.run, stamp |-> 0]]
        /\ s4[t].pc = "idle" /\ UNCHANGED <<s1, s2, s5, s6, s7, s8, s10, s11>>
      BY <1>5 DEF Writer!OnLifecycle
  <2>2. WriterTypes'  BY <2>1 DEF WriterInv, WriterTypes
  <2> QED  BY <2>1, <2>2, WriterKeeps, Zenon
<1>6. ASSUME NEW t \in Threads, Writer!Anchor(t) PROVE WriterInv'
  <2>1. PICK pc \in {"reset", "entered"} : s4' = [s4 EXCEPT ![t] = [s4[t] EXCEPT !.pc = pc]]
      BY <1>6, Zenon DEF Writer!Anchor, Writer!Go
  <2>2. s4[t].pc = "anchor" /\ s2' = s4[t].run /\ UNCHANGED <<s1, s5, s6, s7, s8, s10, s11>>
      BY <1>6 DEF Writer!Anchor
  <2>3. WriterTypes'  BY <2>1, <2>2, Zenon DEF WriterInv, WriterTypes
  <2> QED  BY <2>1, <2>2, <2>3, WriterKeeps, Zenon
<1>7. ASSUME NEW t \in Threads, Writer!Entered(t) PROVE WriterInv'
  <2>1. /\ s4' = [s4 EXCEPT ![t] = [s4[t] EXCEPT !.pc = "append", !.stamp = s2]] /\ s4[t].pc = "entered"
        /\ UNCHANGED <<s1, s2, s5, s6, s7, s8, s10, s11>>
      BY <1>7, Zenon DEF Writer!Entered
  <2>2. WriterTypes'  BY <2>1, Zenon DEF WriterInv, WriterTypes
  <2> QED  BY <2>1, <2>2, WriterKeeps, Zenon
<1> QED  BY <1>1, <1>2, <1>3, <1>4, <1>5, <1>6, <1>7, WriterAppend, WriterReset DEF Writer!Next

LEMMA WriterPromise == WriterInv => Writer!NothingLost /\ Writer!TailIsShort
<1> SUFFICES ASSUME WriterInv PROVE Writer!NothingLost /\ Writer!TailIsShort
    OBVIOUS
<1>1. Writer!NothingLost  BY DEF WriterInv, WriterTiles, Writer!NothingLost
<1>2. Writer!TailIsShort  BY DEF WriterInv, WriterDue, Writer!TailIsShort
<1> QED  BY <1>1, <1>2
-----------------------------------------------------------------------------
(* The display.                                                             *)

(* The time it has been out is counted from the first tick that saw OUT.      *)
DisplayInv ==
    /\ s5 \in Nat /\ s6 \in Nat /\ s8.out \in Nat
    /\ s8.out = 0 => s5 = 0
    /\ s8.out > 0 => s5 = s6 - s8.out + 1 /\ s8.out <= s6
    /\ Display!MrcHasCause

LEMMA DisplayInit == Display!Init => DisplayInv
BY DEF Display!Init, Display!NotOut, DisplayInv, Display!MrcHasCause

LEMMA DisplayStep == DisplayInv /\ Display!Next => DisplayInv'
<1> SUFFICES ASSUME DisplayInv, Display!Next PROVE DisplayInv'
    OBVIOUS
<1>1. CASE Display!OnOdd \/ Display!OnBehavior \/ Display!OnAvoid \/ Display!OnSafety
  <2>1. UNCHANGED <<s5, s6, s7, s8>>
      BY <1>1 DEF Display!OnOdd, Display!OnBehavior, Display!OnAvoid, Display!OnSafety
  <2> QED  BY <2>1 DEF DisplayInv, Display!MrcHasCause
<1>2. CASE Display!OnTimer
  <2> DEFINE mrc == s1 = "OUT" /\ s6' - s5' > OutLimit
  <2>1. /\ s6' = s6 + 1 /\ s5' = Display!OutSince
        /\ s8' = [safety |-> s4, out |-> IF s1 = "OUT" THEN s8.out + 1 ELSE 0]
      BY <1>2 DEF Display!OnTimer
  <2>2. s7' = "MRC" <=> mrc \/ s4 = "MRC_REQUIRED"
      BY <1>2 DEF Display!OnTimer, Display!Avoiding
  <2>3. CASE s1 # "OUT"
    <3>1. s5' = 0 /\ s8'.out = 0 /\ s8'.safety = s4  BY <2>1, <2>3 DEF Display!OutSince, Display!NotOut
    <3>2. ~mrc  BY <2>3
    <3>3. ~(0 > OutLimit + 1)  BY NodesAssumption
    <3>4. Display!MrcHasCause'
        BY <2>2, <3>1, <3>2, <3>3 DEF Display!MrcHasCause
    <3> QED  BY <2>1, <3>1, <3>4 DEF DisplayInv
  <2>4. CASE s1 = "OUT"
    <3>1. s8'.out = s8.out + 1 /\ s8'.safety = s4  BY <2>1, <2>4
    <3>2. s5' = IF s5 = 0 THEN s6' ELSE s5  BY <2>1, <2>4 DEF Display!OutSince, Display!NotOut
    <3>3. s5 \in Nat /\ s6 \in Nat /\ s8.out \in Nat /\ (s8.out = 0 => s5 = 0)
          /\ (s8.out > 0 => s5 = s6 - s8.out + 1 /\ s8.out <= s6)
        BY DEF DisplayInv
    <3>4. s5' \in Nat /\ s6' \in Nat /\ s8'.out \in Nat /\ s5' = s6' - s8'.out + 1 /\ s8'.out <= s6' /\ s8'.out > 0
        BY <2>1, <3>1, <3>2, <3>3
    <3>5. mrc <=> s8'.out > OutLimit + 1
        BY <2>4, <3>4, NodesAssumption
    <3>6. Display!MrcHasCause'
        BY <2>2, <3>1, <3>5 DEF Display!MrcHasCause
    <3> QED  BY <3>4, <3>6 DEF DisplayInv
  <2> QED  BY <2>3, <2>4
<1> QED  BY <1>1, <1>2 DEF Display!Next

LEMMA DisplayPromise == DisplayInv => Display!MrcHasCause
BY DEF DisplayInv
-----------------------------------------------------------------------------
(* The mock L2.                                                             *)

MockFields == {"enabled", "config", "active", "sid", "route", "id", "shown"}

(* The mock follows a scenario, or none; the ingest's stamp is that of a plan *)
(* it accepted, once there is one.                                            *)
MockInv ==
    /\ DOMAIN s1 = MockFields /\ s1.active \in BOOLEAN /\ s3 \in BOOLEAN
    /\ s1.sid \in MockScenarios \cup {NoScenario} /\ s1.config \in {Mock!NoRoute, Mock!Configured}
    /\ DOMAIN s2 = {"sid", "expected", "stamp", "published"}
    /\ s2.stamp \in Nat /\ \A p \in s4 : p.stamp \in Nat
    /\ s2.stamp > 0 => [route |-> s2.published, stamp |-> s2.stamp] \in s4
    /\ Mock!ActiveFollows /\ Mock!RouteOfScenario /\ Mock!NewestMatching

(* A loaded route is some route, and so is the configured one.                *)
LEMMA SomeRoute ==
    /\ \A s \in MockScenarios \cup {NoScenario} : Mock!RouteFor(s) # Mock!NoRoute
    /\ Mock!Configured # Mock!NoRoute
<1>1. ASSUME NEW s \in MockScenarios \cup {NoScenario} PROVE Mock!RouteFor(s) # Mock!NoRoute
  <2>1. Mock!RouteFor(s).from \in {"default", "nominal"}
      BY DEF Mock!RouteFor, Mock!Fixed, Mock!Route
  <2>2. Mock!NoRoute.from = "none"
      BY DEF Mock!NoRoute, Mock!Route
  <2> QED  BY <2>1, <2>2
<1>2. Mock!Configured.from = "config" /\ Mock!NoRoute.from = "none"
    BY DEF Mock!Configured, Mock!NoRoute, Mock!Route
<1> QED  BY <1>1, <1>2

LEMMA MockInit == Mock!Init => MockInv
<1> SUFFICES ASSUME Mock!Init PROVE MockInv
    OBVIOUS
<1>1. PICK enabled \in BOOLEAN, config \in {Mock!NoRoute, Mock!Configured} :
          s1 = [enabled |-> enabled, config |-> config, active |-> FALSE, sid |-> NoScenario,
                route |-> Mock!NoRoute, id |-> Mock!NoRoute, shown |-> Mock!Nothing]
    BY DEF Mock!Init
<1>2. s2 = [sid |-> NoScenario, expected |-> Mock!NoRoute, stamp |-> 0, published |-> Mock!NoRoute]
    BY DEF Mock!Init
<1>3. s3 = FALSE /\ s4 = {}
    BY DEF Mock!Init
<1>4. DOMAIN s1 = MockFields /\ s1.active = FALSE /\ s1.sid = NoScenario /\ s1.config = config /\ s1.shown = Mock!Nothing
    BY <1>1 DEF MockFields
<1>5. DOMAIN s2 = {"sid", "expected", "stamp", "published"} /\ s2.stamp = 0
    BY <1>2
<1>6. Mock!ActiveFollows /\ Mock!RouteOfScenario /\ Mock!NewestMatching
    BY <1>3, <1>4 DEF Mock!ActiveFollows, Mock!RouteOfScenario, Mock!NewestMatching
<1>7. s1.active \in BOOLEAN /\ s3 \in BOOLEAN /\ s1.sid \in MockScenarios \cup {NoScenario}
      /\ s1.config \in {Mock!NoRoute, Mock!Configured}
    BY <1>3, <1>4, Zenon
<1>8. s2.stamp \in Nat /\ \A p \in s4 : p.stamp \in Nat
    BY <1>3, <1>5
<1>9. s2.stamp > 0 => [route |-> s2.published, stamp |-> s2.stamp] \in s4
    BY <1>5
<1> QED  BY <1>4, <1>5, <1>6, <1>7, <1>8, <1>9, Zenon DEF MockInv

(* What the mock may do: publish, stop, or load a scenario.                   *)
Loaded(s) == [s1 EXCEPT !.active = TRUE, !.sid = s, !.route = Mock!RouteFor(s), !.id = Mock!RouteFor(s)]

PublishedRoute == IF s1.config # Mock!NoRoute THEN s1.config ELSE s1.route

PublishedNow ==
    [s1 EXCEPT !.route = PublishedRoute, !.shown = [sid |-> s1.sid, route |-> PublishedRoute, id |-> s1.id]]

MockMoves ==
    \/ s1' = s1
    \/ s1' = [s1 EXCEPT !.active = FALSE]
    \/ s1.active /\ s1.enabled /\ s1' = PublishedNow
    \/ \E s \in MockScenarios \cup {NoScenario} : s1' = Loaded(s)

LEMMA MockMoved ==
    ASSUME MockInv, MockMoves
    PROVE  /\ DOMAIN s1' = MockFields /\ s1'.active \in BOOLEAN
           /\ s1'.sid \in MockScenarios \cup {NoScenario} /\ s1'.config \in {Mock!NoRoute, Mock!Configured}
           /\ Mock!RouteOfScenario'
<1> DEFINE Goal == /\ DOMAIN s1' = MockFields /\ s1'.active \in BOOLEAN
                   /\ s1'.sid \in MockScenarios \cup {NoScenario} /\ s1'.config \in {Mock!NoRoute, Mock!Configured}
                   /\ Mock!RouteOfScenario'
<1>1. /\ DOMAIN s1 = MockFields /\ s1.active \in BOOLEAN
      /\ s1.sid \in MockScenarios \cup {NoScenario} /\ s1.config \in {Mock!NoRoute, Mock!Configured}
      /\ s1.active => s1.id = Mock!RouteFor(s1.sid) /\ s1.route \in {s1.id, s1.config} \ {Mock!NoRoute}
      /\ s1.shown # Mock!Nothing =>
            /\ s1.enabled
            /\ s1.shown.id = Mock!RouteFor(s1.shown.sid)
            /\ s1.shown.route = IF s1.config # Mock!NoRoute THEN s1.config ELSE s1.shown.id
    BY Zenon DEF MockInv, Mock!RouteOfScenario
<1>2. CASE s1' = s1
  <2>1. Mock!RouteOfScenario'
      BY <1>1, <1>2, Zenon DEF Mock!RouteOfScenario, Mock!RouteFor, Mock!NoRoute, Mock!Fixed, Mock!Nothing, Mock!Route
  <2> QED  BY <1>1, <1>2, <2>1
<1>3. CASE s1' = [s1 EXCEPT !.active = FALSE]
  <2>1. /\ DOMAIN s1' = MockFields /\ s1'.active = FALSE /\ s1'.enabled = s1.enabled
        /\ s1'.sid = s1.sid /\ s1'.config = s1.config /\ s1'.shown = s1.shown
      BY <1>1, <1>3 DEF MockFields
  <2>2. Mock!RouteOfScenario'
      BY <1>1, <2>1, Zenon DEF Mock!RouteOfScenario, Mock!RouteFor, Mock!NoRoute, Mock!Fixed, Mock!Nothing, Mock!Route
  <2> QED  BY <1>1, <2>1, <2>2
<1>4. CASE s1.active /\ s1.enabled /\ s1' = PublishedNow
  <2>1. /\ DOMAIN s1' = MockFields /\ s1'.active = s1.active /\ s1'.enabled = s1.enabled
        /\ s1'.sid = s1.sid /\ s1'.config = s1.config /\ s1'.id = s1.id
        /\ s1'.route = PublishedRoute
        /\ s1'.shown = [sid |-> s1.sid, route |-> PublishedRoute, id |-> s1.id]
      BY <1>1, <1>4 DEF MockFields, PublishedNow
  <2>2. /\ s1.config # Mock!NoRoute => PublishedRoute = s1.config
        /\ s1.config = Mock!NoRoute => PublishedRoute = s1.id
        /\ s1.id # Mock!NoRoute
      BY <1>1, <1>4, SomeRoute DEF PublishedRoute
  <2>3. s1'.shown.id = s1.id /\ s1'.shown.sid = s1.sid /\ s1'.shown.route = PublishedRoute
      BY <2>1
  <2> HIDE DEF PublishedRoute
  <2>4. s1.id = Mock!RouteFor(s1.sid)
      BY <1>1, <1>4
  <2>5. Mock!RouteOfScenario'
    <3>1. s1'.id = Mock!RouteFor(s1'.sid) /\ s1'.route \in {s1'.id, s1'.config} \ {Mock!NoRoute}
        BY <2>1, <2>2, <2>4
    <3>2. s1'.shown.id = Mock!RouteFor(s1'.shown.sid)
        BY <2>3, <2>4, Zenon
    <3>3. s1'.shown.route = IF s1'.config # Mock!NoRoute THEN s1'.config ELSE s1'.shown.id
        BY <2>1, <2>2, <2>3
    <3> QED
        BY <1>4, <2>1, <3>1, <3>2, <3>3, Zenon
        DEF Mock!RouteOfScenario, Mock!RouteFor, Mock!NoRoute, Mock!Fixed, Mock!Nothing, Mock!Route
  <2> QED  BY <1>1, <2>1, <2>5
<1>5. ASSUME NEW s \in MockScenarios \cup {NoScenario}, s1' = Loaded(s) PROVE Goal
  <2>1. /\ DOMAIN s1' = MockFields /\ s1'.active = TRUE /\ s1'.enabled = s1.enabled
        /\ s1'.sid = s /\ s1'.route = Mock!RouteFor(s) /\ s1'.id = Mock!RouteFor(s)
        /\ s1'.config = s1.config /\ s1'.shown = s1.shown
      BY <1>1, <1>5 DEF Loaded, MockFields
  <2>2. s1'.route \in {s1'.id, s1'.config} \ {Mock!NoRoute}
      BY <2>1, SomeRoute
  <2>3. Mock!RouteOfScenario'
      BY <1>1, <2>1, <2>2, Zenon
      DEF Mock!RouteOfScenario, Mock!RouteFor, Mock!NoRoute, Mock!Fixed, Mock!Nothing, Mock!Route
  <2> QED  BY <1>1, <2>1, <2>3
<1> QED  BY <1>2, <1>3, <1>4, <1>5 DEF MockMoves

LEMMA MockKeeps ==
    ASSUME MockInv, MockMoves, Mock!ActiveFollows', s3' \in BOOLEAN, s4' = s4,
           DOMAIN s2' = DOMAIN s2 /\ s2'.stamp = s2.stamp /\ s2'.published = s2.published
    PROVE  MockInv'
<1>1. /\ DOMAIN s2 = {"sid", "expected", "stamp", "published"} /\ s2.stamp \in Nat
      /\ \A p \in s4 : p.stamp \in Nat
      /\ s2.stamp > 0 => [route |-> s2.published, stamp |-> s2.stamp] \in s4
      /\ Mock!NewestMatching
    BY DEF MockInv
<1>2. DOMAIN s2' = {"sid", "expected", "stamp", "published"}
    BY <1>1
<1>3. Mock!NewestMatching'
    BY <1>1, <1>2 DEF Mock!NewestMatching
<1>4. /\ s2'.stamp \in Nat /\ \A p \in s4' : p.stamp \in Nat
      /\ s2'.stamp > 0 => [route |-> s2'.published, stamp |-> s2'.stamp] \in s4'
    BY <1>1, <1>2
<1> QED  BY <1>2, <1>3, <1>4, MockMoved, Zenon DEF MockInv

(* A status or an event loads the scenario, or leaves what is active.         *)
LEMMA MockLoads ==
    ASSUME MockInv,
           \/ \E s \in MockScenarios \cup {NoScenario} : Mock!LoadScenario(s)
           \/ s1' = s1 /\ s1.active
    PROVE  MockMoves /\ s1'.active
<1>1. DOMAIN s1 = MockFields
    BY DEF MockInv
<1>2. ASSUME NEW s \in MockScenarios \cup {NoScenario}, Mock!LoadScenario(s) PROVE MockMoves /\ s1'.active
  <2>1. s1' = Loaded(s)  BY <1>2, Zenon DEF Mock!LoadScenario, Mock!Activate, Loaded
  <2>2. s1'.active = TRUE  BY <1>1, <2>1 DEF Loaded, MockFields
  <2> QED  BY <2>1, <2>2 DEF MockMoves
<1>3. CASE s1' = s1 /\ s1.active
    BY <1>3 DEF MockMoves
<1> QED  BY <1>2, <1>3

(* Found by itself: a scenario's route, which in an empty directory is the    *)
(* fixed one.                                                                *)
LEMMA MockDetects ==
    ASSUME MockInv, Mock!AutoDetect
    PROVE  \E s \in MockScenarios \cup {NoScenario} : Mock!LoadScenario(s)
<1>1. s1.sid \in MockScenarios \cup {NoScenario}
    BY DEF MockInv
<1>2. CASE FirstFile = NoScenario
  <2>1. Mock!RouteFor(s1.sid) = Mock!Fixed
      BY <1>1, <1>2, NodesAssumption DEF Mock!RouteFor
  <2> QED  BY <1>1, <1>2, <2>1, Zenon DEF Mock!AutoDetect, Mock!LoadScenario
<1>3. CASE FirstFile # NoScenario
  <2>1. FirstFile \in MockScenarios  BY <1>3, NodesAssumption
  <2> QED  BY <1>1, <1>3, <2>1, Zenon DEF Mock!AutoDetect
<1> QED  BY <1>2, <1>3

(* A new scenario leaves what the ingest published.                           *)
LEMMA MockIngests ==
    ASSUME MockInv, NEW s, Mock!IngestScenario(s) \/ s2' = s2
    PROVE  DOMAIN s2' = DOMAIN s2 /\ s2'.stamp = s2.stamp /\ s2'.published = s2.published
<1>1. DOMAIN s2 = {"sid", "expected", "stamp", "published"}
    BY DEF MockInv
<1> QED  BY <1>1, Zenon DEF Mock!IngestScenario

LEMMA MockStep == MockInv /\ Mock!Next => MockInv'
<1> SUFFICES ASSUME MockInv, Mock!Next PROVE MockInv'
    OBVIOUS
<1>1. ASSUME NEW state \in BOOLEAN, NEW s \in MockScenarios \cup {NoScenario}, Mock!OnLifecycleStatus(state, s)
      PROVE  MockInv'
  <2>1. s3' = state /\ s4' = s4 /\ Mock!MockLifecycle(state, s)  BY <1>1 DEF Mock!OnLifecycleStatus
  <2>2. DOMAIN s2' = DOMAIN s2 /\ s2'.stamp = s2.stamp /\ s2'.published = s2.published
      BY <1>1, MockIngests DEF Mock!OnLifecycleStatus
  <2>3. CASE ~state
    <3>1. s1' = [s1 EXCEPT !.active = FALSE]  BY <2>1, <2>3 DEF Mock!MockLifecycle
    <3>2. MockMoves  BY <3>1 DEF MockMoves
    <3>3. Mock!ActiveFollows'  BY <2>1, <2>3 DEF Mock!ActiveFollows
    <3> QED  BY <2>1, <2>2, <3>2, <3>3, MockKeeps
  <2>4. CASE state
    <3>1. (\E z \in MockScenarios \cup {NoScenario} : Mock!LoadScenario(z)) \/ (s1' = s1 /\ s1.active)
      <4>1. CASE s # NoScenario
          BY <2>1, <2>4, <4>1 DEF Mock!MockLifecycle
      <4>2. CASE s = NoScenario /\ ~s1.active
          BY <2>1, <2>4, <4>2, MockDetects DEF Mock!MockLifecycle
      <4>3. CASE s = NoScenario /\ s1.active
          BY <2>1, <2>4, <4>3 DEF Mock!MockLifecycle
      <4> QED  BY <4>1, <4>2, <4>3
    <3>2. MockMoves /\ s1'.active  BY <3>1, MockLoads
    <3>3. Mock!ActiveFollows'  BY <3>2 DEF Mock!ActiveFollows
    <3> QED  BY <2>1, <2>2, <3>2, <3>3, MockKeeps
  <2> QED  BY <2>3, <2>4
<1>2. ASSUME NEW s \in MockScenarios, Mock!OnScenarioLoaded(s) PROVE MockInv'
  <2>1. s3' = s3 /\ s4' = s4  BY <1>2 DEF Mock!OnScenarioLoaded
  <2>2. Mock!LoadScenario(s) \/ (s1' = s1 /\ s1.active)
      BY <1>2 DEF Mock!OnScenarioLoaded, Mock!MockLoaded
  <2>3. MockMoves /\ s1'.active  BY <2>2, MockLoads
  <2>4. DOMAIN s2' = DOMAIN s2 /\ s2'.stamp = s2.stamp /\ s2'.published = s2.published
      BY <1>2, MockIngests DEF Mock!OnScenarioLoaded
  <2>5. Mock!ActiveFollows' /\ s3 \in BOOLEAN  BY <2>3 DEF Mock!ActiveFollows, MockInv
  <2> QED  BY <2>1, <2>3, <2>4, <2>5, MockKeeps
<1>3. ASSUME NEW s \in MockScenarios, NEW stamp \in 1..MaxStamp, Mock!OnRoute(Mock!RouteFor(s), stamp)
      PROVE  MockInv'
  <2> DEFINE route == Mock!RouteFor(s)
             new == [route |-> route, stamp |-> stamp]
  <2> HIDE DEF route
  <2>1. UNCHANGED <<s1, s3>>  BY <1>3 DEF Mock!OnRoute
  <2>2. stamp \in Nat /\ stamp > 0 /\ new.stamp = stamp  BY NodesAssumption
  <2>3. \/ s2' = [s2 EXCEPT !.stamp = stamp, !.published = route] /\ stamp >= s2.stamp /\ s4' = s4 \cup {new}
        \/ s2' = s2 /\ ~(stamp >= s2.stamp) /\ s4' = s4 \cup {new}
        \/ s2' = s2 /\ s4' = s4
      BY <1>3 DEF Mock!OnRoute, Mock!NotStale, route
  <2>4. /\ DOMAIN s2' = {"sid", "expected", "stamp", "published"}
        /\ s2'.stamp \in Nat /\ \A p \in s4' : p.stamp \in Nat
        /\ s2'.stamp > 0 => [route |-> s2'.published, stamp |-> s2'.stamp] \in s4'
        /\ Mock!NewestMatching'
    <3>1. CASE s2' = [s2 EXCEPT !.stamp = stamp, !.published = route] /\ stamp >= s2.stamp /\ s4' = s4 \cup {new}
      <4>1. s2'.stamp = stamp /\ s2'.published = route /\ DOMAIN s2' = {"sid", "expected", "stamp", "published"}
          BY <3>1 DEF MockInv
      <4>2. \A p \in s4' : p.stamp \in Nat /\ p.stamp <= stamp
          BY <2>2, <3>1 DEF MockInv, Mock!NewestMatching
      <4> QED  BY <2>2, <3>1, <4>1, <4>2 DEF Mock!NewestMatching
    <3>2. CASE s2' = s2 /\ ~(stamp >= s2.stamp) /\ s4' = s4 \cup {new}
        BY <2>2, <3>2 DEF MockInv, Mock!NewestMatching
    <3>3. CASE s2' = s2 /\ s4' = s4
        BY <3>3 DEF MockInv, Mock!NewestMatching
    <3> QED  BY <2>3, <3>1, <3>2, <3>3
  <2>5. MockMoves  BY <2>1 DEF MockMoves
  <2>6. /\ DOMAIN s1' = MockFields /\ s1'.active \in BOOLEAN /\ s3' \in BOOLEAN /\ Mock!ActiveFollows'
        /\ s1'.sid \in MockScenarios \cup {NoScenario} /\ s1'.config \in {Mock!NoRoute, Mock!Configured}
        /\ Mock!RouteOfScenario'
      BY <2>1, <2>5, MockMoved DEF MockInv, Mock!ActiveFollows
  <2> QED  BY <2>4, <2>6, Zenon DEF MockInv
<1>4. CASE Mock!OnReplanRequest \/ Mock!OnRouteTimer
  <2>1. UNCHANGED <<s2, s3, s4>>  BY <1>4 DEF Mock!OnReplanRequest, Mock!OnRouteTimer
  <2>2. (s1.active /\ s1.enabled /\ s1' = PublishedNow) \/ s1' = s1
      BY <1>4 DEF Mock!OnReplanRequest, Mock!OnRouteTimer, Mock!PublishRoute, PublishedNow, PublishedRoute
  <2>4. DOMAIN s1 = MockFields  BY DEF MockInv
  <2>5. MockMoves /\ s1'.active = s1.active  BY <2>2, <2>4 DEF MockMoves, MockFields, PublishedNow
  <2>3. Mock!ActiveFollows' /\ s3 \in BOOLEAN  BY <2>1, <2>5 DEF Mock!ActiveFollows, MockInv
  <2> QED  BY <2>1, <2>5, <2>3, MockKeeps
<1> QED  BY <1>1, <1>2, <1>3, <1>4 DEF Mock!Next

LEMMA MockPromise == MockInv => Mock!ActiveFollows /\ Mock!RouteOfScenario /\ Mock!NewestMatching
BY DEF MockInv
-----------------------------------------------------------------------------
(* The wind.                                                                *)

(* From a configure on the generator has given two draws for every second of  *)
(* wind, and none before the activation.                                      *)
WindInv ==
    /\ s1 \in {"unconfigured", "inactive", "active"}
    /\ s4 \in Nat /\ s5 \in Nat
    /\ s6 /\ s1 # "active" => s4 = 0
    /\ s6 /\ s1 = "active" => s4 = IF s2 = 0 THEN 0 ELSE 2 * s5
    /\ Wind!WindReplays

LEMMA WindInit == Wind!Init => WindInv
BY DEF Wind!Init, WindInv, Wind!WindReplays

LEMMA WindStep == WindInv /\ Wind!Next => WindInv'
<1> SUFFICES ASSUME WindInv, Wind!Next PROVE WindInv'
    OBVIOUS
<1>1. CASE Wind!OnConfigure \/ Wind!OnDeactivate \/ Wind!OnCleanup
    BY <1>1 DEF Wind!OnConfigure, Wind!OnDeactivate, Wind!OnCleanup, WindInv, Wind!WindReplays
<1>2. CASE Wind!OnActivate
  <2>1. /\ s1 = "inactive" /\ s1' = "active" /\ s3' = [from |-> s2, draws |-> <<>>] /\ s5' = 0
        /\ UNCHANGED <<s2, s4, s6>>
      BY <1>2 DEF Wind!OnActivate, Wind!ActivatedWind, Wind!Started
  <2>2. [k \in 1..0 |-> 2 * (k - 1)] = <<>>  OBVIOUS
  <2>3. Wind!WindReplays'  BY <2>1, <2>2 DEF Wind!WindReplays
  <2> QED  BY <2>1, <2>3 DEF WindInv
<1>3. CASE Wind!StepCallback
  <2>1. /\ s1 = "active" /\ s1' = "active" /\ s5' = s5 + 1 /\ UNCHANGED <<s2, s6>>
        /\ IF s2 = 0 THEN s3' = [from |-> 0, draws |-> <<>>] /\ s4' = s4
           ELSE s3' = [s3 EXCEPT !.draws = Append(s3.draws, s4)] /\ s4' = s4 + 2
      BY <1>3 DEF Wind!StepCallback, Wind!Started
  <2>2. s4 \in Nat /\ s5 \in Nat /\ (s6 => s4 = IF s2 = 0 THEN 0 ELSE 2 * s5)
      BY <2>1 DEF WindInv
  <2>3. s4' \in Nat /\ s5' \in Nat /\ (s6 => s4' = IF s2 = 0 THEN 0 ELSE 2 * s5')
      BY <2>1, <2>2
  <2>4. ASSUME s6, s2 # 0
        PROVE  s3' = [from |-> s2, draws |-> [k \in 1..s5' |-> 2 * (k - 1)]]
    <3> DEFINE before == [k \in 1..s5 |-> 2 * (k - 1)]
    <3>1. s3 = [from |-> s2, draws |-> before]  BY <2>1, <2>4 DEF WindInv, Wind!WindReplays
    <3>2. s3' = [from |-> s2, draws |-> Append(before, 2 * s5)]  BY <2>1, <2>2, <2>4, <3>1, Zenon
    <3>3. before \in Seq(Nat) /\ Len(before) = s5
      <4>1. \A k \in 1..s5 : 2 * (k - 1) \in Nat  BY <2>2
      <4> QED  BY <2>2, <4>1
    <3>4. Append(before, 2 * s5) = [k \in 1..(s5 + 1) |-> 2 * (k - 1)]
      <4>1. \A k \in 1..(s5 + 1) : Append(before, 2 * s5)[k] = 2 * (k - 1)  BY <2>2, <3>3, AppendProperties
      <4> QED  BY <2>2, <3>3, <4>1
    <3> QED  BY <2>1, <3>2, <3>4, Zenon
  <2>5. Wind!WindReplays'
      BY <2>1, <2>4 DEF Wind!WindReplays
  <2> QED  BY <2>1, <2>3, <2>5 DEF WindInv
<1> QED  BY <1>1, <1>2, <1>3 DEF Wind!Next

LEMMA WindPromise == WindInv => Wind!WindReplays
BY DEF WindInv
-----------------------------------------------------------------------------
(* The ship dynamics.                                                       *)

LEMMA DivMod ==
    ASSUME NEW a \in Int, NEW d \in Nat \ {0}
    PROVE  a \div d \in Int /\ a % d \in 0..(d - 1) /\ a = d * (a \div d) + (a % d)
<1>1. a \div d \in Int  OBVIOUS
<1>2. a % d \in 0..(d - 1)  OBVIOUS
<1>3. a = d * (a \div d) + (a % d)  OBVIOUS
<1> QED  BY <1>1, <1>2, <1>3

(* A whole number of d apart.                                                *)
Apart(x, y, d) == (x - y) % d = 0

LEMMA ApartIs ==
    ASSUME NEW x \in Int, NEW y \in Int, NEW d \in Nat \ {0}, Apart(x, y, d)
    PROVE  \E k \in Int : x = y + k * d
<1>1. PICK a \in Int : a = x - y  OBVIOUS
<1>2. a % d = 0  BY <1>1 DEF Apart
<1>3. a \div d \in Int /\ a = d * (a \div d)  BY <1>2, DivMod
<1> QED  BY <1>1, <1>3

LEMMA PeriodsBetween ==
    \A x, y \in Int : Apart(x, y, Period) => \E k \in Int : x = y + k * Period
<1> SUFFICES ASSUME NEW x \in Int, NEW y \in Int, Apart(x, y, Period) PROVE \E k \in Int : x = y + k * Period
    OBVIOUS
<1> QED  BY ApartIs, NodesAssumption

LEMMA IsApart ==
    ASSUME NEW x \in Int, NEW y \in Int, NEW d \in Nat \ {0}, \E k \in Int : x = y + k * d
    PROVE  Apart(x, y, d)
<1>1. PICK k \in Int : x = y + k * d  OBVIOUS
<1>2. (k * d) % d = 0 /\ x - y = k * d  BY <1>1
<1> QED  BY <1>2 DEF Apart

LEMMA ApartJoins ==
    ASSUME NEW x \in Int, NEW y \in Int, NEW z \in Int, NEW d \in Nat \ {0}
    PROVE  /\ Apart(x, y, d) /\ Apart(y, z, d) => Apart(x, z, d)
           /\ Apart(x, z, d) /\ Apart(y, z, d) => Apart(x, y, d)
           /\ Apart(x, y, d) /\ Apart(x, z, d) => Apart(y, z, d)
<1>1. ASSUME Apart(x, y, d), Apart(y, z, d) PROVE Apart(x, z, d)
  <2>1. (\E k \in Int : x = y + k * d) /\ (\E k \in Int : y = z + k * d)  BY <1>1, ApartIs, Zenon
  <2>2. PICK j \in Int, k \in Int : x = y + j * d /\ y = z + k * d  BY <2>1, Zenon
  <2>3. x = z + (j + k) * d /\ j + k \in Int  BY <2>2
  <2> QED  BY <2>3, IsApart
<1>2. ASSUME Apart(x, z, d), Apart(y, z, d) PROVE Apart(x, y, d)
  <2>1. (\E k \in Int : x = z + k * d) /\ (\E k \in Int : y = z + k * d)  BY <1>2, ApartIs
  <2>2. PICK j \in Int, k \in Int : x = z + j * d /\ y = z + k * d  BY <2>1, Zenon
  <2>3. x = y + (j - k) * d /\ j - k \in Int  BY <2>2
  <2> QED  BY <2>3, IsApart
<1>3. ASSUME Apart(x, y, d), Apart(x, z, d) PROVE Apart(y, z, d)
  <2>1. (\E k \in Int : x = y + k * d) /\ (\E k \in Int : x = z + k * d)  BY <1>3, ApartIs, Zenon
  <2>2. PICK j \in Int, k \in Int : x = y + j * d /\ x = z + k * d  BY <2>1, Zenon
  <2>3. y = z + (k - j) * d /\ k - j \in Int  BY <2>2
  <2> QED  BY <2>3, IsApart
<1> QED  BY <1>1, <1>2, <1>3

LEMMA OneApart ==
    ASSUME NEW x \in Int, NEW y \in Int, NEW d \in Nat \ {0}, x = y + d
    PROVE  Apart(x, y, d)
<1>1. x = y + 1 * d  OBVIOUS
<1> QED  BY <1>1, IsApart

(* As many steps as fit.                                                      *)
LEMMA StepsThatFit ==
    ASSUME NEW c \in Nat, NEW d \in Nat \ {0}, c >= d, NEW n, n = c \div d
    PROVE  n \in Int /\ n > 0 /\ n * d <= c /\ n * d > 0
<1>1. n \in Int /\ c % d \in 0..(d - 1) /\ c = d * n + (c % d)  BY DivMod
<1>2. PICK r \in 0..(d - 1) : c = d * n + r  BY <1>1
<1>3. d * n \in Int /\ d * n <= c /\ d * n > 0  BY <1>1, <1>2
<1>4. n > 0  BY <1>1, <1>3
<1> QED  BY <1>1, <1>3, <1>4

LEMMA EarlierMultiple ==
    ASSUME NEW j \in Int, NEW k \in Int, NEW d \in Nat \ {0}, j * d < k * d
    PROVE  j * d <= k * d - d
OBVIOUS

(* Periods apart is steps apart.                                             *)
LEMMA PeriodsApart ==
    ASSUME NEW x \in Int, NEW y \in Int, Apart(x, y, Period)
    PROVE  Apart(x, y, Dt)
<1> USE NodesAssumption
<1>1. PICK a \in Int : a = Period /\ a % Dt = 0  OBVIOUS
<1>2. PICK p \in Int : Period = p * Dt
  <2>1. PICK p \in Int : a = Dt * p + (a % Dt)  BY DivMod, Zenon
  <2>2. a = p * Dt  BY <1>1, <2>1
  <2> QED  BY <1>1, <2>2
<1>3. PICK k \in Int : x = y + k * Period  BY ApartIs
<1>4. x = y + (k * p) * Dt /\ k * p \in Int  BY <1>2, <1>3
<1> QED  BY <1>4, IsApart

(* The stamps one callback publishes, from the first that is due on: each but *)
(* the first has another one a period before it and none between, and the     *)
(* last is less than a period before the time reached.                        *)
Stamps(L, T, from) == {t \in (L + 1)..T : t >= from /\ Apart(t, L, Dt) /\ Apart(t, from, Period)}

LEMMA StampsSpaced ==
    ASSUME NEW L \in Nat, NEW T \in Nat, NEW from \in Int, from > L,
           NEW u \in Stamps(L, T, from), u # from
    PROVE  /\ u - Period \in Stamps(L, T, from)
           /\ \A t \in Stamps(L, T, from) : t < u => t <= u - Period
<1> USE NodesAssumption
<1>1. u \in Int /\ u > L /\ u <= T /\ u >= from /\ Apart(u, L, Dt) /\ Apart(u, from, Period)
    BY DEF Stamps
<1>2. PICK k \in Int : u = from + k * Period  BY <1>1, ApartIs
<1>3. 0 * Period < k * Period  BY <1>1, <1>2
<1>4. 0 <= k * Period - Period  BY <1>3, EarlierMultiple
<1>5. PICK v \in Int : v = u - Period  BY <1>1
<1>6. v >= from /\ v > L /\ v <= T  BY <1>1, <1>2, <1>4, <1>5
<1>7. Apart(u, v, Period)  BY <1>1, <1>5, OneApart
<1>8. Apart(v, from, Period)  BY <1>1, <1>7, ApartJoins
<1>9. Apart(v, L, Dt)
  <2>1. Apart(u, v, Dt)  BY <1>1, <1>7, PeriodsApart
  <2> QED  BY <1>1, <2>1, ApartJoins
<1>10. ASSUME NEW t \in Stamps(L, T, from), t < u PROVE t <= v
  <2>1. t \in Int /\ Apart(t, from, Period)  BY DEF Stamps
  <2>2. PICK j \in Int : t = from + j * Period  BY <2>1, ApartIs
  <2>3. j * Period < k * Period  BY <1>1, <1>2, <1>10, <2>1, <2>2
  <2>4. j * Period <= k * Period - Period  BY <2>3, EarlierMultiple
  <2> QED  BY <1>1, <1>2, <1>5, <2>1, <2>2, <2>4
<1>11. v \in Stamps(L, T, from)
  <2>1. v \in (L + 1)..T  BY <1>6
  <2> QED  BY <1>6, <1>8, <1>9, <2>1 DEF Stamps
<1> QED  BY <1>5, <1>10, <1>11

LEMMA StampsReach ==
    ASSUME NEW L \in Nat, NEW T \in Nat, Apart(T, L, Dt), NEW from \in Int, from > L, Apart(from, L, Dt),
           from <= T
    PROVE  \E m \in Stamps(L, T, from) : /\ \A u \in Stamps(L, T, from) : u <= m
                                         /\ m + Period > T /\ Apart(T, m, Dt)
<1> USE NodesAssumption
<1>1. PICK a \in Int : a = T - from  OBVIOUS
<1>2. PICK q \in Int : a = Period * q + (a % Period)  BY DivMod, Zenon
<1>3. PICK r \in 0..(Period - 1) : a = Period * q + r  BY <1>2, DivMod, Zenon
<1>4. PICK m \in Int : m = from + q * Period  OBVIOUS
<1>5. T = m + r  BY <1>1, <1>3, <1>4
<1>6. m <= T /\ m + Period > T  BY <1>5
<1>7. m >= from
  <2>1. 0 * Period < (q + 1) * Period  BY <1>1, <1>3
  <2>2. 0 * Period <= (q + 1) * Period - Period  BY <2>1, EarlierMultiple
  <2> QED  BY <1>4, <2>2
<1>8. Apart(m, from, Period)  BY <1>4, IsApart
<1>9. Apart(m, L, Dt)
  <2>1. Apart(m, from, Dt)  BY <1>8, PeriodsApart
  <2> QED  BY <2>1, ApartJoins
<1>10. Apart(T, m, Dt)  BY <1>9, ApartJoins
<1>11. m \in Stamps(L, T, from)
  <2>1. m \in (L + 1)..T  BY <1>6, <1>7
  <2> QED  BY <1>7, <1>8, <1>9, <2>1 DEF Stamps
<1>12. ASSUME NEW u \in Stamps(L, T, from) PROVE u <= m
  <2>1. u \in Int /\ u <= T /\ Apart(u, from, Period)  BY DEF Stamps
  <2>2. PICK k \in Int : u = from + k * Period  BY <2>1, PeriodsBetween, Zenon
  <2>3. k * Period < (q + 1) * Period  BY <1>4, <1>6, <2>1, <2>2
  <2>4. k * Period <= (q + 1) * Period - Period  BY <2>3, EarlierMultiple
  <2> QED  BY <1>4, <2>1, <2>2, <2>4
<1> QED  BY <1>6, <1>10, <1>11, <1>12

LEMMA LatestIs ==
    ASSUME NEW S \in SUBSET Int, NEW m \in S, \A u \in S : u <= m
    PROVE  Ship!Latest(S) = m
<1>1. \A t \in S : (\A u \in S : u <= t) => t = m  OBVIOUS
<1> QED  BY <1>1, Zenon DEF Ship!Latest

(* The model is at the first clock it read and a whole number of steps, not   *)
(* ahead of the clock, and less than a period of steps after the last         *)
(* publication; a node that is not active has forgotten both.                 *)
ShipStepped ==
    /\ s3 \in Nat /\ s5 \in Nat \cup {-1} /\ s11 \in Nat
    /\ s5 # -1 => s1 = "active" /\ s10 \in Nat /\ s5 = s10 + s11 * Dt /\ s5 <= s3
    /\ s1 = "active" /\ s5 = -1 => s11 = 0

ShipPublished ==
    /\ s6 \in Nat \cup {-1}
    /\ s6 # -1 => s5 # -1 /\ s6 <= s5 /\ s5 < s6 + Period /\ Apart(s5, s6, Dt)
    /\ s12 \subseteq {Period}

ShipInv == ShipStepped /\ ShipPublished

LEMMA ShipInit == Ship!Init => ShipInv
BY DEF Ship!Init, Ship!None, ShipInv, ShipStepped, ShipPublished

(* One callback after the first: n steps at once, to the time T; what is due  *)
(* first is a period after the last publication, or the first step.           *)
LEMMA ShipCatchesUp ==
    ASSUME ShipInv, s5 # -1, s3 - s5 >= Dt, NEW n, n = (s3 - s5) \div Dt, NEW pub, pub = Ship!Published(n),
           s5' = s5 + n * Dt, s11' = s11 + n, s6' = (IF pub = {} THEN s6 ELSE Ship!Latest(pub)),
           s12' = s12 \cup {u - Ship!Latest({t \in pub \cup {s6} : t < u /\ t # -1}) :
                              u \in {v \in pub : \E t \in pub \cup {s6} : t < v /\ t # -1}},
           UNCHANGED <<s1, s3, s10>>
    PROVE  ShipInv'
<1> USE NodesAssumption
<1>1. s3 \in Nat /\ s5 \in Nat /\ s11 \in Nat /\ s10 \in Nat /\ s1 = "active" /\ s5 = s10 + s11 * Dt
    BY DEF ShipInv, ShipStepped
<1>2. /\ s6 \in Nat \cup {-1} /\ (s6 # -1 => s6 <= s5 /\ s5 < s6 + Period /\ Apart(s5, s6, Dt))
      /\ s12 \subseteq {Period}
    BY DEF ShipInv, ShipPublished
<1>3. PICK c \in Nat : c = s3 - s5 /\ c >= Dt  BY <1>1
<1>4. n \in Int /\ n * Dt <= c /\ n > 0 /\ n * Dt > 0  BY <1>3, StepsThatFit
<1>5. PICK T \in Nat : T = s5 + n * Dt /\ T <= s3 /\ s5' = T /\ T > s5
  <2>1. n * Dt \in Int  BY <1>4
  <2> QED  BY <1>1, <1>3, <1>4, <2>1
<1>6. Apart(T, s5, Dt)
  <2>1. \E k \in Int : T = s5 + k * Dt  BY <1>4, <1>5
  <2>2. T \in Int /\ s5 \in Int /\ Dt \in Nat \ {0}  BY <1>1
  <2> HIDE NodesAssumption
  <2> QED  BY <2>1, <2>2, IsApart
<1>7. PICK from \in Int : from = IF s6 = -1 THEN s5 + Dt ELSE s6 + Period  BY <1>1, <1>2
<1>8. from > s5 /\ Apart(from, s5, Dt) /\ (s6 # -1 => from = s6 + Period)
  <2>1. CASE s6 = -1
    <3>1. from = s5 + Dt /\ from > s5  BY <1>1, <1>7, <2>1
    <3> QED  BY <1>1, <2>1, <3>1, OneApart
  <2>2. CASE s6 # -1
    <3>1. s6 \in Int /\ from = s6 + Period /\ from > s5  BY <1>1, <1>2, <1>7, <2>2
    <3>2. Apart(from, s6, Dt) /\ Apart(s5, s6, Dt)  BY <1>2, <2>2, <3>1, OneApart, PeriodsApart, Zenon
    <3>3. Apart(from, s5, Dt)  BY <1>1, <3>1, <3>2, ApartJoins
    <3> QED  BY <3>1, <3>3
  <2> QED  BY <2>1, <2>2
<1>9. pub = Stamps(s5, T, from)  BY <1>5, <1>7 DEF Ship!Published, Ship!None, Stamps, Apart
<1>10. \A u \in pub : u \in Nat /\ u >= from /\ u > s5 /\ u <= T  BY <1>1, <1>5, <1>9 DEF Stamps
<1>11. pub \in SUBSET Int  BY <1>10
<1>12. /\ s6' \in Nat \cup {-1}
       /\ s6' # -1 => s6' <= T /\ T < s6' + Period /\ Apart(T, s6', Dt)
  <2>1. CASE from <= T
    <3>1. PICK m \in pub : (\A u \in pub : u <= m) /\ m + Period > T /\ Apart(T, m, Dt)
        BY <1>1, <1>6, <1>8, <1>9, <2>1, StampsReach
    <3>2. Ship!Latest(pub) = m  BY <1>11, <3>1, LatestIs
    <3>3. s6' = m /\ m \in Nat /\ m <= T  BY <1>10, <3>1, <3>2
    <3> QED  BY <3>1, <3>3
  <2>2. CASE from > T
    <3>1. pub = {}  BY <1>10, <2>2
    <3>2. s6' = s6  BY <3>1
    <3>3. ASSUME s6 # -1 PROVE s6 <= T /\ T < s6 + Period /\ Apart(T, s6, Dt)
      <4>1. s6 \in Nat /\ from = s6 + Period /\ s6 <= s5 /\ Apart(s5, s6, Dt)  BY <1>2, <1>8, <3>3
      <4>2. s6 <= T /\ T < s6 + Period  BY <1>1, <1>5, <2>2, <4>1
      <4>3. Apart(T, s6, Dt)  BY <1>1, <1>6, <4>1, ApartJoins
      <4> QED  BY <4>2, <4>3
    <3> QED  BY <1>2, <3>2, <3>3, Zenon
  <2> QED  BY <2>1, <2>2
<1>13. ASSUME NEW u \in pub, \E t \in pub \cup {s6} : t < u /\ t # -1
       PROVE  u - Ship!Latest({t \in pub \cup {s6} : t < u /\ t # -1}) = Period
  <2> DEFINE before == {t \in pub \cup {s6} : t < u /\ t # -1}
  <2>1. before \in SUBSET Int  BY <1>2, <1>10
  <2>2. CASE u = from
    <3>1. \A t \in before : t = s6 /\ s6 # -1  BY <1>10, <2>2
    <3>2. s6 \in before /\ s6 # -1  BY <1>13, <3>1
    <3>3. from = s6 + Period /\ s6 \in Nat  BY <1>2, <1>8, <3>2
    <3>4. \A t \in before : t <= s6  BY <3>1, <3>3
    <3> HIDE DEF before
    <3>5. Ship!Latest(before) = s6  BY <2>1, <3>2, <3>4, LatestIs
    <3>6. u - s6 = Period  BY <2>2, <3>3
    <3> QED  BY <3>5, <3>6 DEF before
  <2>3. CASE u # from
    <3>1. u - Period \in pub /\ \A t \in pub : t < u => t <= u - Period
        BY <1>1, <1>8, <1>9, <2>3, StampsSpaced
    <3>2. u \in Nat /\ u >= from /\ u - Period \in Nat  BY <1>10, <3>1
    <3>3. s6 # -1 => s6 <= u - Period  BY <1>2, <1>8, <3>2
    <3>4. u - Period \in before  BY <3>1, <3>2
    <3>5. \A t \in before : t <= u - Period  BY <3>1, <3>3
    <3> HIDE DEF before
    <3>6. Ship!Latest(before) = u - Period  BY <2>1, <3>4, <3>5, LatestIs, Zenon
    <3>7. u - (u - Period) = Period  BY <3>2
    <3> QED  BY <3>6, <3>7 DEF before
  <2> QED  BY <2>2, <2>3
<1>14. s12' \subseteq {Period}
  <2>1. ASSUME NEW g \in s12' \ s12 PROVE g = Period
    <3>1. PICK u \in pub : /\ \E t \in pub \cup {s6} : t < u /\ t # -1
                           /\ g = u - Ship!Latest({t \in pub \cup {s6} : t < u /\ t # -1})
        BY <2>1
    <3> QED  BY <1>13, <3>1
  <2> QED  BY <1>2, <2>1, Zenon
<1>15. ShipStepped'
  <2>1. (s11 + n) * Dt = s11 * Dt + n * Dt  BY <1>1, <1>4
  <2>2. s5' = s10' + s11' * Dt  BY <1>1, <1>4, <1>5, <2>1
  <2>3. s11' \in Nat /\ s5' \in Nat /\ s5' <= s3'  BY <1>1, <1>4, <1>5
  <2> QED  BY <1>1, <2>2, <2>3 DEF ShipStepped
<1>16. ShipPublished'
  <2>1. Apart(s5, s6, Dt)' <=> Apart(T, s6', Dt)  BY <1>5 DEF Apart
  <2>2. s5' = T /\ T # -1  BY <1>5
  <2> HIDE DEF Apart
  <2> QED  BY <1>12, <1>14, <2>1, <2>2, Zenon DEF ShipPublished
<1> QED  BY <1>15, <1>16 DEF ShipInv

LEMMA ShipStep == ShipInv /\ Ship!Next => ShipInv'
<1> SUFFICES ASSUME ShipInv, Ship!Next PROVE ShipInv'
    OBVIOUS
<1> USE NodesAssumption
<1>1. CASE Ship!OnConfigure
  <2>1. UNCHANGED <<s5, s6, s10, s11, s12>> /\ s3' = 0 /\ s1 = "unconfigured" /\ s1' \in {"unconfigured", "inactive"}
      BY <1>1 DEF Ship!OnConfigure
  <2> QED  BY <2>1 DEF ShipInv, ShipStepped, ShipPublished
<1>2. CASE Ship!OnActivate
  <2>1. UNCHANGED <<s3, s5, s6>> /\ s1 = "inactive" /\ s11' = 0 /\ s12' = {}
      BY <1>2 DEF Ship!OnActivate
  <2>2. s5 = -1 /\ s6 = -1 /\ s3 \in Nat  BY <2>1 DEF ShipInv, ShipStepped, ShipPublished
  <2> QED  BY <2>1, <2>2 DEF ShipInv, ShipStepped, ShipPublished
<1>3. CASE Ship!OnDeactivate \/ Ship!OnCleanup
  <2>1. UNCHANGED <<s3, s11, s12>> /\ s1' # "active" /\ s5' = -1 /\ s6' = -1
      BY <1>3 DEF Ship!OnDeactivate, Ship!OnCleanup, Ship!None
  <2> QED  BY <2>1 DEF ShipInv, ShipStepped, ShipPublished
<1>4. ASSUME UNCHANGED <<s1, s5, s6, s10, s11, s12>>, s3' \in Nat, s3' >= s3 PROVE ShipInv'
    BY <1>4 DEF ShipInv, ShipStepped, ShipPublished
<1>5. CASE Ship!ActuatorCallback
    BY <1>4, <1>5 DEF Ship!ActuatorCallback, ShipInv, ShipStepped
<1>6. ASSUME NEW plan, Ship!OnAvoidancePlan(plan) PROVE ShipInv'
    BY <1>4, <1>6 DEF Ship!OnAvoidancePlan, ShipInv, ShipStepped
<1>7. CASE Ship!ClockRuns
  <2>1. PICK k \in 1..(2 * Period) : s3' = s3 + k  BY <1>7 DEF Ship!ClockRuns
  <2>2. s3' \in Nat /\ s3' >= s3  BY <2>1 DEF ShipInv, ShipStepped
  <2> QED  BY <1>4, <1>7, <2>2 DEF Ship!ClockRuns
<1>8. CASE Ship!StepCallback
  <2>1. CASE s5 = -1
    <3>1. s5' = s3 /\ s10' = s3 /\ s1 = "active" /\ UNCHANGED <<s1, s3, s6, s11, s12>>
        BY <1>8, <2>1 DEF Ship!StepCallback, Ship!None
    <3>2. s3 \in Nat /\ s11 = 0 /\ s6 = -1  BY <2>1, <3>1 DEF ShipInv, ShipStepped, ShipPublished
    <3>3. s3 = s3 + 0 * Dt  BY <3>2
    <3> QED  BY <3>1, <3>2, <3>3 DEF ShipInv, ShipStepped, ShipPublished
  <2>2. CASE s5 # -1
      BY <1>8, <2>2, ShipCatchesUp, Zenon DEF Ship!StepCallback, Ship!Stepped, Ship!None
  <2> QED  BY <2>1, <2>2
<1> QED  BY <1>1, <1>2, <1>3, <1>5, <1>6, <1>7, <1>8 DEF Ship!Next

LEMMA ShipPromise == ShipInv => Ship!TimeIntegrated /\ Ship!EvenCadence
BY DEF ShipInv, ShipStepped, ShipPublished, Ship!TimeIntegrated, Ship!EvenCadence, Ship!None
-----------------------------------------------------------------------------
(* The scoring node.                                                        *)

Frames ==
    {Scorer!ScoreFrame(held, grades, 0, 120, rudder, "transit", 0, 0) :
        held \in SUBSET Distances, grades \in RuleStates \cup {{}}, rudder \in {0, 35}}
ScoreRows == Seq([n : Nat, frame : Frames])

(* The newest messages are the end of the list that is held, and as many as   *)
(* are kept.                                                                  *)
HeldInv ==
    /\ s3 \in Seq(Distances) /\ s9 \in Seq(Distances)
    /\ Len(s9) <= Len(s3) /\ Len(s9) <= KeepTargets
    /\ \A i \in 1..Len(s9) : s9[i] = s3[(Len(s3) - Len(s9)) + i]

(* What the writer has written since it opened the file and what it still     *)
(* holds are the rows of the activation; until it opens it the file is the    *)
(* last one's.                                                               *)
Written == IF s5.open THEN s6 ELSE <<>>

FileTypes ==
    /\ s4 \in RuleStates \cup {{}}
    /\ s5 \in [open : BOOLEAN, buf : ScoreRows, there : BOOLEAN]
    /\ s6 \in ScoreRows /\ s7 \in ScoreRows /\ s8 \in ScoreRows

FileTiles ==
    /\ Written \o s5.buf = s7
    /\ s7 = <<>> => ~s5.open /\ s6 = s8
    /\ s7 # <<>> => s8 = s7

ScorerInv ==
    /\ HeldInv /\ FileTypes
    /\ s1 = "active" => FileTiles
    /\ s1 # "active" => s6 = s8

LEMMA ScorerInit == Scorer!Init => ScorerInv
<1> SUFFICES ASSUME Scorer!Init PROVE ScorerInv
    OBVIOUS
<1>1. s1 = "unconfigured" /\ s3 = <<>> /\ s4 = {} /\ s6 = <<>> /\ s7 = <<>> /\ s8 = <<>> /\ s9 = <<>>
      /\ s5 = [open |-> FALSE, buf |-> <<>>, there |-> FALSE]
    BY DEF Scorer!Init, Scorer!NoWriter
<1>2. HeldInv
  <2>1. <<>> \in Seq(Distances) /\ Len(s9) = 0 /\ Len(s3) = 0  BY <1>1
  <2> QED  BY <1>1, <2>1, NodesAssumption DEF HeldInv
<1>3. <<>> \in ScoreRows  BY DEF ScoreRows
<1>4. FileTypes  BY <1>1, <1>3 DEF FileTypes
<1> QED  BY <1>1, <1>2, <1>4 DEF ScorerInv

(* A target message: the list may be cut back to its end.                     *)
LEMMA ScorerHears ==
    ASSUME HeldInv, Scorer!TargetVesselCb
    PROVE  HeldInv'
<1> USE NodesAssumption
<1>1. PICK d \in Distances :
          /\ s3' = Scorer!Held(Append(s3, d))
          /\ s9' = IF Len(s9) < KeepTargets THEN Append(s9, d) ELSE Append(Tail(s9), d)
    BY DEF Scorer!TargetVesselCb
<1>2. /\ s3 \in Seq(Distances) /\ s9 \in Seq(Distances) /\ Len(s9) <= Len(s3) /\ Len(s9) <= KeepTargets
      /\ \A i \in 1..Len(s9) : s9[i] = s3[(Len(s3) - Len(s9)) + i]
    BY DEF HeldInv
<1>3. PICK list \in Seq(Distances) : list = Append(s3, d)  BY <1>2, AppendProperties, Zenon
<1>4. Len(list) = Len(s3) + 1 /\ (\A i \in 1..Len(s3) : list[i] = s3[i]) /\ list[Len(s3) + 1] = d
    BY <1>2, <1>3, AppendProperties
<1>5. /\ s9' \in Seq(Distances) /\ Len(s9') <= Len(list) /\ Len(s9') <= KeepTargets
      /\ \A i \in 1..Len(s9') : s9'[i] = list[(Len(list) - Len(s9')) + i]
  <2>1. CASE Len(s9) < KeepTargets
    <3>1. s9' = Append(s9, d)  BY <1>1, <2>1
    <3>2. /\ s9' \in Seq(Distances) /\ Len(s9') = Len(s9) + 1 /\ s9'[Len(s9) + 1] = d
          /\ \A i \in 1..Len(s9) : s9'[i] = s9[i]
        BY <1>2, <3>1, AppendProperties
    <3>3. Len(s9) \in Nat /\ Len(s3) \in Nat  BY <1>2
    <3>4. ASSUME NEW i \in 1..Len(s9') PROVE s9'[i] = list[(Len(list) - Len(s9')) + i]
      <4>1. CASE i = Len(s9) + 1
        <5>1. (Len(list) - Len(s9')) + i = Len(s3) + 1  BY <1>4, <3>2, <3>3, <4>1
        <5> QED  BY <1>4, <3>2, <4>1, <5>1
      <4>2. CASE i # Len(s9) + 1
        <5>1. i \in 1..Len(s9)  BY <3>2, <3>3, <4>2
        <5>2. (Len(list) - Len(s9')) + i = (Len(s3) - Len(s9)) + i  BY <1>4, <3>2, <3>3
        <5>3. (Len(s3) - Len(s9)) + i \in 1..Len(s3)  BY <1>2, <3>3, <5>1
        <5> QED  BY <1>2, <1>4, <3>2, <5>1, <5>2, <5>3, Zenon
      <4> QED  BY <4>1, <4>2
    <3> QED  BY <1>2, <1>4, <2>1, <3>2, <3>3, <3>4
  <2>2. CASE ~(Len(s9) < KeepTargets)
    <3>1. Len(s9) = KeepTargets /\ Len(s9) \in Nat /\ Len(s3) \in Nat /\ s9 # <<>>  BY <1>2, <2>2
    <3>2. PICK rest \in Seq(Distances) : rest = Tail(s9)  BY <1>2, <3>1, HeadTailProperties, Zenon
    <3>3. Len(rest) = Len(s9) - 1 /\ \A i \in 1..Len(rest) : rest[i] = s9[i + 1]
        BY <1>2, <3>1, <3>2, HeadTailProperties
    <3>4. s9' = Append(rest, d)  BY <1>1, <2>2, <3>2
    <3>5. /\ s9' \in Seq(Distances) /\ Len(s9') = Len(s9) /\ s9'[Len(s9)] = d
          /\ \A i \in 1..Len(rest) : s9'[i] = rest[i]
      <4>1. s9' \in Seq(Distances) /\ Len(s9') = Len(rest) + 1 /\ s9'[Len(rest) + 1] = d
            /\ \A i \in 1..Len(rest) : s9'[i] = rest[i]
          BY <3>2, <3>4, AppendProperties
      <4>2. Len(rest) + 1 = Len(s9)  BY <3>1, <3>3
      <4> QED  BY <4>1, <4>2
    <3>6. ASSUME NEW i \in 1..Len(s9') PROVE s9'[i] = list[(Len(list) - Len(s9')) + i]
      <4>1. CASE i = Len(s9)
        <5>1. (Len(list) - Len(s9')) + i = Len(s3) + 1  BY <1>4, <3>1, <3>5, <4>1
        <5> QED  BY <1>4, <3>5, <4>1, <5>1
      <4>2. CASE i # Len(s9)
        <5>1. i \in 1..Len(rest) /\ i + 1 \in 1..Len(s9)  BY <3>1, <3>3, <3>5, <4>2
        <5>2. (Len(list) - Len(s9')) + i = (Len(s3) - Len(s9)) + (i + 1)  BY <1>4, <3>1, <3>5, <5>1
        <5>3. (Len(s3) - Len(s9)) + (i + 1) \in 1..Len(s3)  BY <1>2, <3>1, <5>1
        <5>4. s9'[i] = s9[i + 1]  BY <3>3, <3>5, <5>1
        <5> QED  BY <1>2, <1>4, <5>1, <5>2, <5>3, <5>4, Zenon
      <4> QED  BY <4>1, <4>2
    <3> QED  BY <1>2, <1>4, <3>1, <3>5, <3>6
  <2> QED  BY <2>1, <2>2
<1>6. CASE Len(list) > MaxTargets
  <2> DEFINE from == Len(list) - KeepTargets + 1
  <2>1. s3' = SubSeq(list, from, Len(list))  BY <1>1, <1>3, <1>6, Zenon DEF Scorer!Held
  <2>2. Len(list) \in Nat /\ from \in 1..Len(list) /\ Len(s9') \in Nat  BY <1>3, <1>5, <1>6
  <2>3. \A i \in from..Len(list) : list[i] \in Distances  BY <1>3, <2>2
  <2>4. /\ s3' \in Seq(Distances) /\ Len(s3') = KeepTargets
        /\ \A i \in 1..KeepTargets : s3'[i] = list[from + i - 1]
    <3>1. from \in Int /\ Len(list) \in Int /\ Len(list) - from + 1 = KeepTargets /\ from <= Len(list)  BY <2>2
    <3> HIDE DEF from
    <3>2. /\ s3' \in Seq(Distances) /\ Len(s3') = IF from <= Len(list) THEN Len(list) - from + 1 ELSE 0
          /\ \A i \in 1..(Len(list) - from + 1) : s3'[i] = list[from + i - 1]
        BY <2>1, <2>3, <3>1, SubSeqProperties
    <3> QED  BY <3>1, <3>2
  <2>5. ASSUME NEW i \in 1..Len(s9') PROVE s9'[i] = s3'[(Len(s3') - Len(s9')) + i]
    <3>1. (KeepTargets - Len(s9')) + i \in 1..KeepTargets
      <4>1. Len(s9') \in Nat /\ Len(s9') <= KeepTargets  BY <1>5, <2>2
      <4> QED  BY <4>1
    <3>2. from + ((KeepTargets - Len(s9')) + i) - 1 = (Len(list) - Len(s9')) + i  BY <2>2
    <3> HIDE DEF from
    <3> QED  BY <1>5, <2>4, <3>1, <3>2
  <2> QED  BY <1>5, <2>4, <2>5 DEF HeldInv
<1>7. CASE ~(Len(list) > MaxTargets)
  <2>1. s3' = list  BY <1>1, <1>3, <1>7 DEF Scorer!Held
  <2> QED  BY <1>3, <1>5, <2>1, Zenon DEF HeldInv
<1> QED  BY <1>6, <1>7

(* A row goes to the buffer, and a whole batch to the file.                   *)
LEMMA ScorerScores ==
    ASSUME ScorerInv, Scorer!ScoreAndPublish
    PROVE  ScorerInv'
<1> DEFINE S == [n : Nat, frame : Frames]
           Row(rudder) == [n |-> Len(s7) + 1,
                           frame |-> Scorer!ScoreFrame(Scorer!ToSet(s3), s4, 0, 120, rudder, "transit", 0, 0)]
           buf(row) == Append(s5.buf, row)
<1>1. PICK rudder \in {0, 35} :
          /\ s7' = Append(s7, Row(rudder)) /\ s8' = s7'
          /\ \/ s5' = [s5 EXCEPT !.buf = buf(Row(rudder))] /\ s6' = s6
             \/ /\ s5' = [[s5 EXCEPT !.buf = buf(Row(rudder))] EXCEPT !.open = TRUE, !.buf = <<>>]
                /\ s6' = (IF [s5 EXCEPT !.buf = buf(Row(rudder))].open THEN s6 ELSE <<>>)
                         \o [s5 EXCEPT !.buf = buf(Row(rudder))].buf
  <2>1. PICK rudder \in {0, 35} :
            LET full == [s5 EXCEPT !.buf = buf(Row(rudder))]
                done == IF Len(full.buf) >= BatchSize THEN Scorer!Flushed(full, s6)
                        ELSE [writer |-> full, file |-> s6]
            IN s5' = done.writer /\ s6' = done.file /\ s7' = Append(s7, Row(rudder)) /\ s8' = s7'
      BY ZenonT(60) DEF Scorer!ScoreAndPublish
  <2> DEFINE full == [s5 EXCEPT !.buf = buf(Row(rudder))]
  <2>2. \/ s5' = full /\ s6' = s6
        \/ s5' = [full EXCEPT !.open = TRUE, !.buf = <<>>] /\ s6' = (IF full.open THEN s6 ELSE <<>>) \o full.buf
    <3> HIDE DEF full
    <3>1. CASE Len(full.buf) >= BatchSize
        BY <2>1, <3>1, Zenon DEF Scorer!Flushed, full
    <3>2. CASE ~(Len(full.buf) >= BatchSize)
        BY <2>1, <3>2, Zenon DEF full
    <3> QED  BY <3>1, <3>2, Zenon
  <2> QED  BY <2>1, <2>2, ZenonT(60)
<1>2. s1 = "active" /\ UNCHANGED <<s1, s3, s4, s9>>  BY DEF Scorer!ScoreAndPublish
<1>3. HeldInv /\ FileTypes /\ FileTiles  BY <1>2 DEF ScorerInv
<1>4. PICK row \in S : row = Row(rudder)
  <2>1. Scorer!ToSet(s3) \in SUBSET Distances  BY <1>3 DEF HeldInv, Scorer!ToSet
  <2>2. Row(rudder).frame \in Frames  BY <1>3, <2>1 DEF FileTypes, Frames
  <2>3. Len(s7) + 1 \in Nat  BY <1>3 DEF FileTypes, ScoreRows
  <2> QED  BY <2>2, <2>3, Zenon
<1> HIDE DEF Row
<1>5. s5 \in [open : BOOLEAN, buf : Seq(S), there : BOOLEAN] /\ s6 \in Seq(S) /\ s7 \in Seq(S)
    BY <1>3 DEF FileTypes, ScoreRows
<1> HIDE DEF S
<1>6. PICK b \in Seq(S) : b = Append(s5.buf, row)  BY <1>5, AppendProperties, Zenon
<1>7. Written \in Seq(S)  BY <1>5 DEF Written
<1>8. Written \o b = s7' /\ s7' \in Seq(S) /\ s7' # <<>>
  <2>1. Written \o s5.buf = s7 /\ s5.buf \in Seq(S)  BY <1>3, <1>5 DEF FileTiles
  <2>2. Written \o Append(s5.buf, row) = Append(Written \o s5.buf, row)
    <3>1. \A p, q \in Seq(S) : p \o Append(q, row) = Append(p \o q, row)  BY <1>4, ConcatAppend
    <3> QED  BY <1>7, <2>1, <3>1, Zenon
  <2> QED  BY <1>1, <1>4, <1>5, <1>6, <2>1, <2>2, AppendProperties
<1>9. b # <<>>  BY <1>5, <1>6, AppendProperties
<1>10. CASE s5' = [s5 EXCEPT !.buf = b] /\ s6' = s6
  <2>1. s5'.open = s5.open /\ s5'.buf = b /\ s5' \in [open : BOOLEAN, buf : Seq(S), there : BOOLEAN]
      BY <1>5, <1>10, Zenon
  <2>2. Written' = Written  BY <1>10, <2>1 DEF Written
  <2>3. FileTiles'  BY <1>1, <1>8, <2>1, <2>2 DEF FileTiles
  <2>4. FileTypes'  BY <1>1, <1>2, <1>3, <1>5, <1>8, <1>10, <2>1 DEF FileTypes, ScoreRows, S
  <2> QED  BY <1>2, <1>3, <2>3, <2>4 DEF ScorerInv, HeldInv
<1>11. CASE s5' = [[s5 EXCEPT !.buf = b] EXCEPT !.open = TRUE, !.buf = <<>>] /\ s6' = Written \o b
  <2>1. s5'.open = TRUE /\ s5'.buf = <<>> /\ s5' \in [open : BOOLEAN, buf : Seq(S), there : BOOLEAN]
    <3>1. <<>> \in Seq(S)  OBVIOUS
    <3> QED  BY <1>5, <1>11, <3>1, Zenon
  <2>2. Written' = s6'  BY <2>1 DEF Written
  <2>3. s6' = s7' /\ s6' \o <<>> = s6'  BY <1>8, <1>11, ConcatEmptySeq
  <2>4. FileTiles'  BY <1>1, <1>8, <2>1, <2>2, <2>3, Zenon DEF FileTiles
  <2>5. FileTypes'  BY <1>1, <1>2, <1>3, <1>8, <2>1, <2>3 DEF FileTypes, ScoreRows, S
  <2> QED  BY <1>2, <1>3, <2>4, <2>5 DEF ScorerInv, HeldInv
<1>12. \/ s5' = [s5 EXCEPT !.buf = b] /\ s6' = s6
       \/ s5' = [[s5 EXCEPT !.buf = b] EXCEPT !.open = TRUE, !.buf = <<>>] /\ s6' = Written \o b
  <2>1. [s5 EXCEPT !.buf = b].open = s5.open /\ [s5 EXCEPT !.buf = b].buf = b  BY <1>5
  <2> QED  BY <1>1, <1>4, <1>6, <2>1, Zenon DEF Written
<1> QED  BY <1>10, <1>11, <1>12

(* Closing writes what is left in the buffer.                                 *)
LEMMA ScorerCloses ==
    ASSUME ScorerInv, Scorer!OnDeactivate
    PROVE  ScorerInv'
<1> DEFINE S == [n : Nat, frame : Frames]
<1>1. s1 = "active" /\ s1' = "inactive" /\ UNCHANGED <<s3, s4, s7, s8, s9>>
      /\ s5' = [open |-> FALSE, buf |-> <<>>, there |-> FALSE]
      /\ s6' = IF s5.buf = <<>> THEN s6 ELSE Written \o s5.buf
    BY DEF Scorer!OnDeactivate, Scorer!Closed, Scorer!Flushed, Scorer!NoWriter, Written
<1>2. HeldInv /\ FileTypes /\ FileTiles  BY <1>1 DEF ScorerInv
<1>3. s5 \in [open : BOOLEAN, buf : Seq(S), there : BOOLEAN] /\ s6 \in Seq(S) /\ s8 \in Seq(S)
    BY <1>2 DEF FileTypes, ScoreRows
<1> HIDE DEF S
<1>4. s6' = s8
  <2>1. Written \in Seq(S)  BY <1>3 DEF Written
  <2>2. CASE s5.buf = <<>>
    <3>1. Written = s7  BY <1>2, <2>1, <2>2, ConcatEmptySeq DEF FileTiles
    <3>2. s6' = s6  BY <1>1, <2>2
    <3> QED  BY <1>2, <3>1, <3>2 DEF FileTiles, Written
  <2>3. CASE s5.buf # <<>>
    <3>1. s6' = s7  BY <1>1, <1>2, <2>3 DEF FileTiles
    <3>2. s7 # <<>>  BY <1>2, <1>3, <2>1, <2>3, ConcatEqualIffEmpty DEF FileTiles
    <3> QED  BY <1>2, <3>1, <3>2 DEF FileTiles
  <2> QED  BY <2>2, <2>3
<1>5. FileTypes'
  <2>1. <<>> \in ScoreRows  BY DEF ScoreRows
  <2> QED  BY <1>1, <1>2, <1>4, <2>1, Zenon DEF FileTypes
<1> QED  BY <1>1, <1>2, <1>4, <1>5 DEF ScorerInv, HeldInv

LEMMA ScorerStep == ScorerInv /\ Scorer!Next => ScorerInv'
<1> SUFFICES ASSUME ScorerInv, Scorer!Next PROVE ScorerInv'
    OBVIOUS
<1>1. CASE Scorer!OnConfigure \/ Scorer!OnCleanup \/ Scorer!OwnShipCb
  <2>1. UNCHANGED <<s3, s4, s5, s6, s7, s8, s9>> /\ (s1' = "active" <=> s1 = "active")
      BY <1>1 DEF Scorer!OnConfigure, Scorer!OnCleanup, Scorer!OwnShipCb
  <2> QED  BY <2>1 DEF ScorerInv, HeldInv, FileTypes, FileTiles, Written
<1>2. CASE Scorer!OnActivate
  <2>1. s1 = "inactive" /\ s7' = <<>> /\ UNCHANGED <<s3, s4, s6, s8, s9>>
        /\ s5' = [[open |-> FALSE, buf |-> <<>>, there |-> FALSE] EXCEPT !.there = TRUE]
      BY <1>2 DEF Scorer!OnActivate, Scorer!NoWriter
  <2>2. s5' = [open |-> FALSE, buf |-> <<>>, there |-> TRUE]  BY <2>1, Zenon
  <2>3. <<>> \in ScoreRows /\ <<>> \o <<>> = <<>>  BY DEF ScoreRows
  <2>4. HeldInv /\ FileTypes /\ s6 = s8  BY <2>1 DEF ScorerInv
  <2>5. FileTypes'  BY <2>1, <2>2, <2>3, <2>4, Zenon DEF FileTypes
  <2>6. FileTiles'  BY <2>1, <2>2, <2>3, <2>4 DEF FileTiles, Written
  <2> QED  BY <2>1, <2>4, <2>5, <2>6 DEF ScorerInv, HeldInv
<1>3. CASE Scorer!TargetVesselCb
  <2>1. UNCHANGED <<s1, s4, s5, s6, s7, s8>>  BY <1>3 DEF Scorer!TargetVesselCb
  <2>2. HeldInv'  BY <1>3, ScorerHears DEF ScorerInv
  <2> QED  BY <2>1, <2>2 DEF ScorerInv, FileTypes, FileTiles, Written
<1>4. CASE Scorer!ColregsCb
  <2>1. s4' \in RuleStates /\ UNCHANGED <<s1, s3, s5, s6, s7, s8, s9>>  BY <1>4 DEF Scorer!ColregsCb
  <2> QED  BY <2>1 DEF ScorerInv, HeldInv, FileTypes, FileTiles, Written
<1> QED  BY <1>1, <1>2, <1>3, <1>4, ScorerScores, ScorerCloses DEF Scorer!Next

LEMMA ScorerPromise == ScorerInv => Scorer!NewestScored /\ Scorer!ArrowIsWhole
<1> SUFFICES ASSUME ScorerInv PROVE Scorer!NewestScored /\ Scorer!ArrowIsWhole
    OBVIOUS
<1>1. HeldInv  BY DEF ScorerInv
<1>2. ASSUME NEW i \in DOMAIN s9 PROVE s9[i] \in Scorer!ToSet(s3)
  <2>1. Len(s9) \in Nat /\ Len(s3) \in Nat /\ i \in 1..Len(s9) /\ DOMAIN s3 = 1..Len(s3)  BY <1>1 DEF HeldInv
  <2>2. (Len(s3) - Len(s9)) + i \in 1..Len(s3)  BY <1>1, <2>1 DEF HeldInv
  <2> QED  BY <1>1, <2>1, <2>2 DEF HeldInv, Scorer!ToSet
<1>3. Scorer!ArrowIsWhole  BY DEF ScorerInv, Scorer!ArrowIsWhole
<1> QED  BY <1>2, <1>3 DEF Scorer!NewestScored
-----------------------------------------------------------------------------
(* The autopilot.                                                           *)

PilotTypes ==
    /\ s1 = Pilot!NoPlan \/ s1 \in [band : Bands, fallback : BOOLEAN]
    /\ s2 \in BOOLEAN /\ s3 \in Int
    /\ s9 \in [avoid : -35..35, route : -35..35]
    /\ s10 \in {"idle", "enabled", "active", "course"} /\ s11 \in {"idle", "onset", "release"}
    /\ s12 \in [law : {"none", "avoid", "route", "cruise", "waypoint"}, rudder : -35..35, was : -35..35,
                same : BOOLEAN, releases : Nat, lost : Nat]

(* Between the two writes of a callback: an onset has its band and not yet    *)
(* its course, a release has its course still and a tick to lose; so has a    *)
(* tick that finds the course gone.                                           *)
Onsets   == s11 = "onset" => s2 /\ s1 # Pilot!NoPlan /\ s4 = s1.band
Releases == /\ s11 = "release" => ~s2 /\ s3 # -1 /\ s12.lost < s12.releases
            /\ s10 = "course" /\ s3 = -1 => s12.lost < s12.releases
            /\ s12.lost <= s12.releases

(* The law of the last tick has left its rudder with its controller.          *)
Rudders ==
    /\ s12.law = "avoid" => s9.avoid = s12.rudder
    /\ s12.law = "route" => s9.route = s12.rudder
    /\ Pilot!RudderSlews

PilotInv == PilotTypes /\ Onsets /\ Releases /\ Rudders /\ Pilot!AvoidingHasCourse

(* Five sixths of the way through a band is in the band, across north too.    *)
LEMMA CourseInBand ==
    ASSUME NEW b \in Bands
    PROVE  Pilot!CourseIn(b) \in 0..359 /\ Pilot!Within(Pilot!CourseIn(b), b)
<1>1. b[1] \in Int /\ b[2] \in Int /\ b[2] - b[1] \in -360..360
    BY PilotAssumption
<1>2. PICK lo \in Int : lo = b[1]  BY <1>1
<1>3. PICK hi \in Int : hi = b[2]  BY <1>1
<1>4. hi - lo \in -360..360  BY <1>1, <1>2, <1>3
<1>5. PICK top \in Int : top = IF hi < lo THEN hi + 360 ELSE hi
  <2>1. (IF hi < lo THEN hi + 360 ELSE hi) \in Int  OBVIOUS
  <2> QED  BY <2>1
<1>6. PICK d \in 0..360 : d = top - lo
  <2>1. top - lo \in 0..360  BY <1>4, <1>5
  <2> QED  BY <2>1
<1>7. PICK x \in 0..300 : x = (5 * d) \div 6 /\ x <= d
  <2>1. (5 * d) \div 6 \in 0..300 /\ (5 * d) \div 6 <= d  OBVIOUS
  <2> QED  BY <2>1
<1>8. PICK c \in 0..359 : c = (lo + x) % 360
  <2>1. (lo + x) % 360 \in 0..359  OBVIOUS
  <2> QED  BY <2>1
<1>9. Pilot!CourseIn(b) = c
  <2>1. Pilot!CourseIn(b) = (lo + (5 * (top - lo)) \div 6) % 360
      BY <1>2, <1>3, <1>5 DEF Pilot!CourseIn
  <2>2. 5 * (top - lo) = 5 * d  BY <1>6
  <2> QED  BY <2>1, <2>2, <1>7, <1>8
<1>10. (c - lo) % 360 <= d
    BY <1>7, <1>8
<1>11. d = IF lo <= hi THEN hi - lo ELSE hi - lo + 360
    BY <1>5, <1>6
<1> QED  BY <1>2, <1>3, <1>9, <1>10, <1>11 DEF Pilot!Within

(* A controller moves its command by its rate at most, and not past the stops. *)
LEMMA HeadingStepSlews ==
    ASSUME NEW last \in -35..35, NEW error \in Int, NEW rate \in Nat
    PROVE  LET cmd == Pilot!HeadingStep(last, error, rate)
           IN cmd \in -35..35 /\ cmd - last \in -rate..rate
<1>1. PICK e \in -35..35 : e = Pilot!Clamp(error, -35, 35)
    BY DEF Pilot!Clamp
<1>2. Pilot!HeadingStep(last, error, rate) = IF e < last - rate THEN last - rate
                                             ELSE IF e > last + rate THEN last + rate ELSE e
    BY <1>1 DEF Pilot!HeadingStep, Pilot!Clamp
<1> QED  BY <1>2

LEMMA ErrorIsInt ==
    ASSUME NEW aim \in Int, NEW h \in Int
    PROVE  Pilot!Error(aim, h) \in Int
BY DEF Pilot!Error

LEMMA PilotInit == Pilot!Init => PilotInv
<1> SUFFICES ASSUME Pilot!Init PROVE PilotInv
    OBVIOUS
<1>1. s1 = Pilot!NoPlan /\ s2 = FALSE /\ s3 = -1 /\ s9 = [avoid |-> 0, route |-> 0] /\ s10 = "idle" /\ s11 = "idle"
      /\ s12 = [law |-> "none", rudder |-> 0, was |-> 0, same |-> FALSE, releases |-> 0, lost |-> 0]
    BY DEF Pilot!Init, Pilot!None
<1>2. PilotTypes
  <2>1. s9 \in [avoid : -35..35, route : -35..35]  BY <1>1
  <2>2. s12 \in [law : {"none", "avoid", "route", "cruise", "waypoint"}, rudder : -35..35, was : -35..35,
                 same : BOOLEAN, releases : Nat, lost : Nat]
      BY <1>1
  <2>3. s2 \in BOOLEAN  BY <1>1, Zenon
  <2> QED  BY <1>1, <2>1, <2>2, <2>3 DEF PilotTypes
<1>3. Onsets /\ Releases  BY <1>1 DEF Onsets, Releases
<1>4. Rudders  BY <1>1 DEF Rudders, Pilot!RudderSlews
<1>5. Pilot!AvoidingHasCourse  BY <1>1 DEF Pilot!AvoidingHasCourse, Pilot!None
<1> QED  BY <1>2, <1>3, <1>4, <1>5 DEF PilotInv

(* A tick steers: the rudder is the command of the law's controller, a rate   *)
(* from where that controller was; the other one is left alone.               *)
LEMMA PilotSteers ==
    ASSUME PilotInv, NEW law \in {"avoid", "route", "cruise", "waypoint"}, NEW cmd \in -35..35,
           Pilot!Steered(law, cmd), UNCHANGED <<s1, s2, s3, s4, s11>>,
           \/ law = "avoid" /\ s9' = [s9 EXCEPT !.avoid = cmd] /\ cmd - s9.avoid \in -AvoidRate..AvoidRate
           \/ law = "route" /\ s9' = [s9 EXCEPT !.route = cmd] /\ cmd - s9.route \in -RouteRate..RouteRate
           \/ law \in {"cruise", "waypoint"} /\ s9' = s9
    PROVE  PilotInv'
<1>1. PilotTypes /\ Onsets /\ Releases /\ Rudders /\ Pilot!AvoidingHasCourse  BY DEF PilotInv
<1>2. s12 \in [law : {"none", "avoid", "route", "cruise", "waypoint"}, rudder : -35..35, was : -35..35,
               same : BOOLEAN, releases : Nat, lost : Nat]
      /\ s9 \in [avoid : -35..35, route : -35..35]
    BY <1>1 DEF PilotTypes
<1>3. /\ s10' = "idle"
      /\ s12' = [s12 EXCEPT !.law = law, !.rudder = cmd, !.was = s12.rudder, !.same = (law = s12.law)]
    BY DEF Pilot!Steered
<1>4. /\ s12'.law = law /\ s12'.rudder = cmd /\ s12'.was = s12.rudder /\ s12'.same = (law = s12.law)
      /\ s12'.lost = s12.lost /\ s12'.releases = s12.releases
      /\ s12' \in [law : {"none", "avoid", "route", "cruise", "waypoint"}, rudder : -35..35, was : -35..35,
                   same : BOOLEAN, releases : Nat, lost : Nat]
    BY <1>2, <1>3, Zenon
<1>5. s9' \in [avoid : -35..35, route : -35..35]
      /\ (law = "avoid" => s9'.avoid = cmd) /\ (law = "route" => s9'.route = cmd)
    BY <1>2
<1>6. PilotTypes'  BY <1>1, <1>3, <1>4, <1>5 DEF PilotTypes, Pilot!NoPlan, Pilot!None
<1>7. Onsets' /\ Releases'  BY <1>1, <1>3, <1>4 DEF Onsets, Releases, Pilot!NoPlan, Pilot!None
<1>8. Rudders'
  <2>1. s12'.same /\ s12'.law = "avoid" => s12'.rudder - s12'.was \in -AvoidRate..AvoidRate
    <3>1. s12'.same => s12.law = law  BY <1>4
    <3>2. s12.law = "avoid" => s9.avoid = s12.rudder  BY <1>1 DEF Rudders
    <3> QED  BY <1>4, <3>1, <3>2
  <2>2. s12'.same /\ s12'.law = "route" => s12'.rudder - s12'.was \in -RouteRate..RouteRate
    <3>1. s12'.same => s12.law = law  BY <1>4
    <3>2. s12.law = "route" => s9.route = s12.rudder  BY <1>1 DEF Rudders
    <3> QED  BY <1>4, <3>1, <3>2
  <2>3. Pilot!RudderSlews'  BY <1>4, <2>1, <2>2 DEF Pilot!RudderSlews
  <2> QED  BY <1>4, <1>5, <2>3 DEF Rudders
<1>9. Pilot!AvoidingHasCourse'  BY <1>1 DEF Pilot!AvoidingHasCourse, Pilot!Within, Pilot!None
<1> QED  BY <1>6, <1>7, <1>8, <1>9 DEF PilotInv

(* What leaves the rudders alone keeps what is said of them.                  *)
LEMMA RuddersKeep ==
    ASSUME Rudders, s9' = s9, s12'.law = s12.law, s12'.rudder = s12.rudder, s12'.was = s12.was,
           s12'.same = s12.same
    PROVE  Rudders'
BY DEF Rudders, Pilot!RudderSlews

(* A release ends the law.                                                    *)
LEMMA RuddersReleased ==
    ASSUME Rudders, s12' = [s12 EXCEPT !.releases = s12'.releases, !.law = "none", !.same = FALSE], PilotTypes
    PROVE  Rudders'
<1>1. s12'.law = "none" /\ s12'.rudder = s12.rudder  BY Zenon DEF PilotTypes
<1>2. s12'.rudder \in -35..35  BY <1>1 DEF PilotTypes
<1> QED  BY <1>1, <1>2 DEF Rudders, Pilot!RudderSlews

LEMMA PilotCallback ==
    ASSUME PilotInv,
           \/ \E band \in Bands, fallback \in BOOLEAN : Pilot!CbBehavior(band, fallback)
           \/ Pilot!CbPlanValid \/ Pilot!CbPlanCourse \/ Pilot!CbPlanEmpty \/ Pilot!CbPlanReleased \/ Pilot!CbOdd
    PROVE  PilotInv'
<1>1. PilotTypes /\ Onsets /\ Releases /\ Rudders /\ Pilot!AvoidingHasCourse  BY DEF PilotInv
<1>2. ASSUME NEW band \in Bands, NEW fallback \in BOOLEAN, Pilot!CbBehavior(band, fallback) PROVE PilotInv'
  <2>1. /\ s11 = "idle" /\ s1' = [band |-> band, fallback |-> fallback]
        /\ s3' = (IF s2 /\ s3 = -1 THEN Pilot!CourseIn(band) ELSE s3)
        /\ UNCHANGED <<s2, s4, s9, s10, s11, s12>>
      BY <1>2 DEF Pilot!CbBehavior, Pilot!None
  <2>2. s2 => s3 # -1  BY <1>1, <2>1 DEF Pilot!AvoidingHasCourse, Pilot!None
  <2>3. s3' = s3  BY <2>1, <2>2
  <2>4. PilotTypes'  BY <1>1, <2>1, <2>3 DEF PilotTypes
  <2>5. Onsets' /\ Releases'  BY <1>1, <2>1, <2>3 DEF Onsets, Releases
  <2>6. Rudders'  BY <1>1, <2>1, RuddersKeep
  <2>7. Pilot!AvoidingHasCourse'  BY <1>1, <2>1, <2>3 DEF Pilot!AvoidingHasCourse, Pilot!Within, Pilot!None
  <2> QED  BY <2>4, <2>5, <2>6, <2>7 DEF PilotInv
<1>3. CASE Pilot!CbPlanValid
  <2>1. s11 = "idle" /\ UNCHANGED <<s1, s3, s9, s10, s12>>
      BY <1>3 DEF Pilot!CbPlanValid
  <2>2. Rudders'  BY <1>1, <2>1, RuddersKeep
  <2>3. CASE ~s2 /\ s1 # Pilot!NoPlan
    <3>1. s2' = TRUE /\ s4' = s1.band /\ s11' = "onset"  BY <1>3, <2>3 DEF Pilot!CbPlanValid
    <3>2. PilotTypes'  BY <1>1, <2>1, <3>1 DEF PilotTypes, Pilot!NoPlan, Pilot!None
    <3>3. Onsets' /\ Releases'  BY <1>1, <2>1, <2>3, <3>1 DEF Onsets, Releases, Pilot!NoPlan, Pilot!None
    <3>4. Pilot!AvoidingHasCourse'  BY <3>1 DEF Pilot!AvoidingHasCourse
    <3> QED  BY <2>2, <3>2, <3>3, <3>4 DEF PilotInv
  <2>4. CASE ~(~s2 /\ s1 # Pilot!NoPlan)
    <3>1. UNCHANGED <<s2, s4, s11>>  BY <1>3, <2>4 DEF Pilot!CbPlanValid
    <3>2. PilotTypes'  BY <1>1, <2>1, <3>1 DEF PilotTypes, Pilot!NoPlan, Pilot!None
    <3>3. Onsets' /\ Releases'  BY <1>1, <2>1, <3>1 DEF Onsets, Releases
    <3>4. Pilot!AvoidingHasCourse'  BY <1>1, <2>1, <3>1 DEF Pilot!AvoidingHasCourse, Pilot!Within, Pilot!None
    <3> QED  BY <2>2, <3>2, <3>3, <3>4 DEF PilotInv
  <2> QED  BY <2>3, <2>4
<1>4. CASE Pilot!CbPlanCourse
  <2>1. s11 = "onset" /\ s11' = "idle" /\ s3' = Pilot!CourseIn(s1.band) /\ UNCHANGED <<s1, s2, s4, s9, s10, s12>>
      BY <1>4 DEF Pilot!CbPlanCourse
  <2>2. s2 /\ s4 = s1.band /\ s1.band \in Bands  BY <1>1, <2>1 DEF Onsets, PilotTypes
  <2>3. s3' \in 0..359 /\ Pilot!Within(s3', s4)  BY <2>1, <2>2, CourseInBand
  <2>4. PilotTypes'  BY <1>1, <2>1, <2>3 DEF PilotTypes, Pilot!NoPlan, Pilot!None
  <2>5. Onsets' /\ Releases'  BY <1>1, <2>1, <2>3 DEF Onsets, Releases
  <2>6. Rudders'  BY <1>1, <2>1, RuddersKeep
  <2>7. Pilot!AvoidingHasCourse'  BY <2>1, <2>2, <2>3 DEF Pilot!AvoidingHasCourse, Pilot!Within, Pilot!None
  <2> QED  BY <2>4, <2>5, <2>6, <2>7 DEF PilotInv
<1>5. CASE Pilot!CbPlanEmpty
  <2>1. /\ s11 = "idle" /\ s2 /\ s2' = FALSE /\ s11' = "release" /\ UNCHANGED <<s1, s3, s4, s9, s10>>
        /\ s12' = [s12 EXCEPT !.releases = s12.releases + 1, !.law = "none", !.same = FALSE]
      BY <1>5 DEF Pilot!CbPlanEmpty
  <2>2. s3 # -1  BY <1>1, <2>1 DEF Pilot!AvoidingHasCourse, Pilot!None
  <2>3. s12'.releases = s12.releases + 1 /\ s12'.lost = s12.lost  BY <1>1, <2>1 DEF PilotTypes
  <2>4. PilotTypes'
    <3>1. s12' \in [law : {"none", "avoid", "route", "cruise", "waypoint"}, rudder : -35..35, was : -35..35,
                    same : BOOLEAN, releases : Nat, lost : Nat]
      <4>1. s12.releases \in Nat /\ s12.releases + 1 \in Nat  BY <1>1 DEF PilotTypes
      <4>2. PICK n \in Nat : n = s12.releases + 1  BY <4>1
      <4>3. s12' = [s12 EXCEPT !.releases = n, !.law = "none", !.same = FALSE]  BY <2>1, <4>2
      <4> QED  BY <1>1, <4>3, Zenon DEF PilotTypes
    <3>2. s2' \in BOOLEAN  BY <2>1, Zenon
    <3> QED  BY <1>1, <2>1, <3>1, <3>2 DEF PilotTypes, Pilot!NoPlan, Pilot!None
  <2>5. Onsets'  BY <2>1 DEF Onsets
  <2>6. Releases'
    <3>1. s12.lost \in Nat /\ s12.releases \in Nat /\ s12.lost <= s12.releases  BY <1>1 DEF PilotTypes, Releases
    <3> QED  BY <2>1, <2>2, <2>3, <3>1 DEF Releases
  <2>7. Rudders'  BY <1>1, <2>1, <2>3, RuddersReleased
  <2>8. Pilot!AvoidingHasCourse'  BY <2>1 DEF Pilot!AvoidingHasCourse
  <2> QED  BY <2>4, <2>5, <2>6, <2>7, <2>8 DEF PilotInv
<1>6. CASE Pilot!CbPlanReleased
  <2>1. /\ s11 = "release" /\ s11' = "idle" /\ s3' = -1 /\ s9' = [s9 EXCEPT !.avoid = 0]
        /\ s12' = [s12 EXCEPT !.law = "none", !.same = FALSE] /\ UNCHANGED <<s1, s2, s4, s10>>
      BY <1>6 DEF Pilot!CbPlanReleased, Pilot!None
  <2>2. ~s2 /\ s12.lost < s12.releases  BY <1>1, <2>1 DEF Releases
  <2>3. s12'.releases = s12.releases /\ s12'.lost = s12.lost  BY <1>1, <2>1 DEF PilotTypes
  <2>4. PilotTypes'
    <3>1. s12' \in [law : {"none", "avoid", "route", "cruise", "waypoint"}, rudder : -35..35, was : -35..35,
                    same : BOOLEAN, releases : Nat, lost : Nat]
        BY <1>1, <2>1, Zenon DEF PilotTypes
    <3>2. s9' \in [avoid : -35..35, route : -35..35]  BY <1>1, <2>1 DEF PilotTypes
    <3> QED  BY <1>1, <2>1, <3>1, <3>2 DEF PilotTypes, Pilot!NoPlan, Pilot!None
  <2>5. Onsets' /\ Releases'  BY <1>1, <2>1, <2>2, <2>3 DEF Onsets, Releases
  <2>6. Rudders'
    <3>1. s12' = [s12 EXCEPT !.releases = s12'.releases, !.law = "none", !.same = FALSE]
        BY <1>1, <2>1, Zenon DEF PilotTypes
    <3> QED  BY <1>1, <3>1, RuddersReleased
  <2>7. Pilot!AvoidingHasCourse'  BY <2>1, <2>2 DEF Pilot!AvoidingHasCourse, Pilot!None
  <2> QED  BY <2>4, <2>5, <2>6, <2>7 DEF PilotInv
<1>7. CASE Pilot!CbOdd
  <2>1. UNCHANGED <<s1, s2, s3, s4, s9, s10, s11, s12>>  BY <1>7 DEF Pilot!CbOdd
  <2>2. PilotTypes' /\ Onsets' /\ Releases'
      BY <1>1, <2>1 DEF PilotTypes, Onsets, Releases, Pilot!NoPlan, Pilot!None
  <2>3. Rudders'  BY <1>1, <2>1, RuddersKeep
  <2>4. Pilot!AvoidingHasCourse'  BY <1>1, <2>1 DEF Pilot!AvoidingHasCourse, Pilot!Within, Pilot!None
  <2> QED  BY <2>2, <2>3, <2>4 DEF PilotInv
<1> QED  BY <1>2, <1>3, <1>4, <1>5, <1>6, <1>7

(* A tick that only goes on, or is lost.                                      *)
LEMMA PilotGoesOn ==
    ASSUME PilotInv, UNCHANGED <<s1, s2, s3, s4, s9, s11>>, s10' \in {"idle", "enabled", "active", "course"},
           \/ s12' = s12 /\ (s10' = "course" => s3 # -1)
           \/ s12' = [s12 EXCEPT !.lost = s12.lost + 1] /\ s10 = "course" /\ s3 = -1 /\ s10' = "idle"
    PROVE  PilotInv'
<1>1. PilotTypes /\ Onsets /\ Releases /\ Rudders /\ Pilot!AvoidingHasCourse  BY DEF PilotInv
<1>2. s12.lost \in Nat /\ s12.releases \in Nat /\ s12.lost <= s12.releases  BY <1>1 DEF PilotTypes, Releases
<1>3. /\ s12'.law = s12.law /\ s12'.rudder = s12.rudder /\ s12'.was = s12.was /\ s12'.same = s12.same
      /\ s12'.releases = s12.releases
      /\ s12' \in [law : {"none", "avoid", "route", "cruise", "waypoint"}, rudder : -35..35, was : -35..35,
                   same : BOOLEAN, releases : Nat, lost : Nat]
    BY <1>1 DEF PilotTypes
<1>4. PilotTypes'  BY <1>1, <1>3 DEF PilotTypes, Pilot!NoPlan, Pilot!None
<1>5. Onsets'  BY <1>1 DEF Onsets, Pilot!NoPlan, Pilot!None
<1>6. Releases'
  <2>1. CASE s12' = s12 /\ (s10' = "course" => s3 # -1)
      BY <1>1, <2>1 DEF Releases
  <2>2. CASE s12' = [s12 EXCEPT !.lost = s12.lost + 1] /\ s10 = "course" /\ s3 = -1 /\ s10' = "idle"
    <3>1. s12'.lost = s12.lost + 1  BY <1>1, <2>2 DEF PilotTypes
    <3>2. s12.lost < s12.releases /\ s11 # "release"  BY <1>1, <2>2 DEF Releases
    <3> QED  BY <1>2, <1>3, <2>2, <3>1, <3>2 DEF Releases
  <2> QED  BY <2>1, <2>2
<1>7. Rudders'  BY <1>1, <1>3, RuddersKeep
<1>8. Pilot!AvoidingHasCourse'  BY <1>1 DEF Pilot!AvoidingHasCourse, Pilot!Within, Pilot!None
<1> QED  BY <1>4, <1>5, <1>6, <1>7, <1>8 DEF PilotInv

LEMMA PilotStep == PilotInv /\ Pilot!Next => PilotInv'
<1> SUFFICES ASSUME PilotInv, Pilot!Next PROVE PilotInv'
    OBVIOUS
<1>1. s9 \in [avoid : -35..35, route : -35..35] /\ s3 \in Int  BY DEF PilotInv, PilotTypes
<1>2. CASE Pilot!TickBegins
  <2>1. s10' = "enabled" /\ UNCHANGED <<s1, s2, s3, s4, s9, s11, s12>>  BY <1>2 DEF Pilot!TickBegins
  <2> QED  BY <2>1, PilotGoesOn
<1>3. CASE Pilot!TickReadsActive
  <2>1. UNCHANGED <<s1, s2, s3, s4, s11>>  BY <1>3 DEF Pilot!TickReadsActive
  <2>2. CASE s10' = "active" /\ UNCHANGED <<s9, s12>>
      BY <2>1, <2>2, PilotGoesOn
  <2>3. ASSUME NEW h \in Headings,
               LET cmd == Pilot!HeadingStep(s9.route, Pilot!Error(0, h), RouteRate)
               IN s9' = [s9 EXCEPT !.route = cmd] /\ Pilot!Steered("route", cmd)
        PROVE  PilotInv'
    <3> DEFINE cmd == Pilot!HeadingStep(s9.route, Pilot!Error(0, h), RouteRate)
    <3>1. Pilot!Error(0, h) \in Int  BY PilotAssumption, ErrorIsInt
    <3>2. cmd \in -35..35 /\ cmd - s9.route \in -RouteRate..RouteRate
        BY <1>1, <3>1, PilotAssumption, HeadingStepSlews, Zenon
    <3> HIDE DEF cmd
    <3>3. s9' = [s9 EXCEPT !.route = cmd] /\ Pilot!Steered("route", cmd)  BY <2>3 DEF cmd
    <3> QED  BY <2>1, <3>2, <3>3, PilotSteers, Zenon
  <2>4. CASE Pilot!Steered("cruise", 0) /\ UNCHANGED s9
      BY <2>1, <2>4, PilotSteers
  <2> QED  BY <1>3, <2>2, <2>3, <2>4 DEF Pilot!TickReadsActive
<1>4. CASE Pilot!TickReadsCourse
  <2>1. UNCHANGED <<s1, s2, s3, s4, s9, s11>>  BY <1>4 DEF Pilot!TickReadsCourse
  <2>2. CASE s3 # -1 /\ s10' = "course" /\ UNCHANGED s12
      BY <2>1, <2>2, PilotGoesOn
  <2>3. CASE Pilot!Steered("waypoint", WaypointRudder)
      BY <2>1, <2>3, PilotAssumption, PilotSteers
  <2> QED  BY <1>4, <2>2, <2>3 DEF Pilot!TickReadsCourse, Pilot!None
<1>5. CASE Pilot!TickSteers
  <2>1. s10 = "course" /\ UNCHANGED <<s1, s2, s3, s4, s11>>  BY <1>5 DEF Pilot!TickSteers
  <2>2. ASSUME NEW h \in Headings,
               LET cmd == Pilot!HeadingStep(s9.avoid, Pilot!Error(s3, h), AvoidRate)
               IN s9' = [s9 EXCEPT !.avoid = cmd] /\ Pilot!Steered("avoid", cmd)
        PROVE  PilotInv'
    <3> DEFINE cmd == Pilot!HeadingStep(s9.avoid, Pilot!Error(s3, h), AvoidRate)
    <3>1. Pilot!Error(s3, h) \in Int  BY <1>1, PilotAssumption, ErrorIsInt
    <3>2. cmd \in -35..35 /\ cmd - s9.avoid \in -AvoidRate..AvoidRate
        BY <1>1, <3>1, PilotAssumption, HeadingStepSlews, Zenon
    <3> HIDE DEF cmd
    <3>3. s9' = [s9 EXCEPT !.avoid = cmd] /\ Pilot!Steered("avoid", cmd)  BY <2>2 DEF cmd
    <3> QED  BY <2>1, <3>2, <3>3, PilotSteers, Zenon
  <2>3. CASE s3 = -1 /\ UNCHANGED s9 /\ s10' = "idle" /\ s12' = [s12 EXCEPT !.lost = s12.lost + 1]
      BY <2>1, <2>3, PilotGoesOn
  <2> QED  BY <1>5, <2>2, <2>3 DEF Pilot!TickSteers, Pilot!None
<1> QED  BY <1>2, <1>3, <1>4, <1>5, PilotCallback DEF Pilot!Next

LEMMA PilotPromise == PilotInv => Pilot!AvoidingHasCourse /\ Pilot!RudderSlews /\ Pilot!TicksLostToRelease
BY DEF PilotInv, Rudders, Releases, Pilot!TicksLostToRelease
-----------------------------------------------------------------------------
(* The simulator of shell B.                                                *)

(* Episodes a command or a message still under way may be of: after a cold    *)
(* reset only this one.                                                       *)
Eps     == IF s8.cold THEN {s8.ep} ELSE Nat
Cmds    == [op : {"STEP", "RESET"}, ep : Eps, n : Nat]
AnyCmds == [op : {"STEP", "RESET"}, ep : Nat, n : Nat]
Msgs    == [topic : ShellB!Topics, ep : Eps, flag : BOOLEAN]
Ctls    == [odd : {0} \union Eps, allows : BOOLEAN, plan : {0} \union Eps, fallback : BOOLEAN,
            avoiding : BOOLEAN, course : BOOLEAN, waypoint : BOOLEAN, validAt : Nat, enabled : BOOLEAN,
            law : {"none", "course", "route"}]

ShellTypes ==
    /\ s1 \in [Modules -> {"none", "starting", "up", "exiting", "gone"}]
    /\ s2 \subseteq Modules /\ s3 \in Seq(Modules)
    /\ s4 \in [Modules -> Seq(Cmds)] /\ s5 \in [Modules -> Seq(AnyCmds)]
    /\ s6 \in [Modules -> [op : {"none", "STEP", "RESET"}, ep : Nat, n : Nat]]
    /\ s7 \in [op : {"idle", "accept", "step", "spin", "reset", "discover"}, k : Nat]
    /\ s8 \in [ep : Nat, n : Nat, apply : BOOLEAN, returned : BOOLEAN, cold : BOOLEAN, whole : BOOLEAN]

(* A connection is of one process, which has started, and is accepted once.   *)
Connected ==
    /\ \A i, j \in DOMAIN s3 : s3[i] = s3[j] => i = j
    /\ \A i \in DOMAIN s3 : s3[i] \notin s2 /\ s1[s3[i]] # "starting"
    /\ \A m \in s2 : s1[m] # "starting"
    /\ s8.whole => \A m \in Modules : \E i \in DOMAIN s3 : s3[i] = m

(* What has been published and what the callbacks made of it is of an         *)
(* episode in Eps, and the avoidance has its course.                          *)
Believed == s9 \in [ShellB!Topics -> Seq(Msgs)] /\ s10 \in Ctls /\ (s10.avoiding => s10.course)

(* A client that neither hears nor has left an answer stops every later call  *)
(* that reads.  Without one, each client owes the answer to the command of    *)
(* this call until its turn has come, and has nothing else under way.         *)
Deaf(m)      == ~ShellB!Hears(m) /\ s5[m] = <<>>
Quiet(m)     == s4[m] = <<>> /\ s5[m] = <<>>
Asked(op)    == [op |-> op, ep |-> s8.ep, n |-> s8.n]
Done(m, op)  == Quiet(m) /\ s6[m] = Asked(op)
Owes(m, op)  == \/ s4[m] = <<Asked(op)>> /\ s5[m] = <<>>
                \/ s4[m] = <<>> /\ s5[m] = <<Asked(op)>> /\ s6[m] = Asked(op)
Reading(op)  ==
    /\ s7.k \in DOMAIN s3
    /\ \/ \E i \in DOMAIN s3 : i >= s7.k /\ Deaf(s3[i])
       \/ \A i \in DOMAIN s3 : IF i < s7.k THEN Done(s3[i], op) ELSE Owes(s3[i], op)

Protocol ==
    /\ s7.op = "idle" => (\E i \in DOMAIN s3 : Deaf(s3[i])) \/ (\A i \in DOMAIN s3 : Quiet(s3[i]))
    /\ s7.op = "accept" => ~s8.whole /\ s8.n = 0 /\ \A m \in Modules : Quiet(m)
    /\ s7.op = "step" => Reading("STEP")
    /\ s7.op = "reset" => Reading("RESET") /\ s8.n = 0
    /\ s7.op = "spin" => \A i \in DOMAIN s3 : Done(s3[i], "STEP")
    /\ s7.op = "discover" => s8.n = 0 /\ \A i \in DOMAIN s3 : Quiet(s3[i])
    /\ s8.returned => s7.op = "idle"
    /\ s8.returned /\ s8.n > 0 =>
          \A i \in DOMAIN s3 : Quiet(s3[i]) /\ s6[s3[i]] = [op |-> "STEP", ep |-> s8.ep, n |-> s8.n - 1]

ShellInv == ShellTypes /\ Connected /\ Believed /\ Protocol

LEMMA ShellInit == ShellB!Init => ShellInv
<1> SUFFICES ASSUME ShellB!Init PROVE ShellInv
    OBVIOUS
<1>1. /\ s1 = [m \in Modules |-> "none"] /\ s2 = {} /\ s3 = <<>>
      /\ s4 = [m \in Modules |-> <<>>] /\ s5 = [m \in Modules |-> <<>>]
      /\ s6 = [m \in Modules |-> [op |-> "none", ep |-> 0, n |-> 0]]
      /\ s7 = [op |-> "idle", k |-> 0] /\ s9 = [t \in ShellB!Topics |-> <<>>]
    BY DEF ShellB!Init, ShellB!Empty, ShellB!Idle
<1>2. PICK a \in BOOLEAN :
        s8 = [ep |-> 0, n |-> 0, apply |-> a, returned |-> FALSE, cold |-> FALSE, whole |-> FALSE]
    BY DEF ShellB!Init
<1>3. Eps = Nat  BY <1>2 DEF Eps
<1>4. /\ s8 \in [ep : Nat, n : Nat, apply : BOOLEAN, returned : BOOLEAN, cold : BOOLEAN, whole : BOOLEAN]
      /\ ~s8.returned /\ ~s8.whole
    BY <1>2
<1>5. ShellTypes  BY <1>1, <1>4 DEF ShellTypes
<1>6. Connected  BY <1>1, <1>4 DEF Connected
<1>7. Believed
  <2>1. s9 \in [ShellB!Topics -> Seq(Msgs)]  BY <1>1
  <2>2. s10 = [odd |-> 0, allows |-> FALSE, plan |-> 0, fallback |-> FALSE, avoiding |-> FALSE, course |-> FALSE,
               waypoint |-> FALSE, validAt |-> 0, enabled |-> FALSE, law |-> "none"]
      BY DEF ShellB!Init, ShellB!Fresh
  <2>3. s10 \in Ctls  BY <1>3, <2>2 DEF Ctls
  <2> QED  BY <2>1, <2>2, <2>3 DEF Believed
<1>8. Protocol  BY <1>1, <1>4 DEF Protocol
<1> QED  BY <1>5, <1>6, <1>7, <1>8 DEF ShellInv

(* What changes neither the clients nor what is under way, and lets no deaf   *)
(* client hear again, keeps the protocol.                                     *)
LEMMA ProtocolKeeps ==
    ASSUME Protocol, UNCHANGED <<s3, s4, s5, s6, s7, s8>>,
           \A i \in DOMAIN s3 : Deaf(s3[i]) => Deaf(s3[i])'
    PROVE  Protocol'
BY DEF Protocol, Reading, Done, Owes, Quiet, Asked

LEMMA ShellProcs ==
    ASSUME ShellInv, NEW m \in Modules, ShellB!Connect(m) \/ ShellB!Exit(m) \/ ShellB!Gone(m)
    PROVE  ShellInv'
<1>1. ShellTypes /\ Connected /\ Believed /\ Protocol  BY DEF ShellInv
<1>2. PICK v \in {"up", "exiting", "gone"} :
        /\ s1' = [s1 EXCEPT ![m] = v]
        /\ s1[m] = "starting" \/ v # "up"
        /\ s2' = IF v = "up" THEN s2 \union {m} ELSE s2
    BY DEF ShellB!Connect, ShellB!Exit, ShellB!Gone
<1>3. UNCHANGED <<s3, s4, s5, s6, s7, s8, s9, s10>>
    BY DEF ShellB!Connect, ShellB!Exit, ShellB!Gone
<1>4. s1'[m] = v /\ \A x \in Modules : x # m => s1'[x] = s1[x]
    BY <1>1, <1>2 DEF ShellTypes
<1>5. \A i \in DOMAIN s3 : s3[i] \in Modules  BY <1>1 DEF ShellTypes
<1>6. ShellTypes'
    BY <1>1, <1>2, <1>3, Zenon DEF ShellTypes, Cmds, Eps
<1>7. Connected'
  <2>1. ASSUME NEW i \in DOMAIN s3 PROVE s3[i] \notin s2' /\ s1'[s3[i]] # "starting"
    <3>1. v = "up" => s1[m] = "starting"  BY <1>2
    <3>2. s3[i] \notin s2 /\ s1[s3[i]] # "starting"  BY <1>1 DEF Connected
    <3> QED  BY <1>2, <1>4, <1>5, <3>1, <3>2
  <2>2. \A x \in s2' : s1'[x] # "starting"
      BY <1>1, <1>2, <1>4 DEF Connected, ShellTypes
  <2> QED  BY <1>1, <1>3, <2>1, <2>2 DEF Connected
<1>8. Believed'  BY <1>1, <1>3, Zenon DEF Believed, Msgs, Ctls, Eps
<1>9. Protocol'
  <2>1. ASSUME NEW i \in DOMAIN s3, Deaf(s3[i]) PROVE Deaf(s3[i])'
    <3>1. s1[s3[i]] \notin {"starting", "up"}  BY <2>1 DEF Deaf, ShellB!Hears
    <3>2. s1'[s3[i]] \notin {"starting", "up"}  BY <1>2, <1>4, <1>5, <3>1
    <3> QED  BY <1>3, <2>1, <3>2 DEF Deaf, ShellB!Hears
  <2> QED  BY <1>1, <1>3, <2>1, ProtocolKeeps
<1> QED  BY <1>6, <1>7, <1>8, <1>9 DEF ShellInv

(* A command is executed: its answer is the client's.                         *)
LEMMA ShellServe ==
    ASSUME ShellInv, NEW m \in Modules, ShellB!Serve(m)
    PROVE  ShellInv'
<1>1. ShellTypes /\ Connected /\ Believed /\ Protocol  BY DEF ShellInv
<1>2. ShellB!Hears(m) /\ s4[m] # <<>> /\ UNCHANGED <<s1, s2, s3, s7, s8, s10>>
    BY DEF ShellB!Serve
<1>3. s4[m] \in Seq(Cmds) /\ Head(s4[m]) \in Cmds /\ Tail(s4[m]) \in Seq(Cmds)
    BY <1>1, <1>2, HeadTailProperties DEF ShellTypes
<1>4. PICK cmd \in Cmds : cmd = Head(s4[m])  BY <1>3
<1>5. cmd \in AnyCmds /\ cmd.ep \in Eps
    BY <1>1 DEF Cmds, AnyCmds, Eps, ShellTypes
<1>6. /\ s4' = [s4 EXCEPT ![m] = Tail(s4[m])]
      /\ s5' = [s5 EXCEPT ![m] = Append(s5[m], cmd)]
      /\ s6' = [s6 EXCEPT ![m] = cmd]
    BY <1>4 DEF ShellB!Serve
<1>7. ShellTypes'
  <2>1. s4' \in [Modules -> Seq(Cmds)]  BY <1>1, <1>3, <1>6 DEF ShellTypes
  <2>2. s5' \in [Modules -> Seq(AnyCmds)]
    <3>1. Append(s5[m], cmd) \in Seq(AnyCmds)  BY <1>1, <1>5, AppendProperties DEF ShellTypes
    <3> QED  BY <1>1, <1>6, <3>1 DEF ShellTypes
  <2>3. s6' \in [Modules -> [op : {"none", "STEP", "RESET"}, ep : Nat, n : Nat]]
      BY <1>1, <1>5, <1>6, Zenon DEF ShellTypes, AnyCmds
  <2>4. Cmds' = Cmds  BY <1>2 DEF Cmds, Eps
  <2> QED  BY <1>1, <1>2, <2>1, <2>2, <2>3, <2>4, Zenon DEF ShellTypes
<1>8. Connected'  BY <1>1, <1>2 DEF Connected
<1>9. Believed'
  <2>1. Msgs' = Msgs /\ Ctls' = Ctls  BY <1>2 DEF Msgs, Ctls, Eps
  <2>2. CASE s9' = s9
      BY <1>1, <1>2, <2>1, <2>2 DEF Believed
  <2>3. ASSUME NEW t \in ShellB!Topics, NEW f \in BOOLEAN,
               s9' = ShellB!Published([topic |-> t, ep |-> cmd.ep, flag |-> f])
        PROVE  Believed'
    <3>1. PICK msg \in Msgs : msg = [topic |-> t, ep |-> cmd.ep, flag |-> f]
        BY <1>5, Zenon DEF Msgs
    <3>2. msg.topic = t  BY <3>1
    <3>3. PICK q \in Seq(Msgs) : q = Append(s9[t], msg) /\ q # <<>>
        BY <1>1, AppendProperties, Zenon DEF Believed
    <3>4. Tail(q) \in Seq(Msgs)  BY <3>3, HeadTailProperties
    <3>5. s9' = [s9 EXCEPT ![t] = IF Len(q) > KeepLast THEN Tail(q) ELSE q]
        BY <2>3, <3>1, <3>2, <3>3 DEF ShellB!Published
    <3>6. s9' \in [ShellB!Topics -> Seq(Msgs)]  BY <1>1, <3>4, <3>5 DEF Believed
    <3> QED  BY <1>1, <1>2, <2>1, <3>6 DEF Believed
  <2> QED  BY <1>4, <2>2, <2>3, Zenon DEF ShellB!Serve
<1>10. ASSUME NEW x \in Modules, x # m
       PROVE  s4'[x] = s4[x] /\ s5'[x] = s5[x] /\ s6'[x] = s6[x] /\ (Deaf(x) => Deaf(x)')
  <2>1. s4'[x] = s4[x] /\ s5'[x] = s5[x] /\ s6'[x] = s6[x]  BY <1>1, <1>6, <1>10 DEF ShellTypes
  <2> QED  BY <1>2, <2>1 DEF Deaf, ShellB!Hears
<1>11. ~Deaf(m) /\ ~Quiet(m)  BY <1>2 DEF Deaf, Quiet
<1>12. ASSUME NEW op \in {"STEP", "RESET"}, Owes(m, op) PROVE Owes(m, op)'
  <2>1. s4[m] = <<Asked(op)>> /\ s5[m] = <<>>  BY <1>2, <1>12 DEF Owes
  <2>2. cmd = Asked(op) /\ Tail(s4[m]) = <<>>  BY <1>4, <2>1
  <2>3. Append(s5[m], cmd) = <<cmd>>  BY <2>1
  <2>4. s4'[m] = <<>> /\ s5'[m] = <<cmd>> /\ s6'[m] = cmd  BY <1>1, <1>6, <2>2, <2>3 DEF ShellTypes
  <2>5. Asked(op)' = Asked(op)  BY <1>2 DEF Asked
  <2> QED  BY <2>2, <2>4, <2>5 DEF Owes
<1>13. \A i \in DOMAIN s3 : s3[i] \in Modules  BY <1>1 DEF ShellTypes
<1>14. Protocol'
  <2>1. ASSUME NEW i \in DOMAIN s3, Deaf(s3[i]) PROVE Deaf(s3[i])'
      BY <1>2, <1>10, <1>11, <1>13, <2>1 DEF Deaf, ShellB!Hears
  <2>2. ASSUME NEW i \in DOMAIN s3, Quiet(s3[i]) PROVE Quiet(s3[i])' /\ s6'[s3[i]] = s6[s3[i]]
      BY <1>2, <1>10, <1>11, <1>13, <2>2 DEF Quiet
  <2>3. ASSUME NEW op \in {"STEP", "RESET"}
        PROVE  \A i \in DOMAIN s3 : /\ Done(s3[i], op) => Done(s3[i], op)'
                                    /\ Owes(s3[i], op) => Owes(s3[i], op)'
    <3>1. Asked(op)' = Asked(op)  BY <1>2 DEF Asked
    <3>2. ASSUME NEW i \in DOMAIN s3, Done(s3[i], op) PROVE Done(s3[i], op)'
        BY <1>2, <2>2, <3>1, <3>2 DEF Done, Quiet
    <3>3. ASSUME NEW i \in DOMAIN s3, Owes(s3[i], op) PROVE Owes(s3[i], op)'
      <4>1. CASE s3[i] = m
          BY <1>2, <1>12, <3>1, <3>3, <4>1 DEF Owes
      <4>2. CASE s3[i] # m
          BY <1>2, <1>10, <1>13, <3>1, <3>3, <4>2 DEF Owes
      <4> QED  BY <4>1, <4>2
    <3> QED  BY <3>2, <3>3
  <2>4. ASSUME NEW op \in {"STEP", "RESET"}, Reading(op) PROVE Reading(op)'
      BY <1>2, <2>1, <2>3, <2>4 DEF Reading
  <2>5. s7.op # "accept"  BY <1>1, <1>11 DEF Protocol
  <2> QED  BY <1>1, <1>2, <2>1, <2>2, <2>3, <2>4, <2>5 DEF Protocol
<1> QED  BY <1>7, <1>8, <1>9, <1>14 DEF ShellInv

(* A callback keeps what the autopilot keeps well formed, and its course.     *)
LEMMA CallbacksKeepCourse ==
    ASSUME ShellTypes, NEW c \in Ctls, c.avoiding => c.course, NEW msg \in Msgs,
           NEW d, d \in {ShellB!CbOdd(c, msg), ShellB!CbBehavior(c, msg), ShellB!CbAvoidance(c, msg)}
    PROVE  d \in Ctls /\ (d.avoiding => d.course)
<1>1. s8.n \in Nat /\ msg.ep \in Eps /\ msg.flag \in BOOLEAN  BY DEF ShellTypes, Msgs
<1>2. CASE d = ShellB!CbOdd(c, msg)
  <2>1. d = [c EXCEPT !.odd = msg.ep, !.allows = msg.flag]  BY <1>2 DEF ShellB!CbOdd
  <2> QED  BY <1>1, <2>1, Zenon DEF Ctls
<1>3. CASE d = ShellB!CbBehavior(c, msg)
  <2>1. PICK turned \in BOOLEAN : turned = (c.course \/ c.avoiding)  BY Zenon
  <2>2. d = [c EXCEPT !.plan = msg.ep, !.fallback = msg.flag, !.course = turned]
      BY <1>3, <2>1 DEF ShellB!CbBehavior
  <2> QED  BY <1>1, <2>1, <2>2, Zenon DEF Ctls
<1>4. CASE d = ShellB!CbAvoidance(c, msg)
  <2>1. CASE ~msg.flag
    <3>1. PICK kept \in BOOLEAN : kept = (c.course /\ ~c.avoiding)  BY Zenon
    <3>2. d = [c EXCEPT !.avoiding = FALSE, !.course = kept]  BY <1>4, <2>1, <3>1 DEF ShellB!CbAvoidance
    <3> QED  BY <3>2, Zenon DEF Ctls
  <2>2. CASE msg.flag /\ ~c.avoiding /\ c.plan # 0
    <3>1. d = [[c EXCEPT !.validAt = s8.n, !.waypoint = TRUE] EXCEPT !.avoiding = TRUE, !.course = TRUE]
        BY <1>4, <2>2 DEF ShellB!CbAvoidance
    <3> QED  BY <1>1, <3>1, Zenon DEF Ctls
  <2>3. CASE msg.flag /\ ~(~c.avoiding /\ c.plan # 0)
    <3>1. d = [c EXCEPT !.validAt = s8.n, !.waypoint = TRUE]  BY <1>4, <2>3 DEF ShellB!CbAvoidance
    <3> QED  BY <1>1, <3>1, Zenon DEF Ctls
  <2> QED  BY <1>1, <2>1, <2>2, <2>3
<1> QED  BY <1>2, <1>3, <1>4

(* The law of a step is by a course or none of the avoidance's.               *)
LEMMA AutopilotKeepsCourse ==
    ASSUME NEW c \in Ctls, c.avoiding => c.course, NEW d, d = ShellB!ComputeAutopilot(c)
    PROVE  d \in Ctls /\ (d.avoiding => d.course)
<1>1. PICK avoids \in BOOLEAN : avoids = (c.avoiding /\ s8.apply)  BY Zenon
<1>2. PICK enabled \in BOOLEAN :
        enabled = (c.allows /\ (s8.n > c.validAt + StaleSteps \/ c.fallback \/ ~s8.apply))
    BY Zenon
<1>3. avoids => c.course  BY <1>1, Zenon
<1>4. PICK law \in {"none", "course", "route"} : d = [c EXCEPT !.enabled = enabled, !.avoiding = avoids, !.law = law]
  <2>1. CASE avoids
    <3>1. d = [c EXCEPT !.enabled = enabled, !.avoiding = avoids, !.law = "course"]
        BY <1>1, <1>2, <1>3, <2>1, Zenon DEF ShellB!ComputeAutopilot
    <3> QED  BY <3>1
  <2>2. CASE ~avoids /\ enabled
    <3>1. d = [c EXCEPT !.enabled = enabled, !.avoiding = avoids, !.law = "route"]
        BY <1>1, <1>2, <2>2, Zenon DEF ShellB!ComputeAutopilot
    <3> QED  BY <3>1
  <2>3. CASE ~avoids /\ ~enabled
    <3>1. d = [c EXCEPT !.enabled = enabled, !.avoiding = avoids, !.law = "none"]
        BY <1>1, <1>2, <2>3, Zenon DEF ShellB!ComputeAutopilot
    <3> QED  BY <3>1
  <2> QED  BY <2>1, <2>2, <2>3
<1>5. d.avoiding = avoids /\ d.course = c.course  BY <1>4 DEF Ctls
<1> QED  BY <1>3, <1>4, <1>5, Zenon DEF Ctls

LEMMA ShellSpins ==
    ASSUME ShellTypes, Believed, ShellB!SpinOnce, s8'.cold = s8.cold, s8'.ep = s8.ep
    PROVE  Believed'
<1>1. Msgs' = Msgs /\ Ctls' = Ctls  BY DEF Msgs, Ctls, Eps
<1>2. CASE UNCHANGED <<s9, s10>>
    BY <1>1, <1>2 DEF Believed
<1>3. ASSUME NEW t \in ShellB!Topics, s9[t] # <<>>,
             s10' \in {ShellB!CbOdd(s10, Head(s9[t])), ShellB!CbBehavior(s10, Head(s9[t])),
                       ShellB!CbAvoidance(s10, Head(s9[t]))},
             s9' = [s9 EXCEPT ![t] = Tail(s9[t])]
      PROVE  Believed'
  <2>1. Head(s9[t]) \in Msgs /\ Tail(s9[t]) \in Seq(Msgs)  BY <1>3, HeadTailProperties DEF Believed
  <2>2. s9' \in [ShellB!Topics -> Seq(Msgs)]  BY <1>3, <2>1 DEF Believed
  <2>3. s10 \in Ctls /\ (s10.avoiding => s10.course)  BY DEF Believed
  <2>4. s10' \in Ctls /\ (s10'.avoiding => s10'.course)  BY <1>3, <2>1, <2>3, CallbacksKeepCourse
  <2> QED  BY <1>1, <2>2, <2>4 DEF Believed
<1> QED  BY <1>2, <1>3 DEF ShellB!SpinOnce
=============================================================================
