\* One client after another, with the timers, failed injections, and one lost transition
\* or timed-out call.
SPECIFICATION Spec
CONSTANTS
  Scenarios = {s1, s2}
  NoScenario = none
  Nodes = {n1, n2}
  Partial = {s2}
  TargetNodes = {n2}
  Timed = {s1}
  Requests = {r1}
  MaxOps = 5
  MaxFaults = 1
CHECK_DEADLOCK FALSE
INVARIANTS
  BridgeAndNodesAgree
  ConfiguredIsInjected
PROPERTY RunEnds
