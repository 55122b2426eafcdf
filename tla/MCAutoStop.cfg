\* A timed scenario that is left to its auto-stop timer.
SPECIFICATION Spec
CONSTANTS
  Scenarios = {s1, s2}
  NoScenario = none
  Nodes = {n1, n2}
  Partial = {s2}
  TargetNodes = {n2}
  Timed = {s1}
  Requests = {r1}
  MaxOps = 2
  MaxFaults = 0
CHECK_DEADLOCK FALSE
INVARIANT AutoStopReachesNodes
