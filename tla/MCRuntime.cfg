SPECIFICATION Spec
CONSTANTS
  MaxTor = 3
  Routes = {"r1", "r2"}
  NoRoute = "none"
  MaxPlans = 4
  MaxChanges = 4
  ReactionDelay = 1
  ClearDwell = 2
  Turn = 1
  MaxTargets = 2
  Targets = {1}
  MaxAge = 2
  AisPeriod = 4
  MaxRuns = 2
  VetoCapacity = 5
  Layers = {"L3", "L2"}
INVARIANT NothingStale
PROPERTIES
  TargetTakesItsTime
  EverythingGetsDone
  WindowImplements
  QuietWindowDrains
CHECK_DEADLOCK FALSE
