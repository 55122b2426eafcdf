\* Both clock modes, two runs, rates that pause, play and outrun the catch-up cap.
SPECIFICATION Spec
CONSTANTS
  Scenarios = {s1, s2}
  NoScenario = none
  Clients = {c1, c2}
  LockstepClients = 2
  Rates = {0, 1, 3}
  MaxCatchupTicks = 2
  MaxWall = 3
  MaxSim = 4
INVARIANTS
  NeverAheadOfWall
  RunIsTogether
PROPERTIES
  StoppedClockStays
  DeactivateReturns
