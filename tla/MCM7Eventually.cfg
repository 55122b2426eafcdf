\* Modules fall silent and speak again, assumptions are violated and mended; overrides and reflexes.
SPECIFICATION Spec
CONSTANTS
  Modules = {"M2"}
  Timeout <- MCTimeout
  Tolerance <- MCTolerance
  SilenceCap = 2
  LossCap = 2
  Lockout = 2
  AisDuration = 1
  MotionWindow = 1
  ColregsFailures = 1
  NlpFailures = 2
  kCapacity = 1
  OddStates = {}
  WorldStates <- MendedWorlds
  ColregsConstraints <- MaybeSolved
  AvoidancePlans <- MendedPlans
  Trends = {FALSE}
  Layers = {"L3"}
  Freezes = {TRUE, FALSE}
  Overrides = {TRUE, FALSE}
PROPERTIES
  SilentReported
  SelectionCatchesUp
  QuietAgain
