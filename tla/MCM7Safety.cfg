\* Every monitor in every state, and every hard constraint; two watched modules.
SPECIFICATION Spec
CONSTANTS
  Modules = {"M2", "M5"}
  Timeout <- MCTimeout
  Tolerance <- MCTolerance
  SilenceCap = 2
  LossCap = 2
  Lockout = 2
  AisDuration = 1
  MotionWindow = 1
  ColregsFailures = 1
  NlpFailures = 1
  kCapacity = 1
  OddStates <- SeaAndHarbour
  WorldStates <- AllWorlds
  ColregsConstraints <- AllRules
  AvoidancePlans <- AllPlans
  Trends = {TRUE, FALSE}
  Layers = {"L3"}
  Freezes = {}
  Overrides = {}
INVARIANTS
  TypeOK
  LossMeansSilence
  CriticalNamesMrm
