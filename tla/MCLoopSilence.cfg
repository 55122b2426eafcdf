\* M2 may fall silent.
SPECIFICATION Spec
CONSTANTS
  Modules = {"M2"}
  Timeout <- MCTimeout
  Tolerance <- MCTolerance
  SilenceCap = 2
  LossCap = 2
  Lockout = 1
  AisDuration = 1
  MotionWindow = 1
  ColregsFailures = 1
  NlpFailures = 1
  kCapacity = 1
  OddStates = {}
  WorldStates <- ClearWorlds
  ColregsConstraints = {}
  AvoidancePlans <- GoodPlans
  Trends = {FALSE}
  Layers = {}
  Freezes = {}
  Overrides = {}
  InToEdge = 80
  EdgeToOut = 50
  StaleFactor = 50
  NaN = NaN
  TauTicks = 1
  TmrMin = 120
  TmrMax = 2400
  TdlMin = 140
  TdlMax = 2400
  TmrBaseline = 240
  TorMatrix <- MCTorMatrix
  ScoringCases <- Sailing
  Alerts = {"WARNING", "CRITICAL", "MRC_REQUIRED"}
  Tcpas = {}
  Operators = {}
  Goals = {}
  AlertTimeout = 0
  WorldTimeout = 0
  HeartbeatTimeout = 0
  AgeCap = 1
  Uptime = 1
  StaleThreshold = 2
  DurationCap = 3
  Redundancy = TRUE
  Depth = 2
PROPERTIES
  SilenceClosesEnvelope
