\* M7 demands the MRC while M1 prepares it.
SPECIFICATION Spec
CONSTANTS
  InToEdge = 80
  EdgeToOut = 50
  StaleFactor = 50
  NaN = NaN
  TauTicks = 1
  TmrMin = 120
  TmrMax = 2400
  TdlMin = 140
  TdlMax = 2400
  TmrBaseline = 240
  TorMatrix <- MCTorMatrix
  ScoringCases <- OnlyNominal
  Alerts <- VetoAlerts
  Tcpas = {}
  Operators = {}
  Goals = {}
  AlertTimeout = 0
  WorldTimeout = 0
  HeartbeatTimeout = 0
  AgeCap = 1
  Uptime = 50
  StaleThreshold = 2
  DurationCap = 3
  Redundancy = TRUE
PROPERTY MrcRequiredActivates
