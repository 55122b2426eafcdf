\* What must happen in the end: recovery, overrides, the watchdog on M3.
SPECIFICATION Spec
CONSTANTS
  InToEdge = 80
  EdgeToOut = 50
  StaleFactor = 50
  NaN = NaN
  TauTicks = 2
  TmrMin = 120
  TmrMax = 2400
  TdlMin = 140
  TdlMax = 2400
  TmrBaseline = 240
  TorMatrix <- MCTorMatrix
  ScoringCases <- OnlyNominal
  Alerts = {"WARNING", "CRITICAL"}
  Tcpas = {}
  Operators = {}
  Goals <- MCGoals
  AlertTimeout = 1
  WorldTimeout = 0
  HeartbeatTimeout = 1
  AgeCap = 2
  Uptime = 3
  StaleThreshold = 1
  DurationCap = 2
  Redundancy = TRUE
INVARIANTS
  TypeOK
  ConcernOncePerEpisode
PROPERTIES
  StaleGoalReported
  Recovers
  OverrideReaches
