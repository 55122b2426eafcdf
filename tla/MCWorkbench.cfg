SPECIFICATION Spec
CONSTANTS
    Streams = {1, 2}
    NoStream = 0
    MaxFailed = 1
    GateRuns = 1
    Roles = {"planner", "gnc"}
    Plugins = {"p1", "p2", "g1"}
    Core = {"orchestrator", "tdl"}
    RoleOf <- MCRoleOf
    ProfileRoles <- MCProfileRoles
    MaxCommands = 3
    StoreIds = {1, 2, 3, 4}
    Contents = {"x", "y"}
    Baseline = {"imazu"}
    InitFiles <- MCInitFiles
    MaxWrites = 3
    BagRows <- MCBagRows
    MaxBag = 2
    Tasks = {1, 2}
    Owners = {1, 2}
    SessionScenarios = {"h", "c"}
    MaxSuffix = 2
    MaxArchives = 3
    Threads = {1, 2}
    InlineEvery = 2
    MaxBuf = 2
    RotateSize = 2
    MaxRecords = 3
    WriterRuns = 1
    MaxFaults = 1
    OutLimit = 1
    DisplayTicks = 4
    MockScenarios = {"n", "d", "u"}
    NoScenario = "none"
    Kind <- MCKind
    Labelled = {"d"}
    FirstFile = "n"
    MaxStamp = 2
    MockMessages = 4
    Dt = 2
    Period = 4
    MaxClock = 11
    ShipRuns = 2
    Winds = {0, 7}
    DefaultWind = 5
    WindSteps = 3
    WindRuns = 3
    Distances = {10, 40}
    RuleStates <- MCRuleStates
    MaxTargets = 3
    KeepTargets = 2
    BatchSize = 2
    MaxScores = 3
    Bands <- MCBands
    Headings = {0, 6}
    AvoidRate = 10
    RouteRate = 5
    WaypointRudder = 20
    StaleTicks = 1
    PilotTicks = 4
    MaxReleases = 2
    Modules = {"doer", "m7"}
    StaleSteps = 0
    KeepLast = 1
    MaxCalls = 4
    MaxExits = 1
    MaxMessages = 2
INVARIANTS
    GoIsEarned
    EvidenceHolds
    NodesReplayFaithfully
    SteersByItsOwnRun
    VerdictFitsRun
    FastVerdictFitsTrace
    GreenOracleMeansDuty
    ScenarioMeansOneThing
CHECK_DEADLOCK FALSE
