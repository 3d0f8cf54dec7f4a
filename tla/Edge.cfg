SPECIFICATION EdgeSpec
CONSTANTS
    PortScanThreshold = 2
    BeaconMinFlows = 3
    BeaconMinInterval = 5
    BeaconTolerance = 15
    ExfilBytes = 10
    BruteForceThreshold = 2
    DnsTunnelSize = 5
    DnsTunnelFlows = 2
    LateralThreshold = 2
    AuthPorts = {22}
    LateralPorts = {22}
    DnsPort = 53
    Internal = {"in", "in2"}
    Flows <- MCEngineFlows
    MaxBuffer = 3
    ModelOn = TRUE
    MlMaxWindows = 1
    MaxFed = 4
    Records = {1, 2, 8, 9}
    WellFormed = {1, 2}
    Limit = 1
    Capacity = 1
    Slots = {s1, s2}
    Wirings <- MCWirings
    Foreign = {8, 9}
    MaxOutages = 1
    Bridges = {suricata}
    Attempts = 2
    SpoolMax = 1
    MaxKills = 1
    Lines <- MCLines
    Bridge = "suricata"
    MaxQuiet = 2
    Sensors = {p1, p2}
    Interval = 2
    FirstRetry = 1
    StaleAfter = 6
    MaxSensors = 1
    MaxEvents = 2
    Credentials = {"k"}
    Addresses = {"a", "b"}
    PerCredential = 2
    PerAddress = 1
    Minute = 3
    Ttl = 3
    MaxTracked = 2
    StoredFlows <- MCStoredFlows
    ReadWindows <- MCReadWindows
    ReadSources = {"rollup", "store"}
    Readers = {r1}
    RetentionMinutes = 2
    MaxNodes = 3
    MaxEdges = 2
    MaxEntries = 6
    EntityLimit = 2
    MaxAppends = 2
    LogLines <- MCLogLines
    LogWindows <- MCLogWindows
    MaxLines = 3
    MaxAge = 2
    LogLimit = 1
    MaxBatches = 3
    MaxNow = 4
    SplitWindows <- MCSplitWindows
    BucketOf <- MCBucketOf
    ValueOf <- MCValueOf
    TestCut = 1
    ValidCut = 2
    TestTenths = 2
    ValidTenths = 3
    MaxCorpus = 3
    Tuples <- MCTuples
    MaxFlows = 2
    MaxPackets = 4
    MaxRefusals = 2
    ScoreTop = 4
    HistogramBins = 2
    SweepSteps = 3
    Parts = 6
    MaxExamples = 3
    DriftFlows <- MCDriftFlows
    BufferedFlows = 3
    RecentFlows = 2
    MaxFedFlows = 4
    MaxStarts = 2
    Bins = 3
    Samples <- MCSamples
    Ids = {"a", "b", "c", "latest"}
    ForbiddenIds = {"latest"}
    RegistryKindOf <- MCRegistryKindOf
    ScoreValues = {1, 2}
    AlertScore = 2
    MaxMoves = 4
    MaxShadowed = 2
    Scorers = {t1, t2}
    WindowFlows <- MCWindowFlows
    NetScores = {500, 1000}
    MaxScored = 2
    Publishers = {f1, f2}
    BatchSizes = {1, 2}
    MaxSent = 2
    TopicAttempts = 2
    MaxBytes = 2
    ChunkSizes = {0, 1, 2}
    MaxChunks = 3
    MaxDeclared = 3
    Deployments <- MCDeployments
INVARIANTS
    EdgeTypeOK
    ScannedOnceInOrder
    AdmissionIsHonest
    NothingLostOnTheWay
    NothingLeftBehind
    RunningSensorsRecover
    ReadsAnswerAsTheStore
    SplitsAreAudited
    MeasuresMeanWhatTheySay
    ServiceKnowsItsModels
PROPERTIES
    WorkIsFinished
CHECK_DEADLOCK FALSE
