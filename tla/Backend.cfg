SPECIFICATION BackendSpec
CONSTANTS
    Threads = {t1, t2}
    Versions = {"a", "b", "c"}
    Kinds = {"flow"}
    KindOf <- OneKind
    Addressed = {"a", "b", "c"}
    Manifested = {"b", "c"}
    Reports <- MCReports
    Registrar = registrar
    MaxHistory = 2
    AlertIds = {1}
    Analysts = {"ann", "bob"}
    Decisions = {"benign", "threat"}
    MaxVerdicts = 3
    Cases = {"c1", "c2", "c3"}
    EntityOf <- MCEntityOf
    CaseBands = {1, 2}
    KnownBands = {1, 2}
    Queries <- MCQueries
    PageLimit = 1
    BucketWidth = 2
    ListLimit = 2
    MaxTime = 2
    Scale = 10
    BandDefaults <- MCBandDefaults
    Guardrail = 2
    MinFeedback = 1
    Proposals = {8}
    AlertScore <- MCAlertScore
    BenignLabels = {"benign"}
    Urls = {"u", "x"}
    WellFormed = {"u", "x"}
    Allowlist = {"u"}
    Floors = {1}
    HasSender = TRUE
    MaxAttempts = 5
    BaseSeconds = 1
    Factor = 2
    MaxSeconds = 60
    Timeout = 10
    ReplayWindow = 300
    MaxRecords = 1
    MaxDeliveries = 2
    MonthStarts <- MCMonthStarts
    RawDays = 1
    AlertsDays = 1
    StatsDays = 2
    PartitionedTables = {"alerts"}
    RawTables = {"flow_events"}
    Entities = {"e"}
    Runners = {"scheduler", "operator"}
    BatchRows = 1
    MaxBatches = 1
    MaxRows = 2
    MaxRuns = 2
    Subjects <- MCSubjects
    MaxLedgerLimit = 2
    MaxAdds = 2
    Actors = {"root", "bob"}
    AuditQueries <- MCAuditQueries
    AuditLimit = 1
    MaxEntries = 3
    MaxInstant = 1
    Families = {scan, brute}
    Scores = {4, 10}
    Times = {0, 1, 3}
    CoolDown = 2
    GroupWindow = 1
    Retention = 2
    Bands <- DefaultBands
    MaxWindows = 4
SYMMETRY Perms
INVARIANTS
    BackendTypeOK
    ServingFollowsHistory
    HistoryIsAChain
    ReadsAreExact
    EditsKeepBandOrder
    DeliveriesAreHonest
    RecordedMeansErased
    CasesAreTrue
PROPERTIES
    KeepsItsPromise
    CountsEachWindowOnce
    NeverDeescalates
CHECK_DEADLOCK FALSE
