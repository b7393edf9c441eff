SPECIFICATION OperationsSpec
CONSTANTS
    c1 = c1
    c2 = c2
    t1 = t1
    t2 = t2
    d1 = d1
    x1 = x1
    FleetNodes = {x1}
    Tokens = {t1, t2}
    Calls = {c1, c2}
    AgentStates = {"RUNNING"}
    MaxLeaves = 2
    MaxFleetRestarts = 1
    Subjects = {"n1"}
    MaxCA = 3
    MaxCerts = 2
    Passphrases = {"unset", "p1"}
    Layers = 4
    Overhead = 1
    PlanDelta = 2
    HKThreshold = 3
    TwoOptMaxPasses = 2
    MissingLink = 50
    Jobs <- MCJobs
    Configs <- MCConfigs
    CfgModels = {"m1"}
    CfgEntries <- MCEntries
    CfgOrgs = {"o1"}
    CfgTeams = {"t1", "t2"}
    CfgPools = {"p1"}
    CfgNodes = {"n1"}
    HttpApplies = {"q1"}
    MaxEdits = 2
    MaxDeps = 2
    ApplyFaults = TRUE
    Names <- MCNames
    CPUSlug <- MCSlug
    MaxVersion = 1
    RandSuffixes = {x1}
    CatReqs = {c1, c2}
    MaxDeployments = 2
    MaxQueued = 1
    Licences = {TRUE, FALSE}
    Callers = {c1, c2}
    Lifetime = 3
    Margin = 1
    HTTPTimeout = 1
    EndOfTime = 6
    Members = {t1, t2}
    Tables = {"deployment", "key"}
    RowIds = {x1}
    Bodies = {d1}
    NoDbRow = NoDbRow
    MaxLog = 3
    MaxSnapshots = 1
    MaxRestarts = 1
    Nodes = {t1, t2}
    Deps = {d1}
    Placement <- Split
    None = None
    AutomationAuto = {"engine_down", "node_down", "orphan_deployment"}
    HasPlanner = TRUE
    FailureThreshold = 2
    Hysteresis = 2
    ActionCooldown = 2
    NodeTimeout = 1
    Timely = FALSE
    MaxRecFaults = 1
    MaxStops = 1
    Cap = 2
    StreamCloses = TRUE
    ConsumerStays = FALSE
    Stoppers = {x1}
    MaxStarts = 2
    MaxStopCalls = 1
    MaxEngines = 2
SYMMETRY Symmetry
INVARIANT Fleet_AdmissionHolds
INVARIANT CertAuthority_DiskIsAuthority
INVARIANT Planner_PlansSound
INVARIANT Planner_SearchOptimal
INVARIANT ClusterConfig_DeclaredOnce
INVARIANT Catalog_ImportsGenuine
INVARIANT Raft_ReplayConverges
INVARIANT Supervisor_OneEngine
PROPERTY CertAuthority_RotationKeepsTrust
PROPERTY Reconciler_ActionsJustified
CHECK_DEADLOCK FALSE
