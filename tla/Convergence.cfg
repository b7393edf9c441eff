SPECIFICATION ConvergenceSpec
CONSTANTS
    n1 = n1
    d1 = d1
    k1 = k1
    k2 = k2
    k3 = k3
    k4 = k4
    Nodes = {n1}
    Deps = {d1}
    Placement <- Single
    None = None
    AutomationAuto = {"engine_down"}
    HasPlanner = FALSE
    FailureThreshold = 2
    Hysteresis = 2
    ActionCooldown = 3
    NodeTimeout = 1
    Timely = TRUE
    MaxRecFaults = 3
    MaxStops = 0
    Cap = 2
    StreamCloses = TRUE
    ConsumerStays = TRUE
    Stoppers = {s1}
    MaxStarts = 1
    MaxStopCalls = 1
    MaxEngines = 4
    DpIds = {p1, p2}
    DpNodes = {n1}
    DpModels = {m1}
    DpKeys = {k1}
    DpPolicies = {r1}
    Builders = {b1}
    MaxChanges = 2
    Configs <- MCConfigs
    CfgModels = {"m1", "m2"}
    CfgEntries <- MCEntries
    CfgOrgs = {"o1"}
    CfgTeams = {"t1", "t2"}
    CfgPools = {"p1"}
    CfgNodes = {"n1"}
    HttpApplies = {}
    MaxEdits = 2
    MaxDeps = 2
    ApplyFaults = TRUE
    Keys = {k1, k2, k3, k4}
    Requester = k1
    ReviewerKeys <- Designated
    Required = 2
    Requests = {q1, q2}
    MaxRemovals = 1
    MaxFaults = 1
INVARIANT ApprovedHasQuorum
INVARIANT DesignatedQuorum
INVARIANT CrashLoopCapped
PROPERTY ActionsSpaced
PROPERTY EngineDownHealed
PROPERTY CrashIsHandled
PROPERTY SnapshotsConverge
PROPERTY WatcherCatchesUp
PROPERTY QuorumDecides
CHECK_DEADLOCK FALSE
