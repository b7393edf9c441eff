SPECIFICATION RecFairSpec
CONSTANTS
    n1 = n1
    d1 = d1
    Nodes = {n1}
    Deps = {d1}
    Placement <- Single
    None = None
    AutomationAuto = {"engine_down"}
    HasPlanner = FALSE
    FailureThreshold = 2
    Hysteresis = 2
    ActionCooldown = 3
    NodeTimeout = 1
    Timely = TRUE
    MaxRecFaults = 0
    MaxStops = 1
PROPERTY EngineDownHealed
CHECK_DEADLOCK FALSE
