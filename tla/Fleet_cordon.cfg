SPECIFICATION FleetSpec
CONSTANTS
    FleetNodes = {n1}
    Tokens = {t1, t2}
    Calls = {c1, c2}
    AgentStates = {"READY", "RUNNING"}
    MaxLeaves = 2
    MaxFleetRestarts = 1
PROPERTY DecommissionHolds
CHECK_DEADLOCK FALSE
