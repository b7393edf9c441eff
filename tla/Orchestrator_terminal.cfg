SPECIFICATION Spec
CONSTANTS
    n1 = n1
    n2 = n2
    m1 = m1
    Nodes <- MCNodes
    Models <- MCModels
    Plans <- MCPlans
    Rec = rec
    NoNode = NoNode
    Api = {a1, a2}
    MaxDeps = 1
    MaxCalls = 2
    MaxFaults = 0
    Overlap = TRUE
PROPERTY TerminalIsFinal
CHECK_DEADLOCK FALSE
