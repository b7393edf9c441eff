SPECIFICATION RFairSpec
CONSTANTS
    n1 = n1
    n2 = n2
    m1 = m1
    m2 = m2
    Nodes <- MCNodes
    Rec = rec
    NoNode = NoNode
    Models <- TwoModels
    Plans <- TwoPlans
    Api = {a1}
    MaxDeps = 2
    MaxCalls = 3
    MaxFaults = 1
    Overlap = TRUE
INVARIANT PassIsServable
PROPERTY RoutesConverge
CHECK_DEADLOCK FALSE
