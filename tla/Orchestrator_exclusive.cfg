SPECIFICATION FairSpec
CONSTANTS
    n1 = n1
    n2 = n2
    m1 = m1
    Nodes <- MCNodes
    Models <- MCModels
    Plans <- MCPlans
    Rec = rec
    NoNode = NoNode
    Api = {a1, a2}
    MaxDeps = 2
    MaxCalls = 4
    MaxFaults = 0
    Overlap = FALSE
INVARIANT StoppedFreesSlots
PROPERTY LifecycleSpec
CHECK_DEADLOCK FALSE
