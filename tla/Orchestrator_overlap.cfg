SPECIFICATION FairSpec
CONSTANTS
    n1 = n1
    n2 = n2
    m1 = m1
    Nodes <- MCNodes
    Models <- MCModels
    Plans <- MCPlans
    Rec = rec
    NoNode = NoNode
    Api = {a1, a2}
    MaxDeps = 2
    MaxCalls = 3
    MaxFaults = 1
    Overlap = TRUE
INVARIANT TypeOK
INVARIANT HostAfterWorkers
INVARIANT ActiveIsComplete
INVARIANT RouteIsServable
PROPERTY TransientStatesPass
PROPERTY FailedNeverServes
CHECK_DEADLOCK FALSE
