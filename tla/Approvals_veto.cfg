SPECIFICATION Spec
CONSTANTS
    Keys = {k1, k2, k3}
    Requester = k1
    ReviewerKeys = {}
    Required = 1
    Requests = {q1, q2}
    MaxRemovals = 0
    MaxFaults = 0
PROPERTY VetoStands
CHECK_DEADLOCK FALSE
