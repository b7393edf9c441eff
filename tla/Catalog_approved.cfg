SPECIFICATION CatFairSpec
CONSTANTS
    Names <- MCNames
    CPUSlug <- MCSlug
    MaxVersion = 0
    RandSuffixes = {x1}
    CatReqs = {q1}
    MaxDeployments = 2
    MaxQueued = 2
    Licences = {TRUE}
PROPERTY ApprovedStarts
CHECK_DEADLOCK FALSE
