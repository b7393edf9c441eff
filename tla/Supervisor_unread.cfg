SPECIFICATION SupFairSpec
CONSTANTS
    Cap = 2
    StreamCloses = FALSE
    ConsumerStays = FALSE
    Stoppers = {s1}
    MaxStarts = 1
    MaxStopCalls = 0
    MaxEngines = 2
PROPERTY CrashIsHandled
CHECK_DEADLOCK FALSE
