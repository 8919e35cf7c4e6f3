\* A failed auto-open takes the default away
SPECIFICATION Spec
CONSTANTS
    k1 = k1  k2 = k2  None = None
    Keys = {k1, k2}
    StartFiles <- MCNoFile
    Watch = TRUE
    Upstream = FALSE
    Interval = 2
    MinTick = 1
    BackoffStart = 1
    BackoffCap = 3
    RetryAfters = {3}
    MaxVersion = 1
    MaxFaults = 1
    MaxInbox = 1
INVARIANTS SingleMirroredIsDefault
CHECK_DEADLOCK FALSE
