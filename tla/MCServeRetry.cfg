\* serve.rs: a rate-limited pull keeps the watch loop from hitting the limit again
SPECIFICATION Spec
CONSTANTS
    k1 = k1  k2 = k2  None = None
    Keys = {k1}
    StartFiles <- MCOneFile
    Watch = TRUE
    Upstream = TRUE
    Interval = 2
    MinTick = 1
    BackoffStart = 1
    BackoffCap = 3
    RetryAfters = {3}
    MaxVersion = 1
    MaxFaults = 1
    MaxInbox = 1
PROPERTIES RetryAfterHonored
CHECK_DEADLOCK FALSE
