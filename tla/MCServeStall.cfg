\* README: a change shows up within one interval.  Not once the loop stalls
SPECIFICATION FairSpec
CONSTANTS
    k1 = k1  k2 = k2  None = None
    Keys = {k1}
    StartFiles <- MCOneFile
    Watch = TRUE
    Upstream = FALSE
    Interval = 2
    MinTick = 1
    BackoffStart = 1
    BackoffCap = 3
    RetryAfters = {3}
    MaxVersion = 1
    MaxFaults = 0
    MaxInbox = 0
PROPERTIES RunningCatchesUp
CHECK_DEADLOCK FALSE
