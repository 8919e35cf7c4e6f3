\* A Retry-After below the floor of the watch tick (README, Disagreements)
SPECIFICATION Spec
CONSTANTS
    k1 = k1  k2 = k2  None = None
    Keys = {k1, k2}
    StartFiles <- MCAnyFiles
    Watch = TRUE
    Upstream = TRUE
    Interval = 2
    MinTick = 2
    BackoffStart = 2
    BackoffCap = 3
    RetryAfters = {1}
    MaxVersion = 1
    MaxFaults = 2
    MaxInbox = 1
PROPERTY PollsSpaced
CHECK_DEADLOCK FALSE
