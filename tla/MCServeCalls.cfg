\* Tool calls, watch ticks, failures and restarts
SPECIFICATION FairSpec
CONSTANTS
    k1 = k1  k2 = k2  None = None
    Keys = {k1, k2}
    StartFiles <- MCAnyFiles
    Watch = TRUE
    Upstream = TRUE
    Interval = 2
    MinTick = 2
    BackoffStart = 2
    BackoffCap = 3
    RetryAfters = {3}
    MaxVersion = 1
    MaxFaults = 2
    MaxInbox = 1
INVARIANTS BooksMatchStores OnePullPerCall
PROPERTIES PollsSpaced RetryAfterKept MirrorsCatchUpWhenQuiet
CHECK_DEADLOCK FALSE
