\* Serves one after another, exits, crashes, a removed file, and the requests of two commands
SPECIFICATION FairSpec
CONSTANTS
    s1 = s1  s2 = s2  c1 = c1  c2 = c2
    None = None  Leftover = Leftover  Eof = Eof
    Serves = {s1, s2}
    Clients = {c1, c2}
    HalfClosers = {}
    Overlap = FALSE
    MaxRemovals = 1
INVARIANTS TypeOK OwnerReachable CarriedOutOnce CleanExitUnlinks
PROPERTIES ExitKeepsOthers NoLostResponse WaitEnds
CHECK_DEADLOCK FALSE
