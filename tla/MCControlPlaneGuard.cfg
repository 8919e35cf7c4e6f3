\* Two processes start at the same time, and one leaves
SPECIFICATION Spec
CONSTANTS
    s1 = s1  s2 = s2  c1 = c1  c2 = c2
    None = None  Leftover = Leftover  Eof = Eof
    Serves = {s1, s2}
    Clients = {c1}
    HalfClosers = {}
    Overlap = TRUE
    MaxRemovals = 0
PROPERTIES ExitKeepsOthers
CHECK_DEADLOCK FALSE
