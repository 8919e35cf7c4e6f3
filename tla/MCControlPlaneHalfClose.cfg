\* A client shuts down its sending side after the request
SPECIFICATION Spec
CONSTANTS
    s1 = s1  s2 = s2  c1 = c1  c2 = c2
    None = None  Leftover = Leftover  Eof = Eof
    Serves = {s1, s2}
    Clients = {c1}
    HalfClosers = {c1}
    Overlap = FALSE
    MaxRemovals = 0
PROPERTIES NoLostResponse
CHECK_DEADLOCK FALSE
