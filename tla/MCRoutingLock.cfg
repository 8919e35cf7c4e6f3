\* The docs: over the socket there is no lock contention; serve --db over a
\* root store opens it again by its key (expected: violated)
SPECIFICATION Spec
CONSTANTS
    a = a  b = b  c1 = c1   None = None  PathKey = PathKey
    Keys = {a, b}
    Clients = {c1}
    Commands <- MCCommands
    Starts <- MCStartsDb
INVARIANTS NoSelfLock
