\* The docs: a `file` argument on a proxied call is ignored (expected: violated)
SPECIFICATION Spec
CONSTANTS
    a = a  b = b  c1 = c1   None = None  PathKey = PathKey
    Keys = {a, b}
    Clients = {c1}
    Commands <- MCCommands
    Starts <- MCStarts
INVARIANTS FileIgnoredByProxy
