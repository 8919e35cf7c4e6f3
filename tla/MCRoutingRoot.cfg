\* One client, every kind of command, with serves and pulls coming and going
SPECIFICATION Spec
CONSTANTS
    a = a  b = b  c1 = c1   None = None  PathKey = PathKey
    Keys = {a, b}
    Clients = {c1}
    Commands <- MCCommands
    Starts <- MCStarts
INVARIANTS AnswersForCurrent MirroredReadsAreFree NoSelfLock
