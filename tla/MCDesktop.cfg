\* Calls passed on to the desktop app
SPECIFICATION Spec
CONSTANTS
    readA = readA  readB = readB  write = write  status = status  None = None  Own = Own
    Calls = {readA, readB, write, status}
    Tool <- MCTool
    CacheKey <- MCCacheKey
    Local <- MCLocal
    Prefixed <- MCPrefixed
    Capable <- MCCapable
    WithNode = {readA, readB, write}
    Writes = {write}
    Plain = {"notification"}
    ToolLists <- MCToolLists
    Protocols = {"p"}
    Watch = TRUE
    OtherFiles = 0
    MaxFrames = 2
    MaxVersion = 1
    MaxSessions = 2
INVARIANTS HandshakeWhole WritesSeenAfterPoll
PROPERTIES ImplementsToolCalls AnswersArrive
CHECK_DEADLOCK FALSE
