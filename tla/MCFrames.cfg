\* Every way short streams can arrive
SPECIFICATION ReaderSpec
CONSTANTS
    Cap = 3
    Chunk = 3
    Streams <- MCStreams
INVARIANTS FramesAreLines OnlyBadLinesRefused
CHECK_DEADLOCK FALSE
