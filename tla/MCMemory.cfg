SPECIFICATION MemorySpec
CONSTANTS
    Sizes = {40, 48}
    Counts = {1, 32768}
    Requests = {0, 1, 8, 16, 17, 40, 65530}
    UintMax = 65535
    MaxBlocks = 5
    BlockNum = 4
    BlockSize = 2
    MaxLocks = 10
    Callers = {t1, t2}
    Descriptors = {d1, d2}
    None = None
    SocketRequests <- Asked
INVARIANTS BlocksAreSound SavedIsValid Partitioned SocketsAreOwned SocketIsAsAsked
\* abort() ends the program.
CHECK_DEADLOCK FALSE
