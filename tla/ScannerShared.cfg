SPECIFICATION Spec
CONSTANTS
    s1 = s1
    s2 = s2
    Scanners = {s1, s2}
    StartBlock = 1
    Confirmations = 1
    ChunkSize = 1
    FetchWorkers = 2
    MaxInflightChunks = 2
    IgnoreDecodeError = TRUE
    NumQueries = 1
    Logs <- MCLogs
    MaxLag = 1
    MaxFaults = 2
    MaxHead = 4
    MaxReorgs = 1
    ReorgDepth = 1
SYMMETRY MCSymmetry
INVARIANTS NoGap NoOrphan CursorConfirmed
PROPERTIES Implements
