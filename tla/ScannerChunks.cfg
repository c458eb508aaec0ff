SPECIFICATION FairSpec
CONSTANTS
    s1 = s1
    s2 = s2
    Scanners = {s1, s2}
    StartBlock = 1
    Confirmations = 1
    ChunkSize = 2
    FetchWorkers = 2
    MaxInflightChunks = 2
    IgnoreDecodeError = TRUE
    NumQueries = 2
    Logs <- MCLogsChunks
    MaxLag = 1
    MaxFaults = 1
    MaxHead = 4
    MaxReorgs = 0
    ReorgDepth = 1
INVARIANTS ScanInv
PROPERTIES Progress Stops
