SPECIFICATION FairSpec
CONSTANTS
    s1 = s1
    s2 = s2
    Scanners = {s1}
    StartBlock = 1
    Confirmations = 1
    ChunkSize = 2
    FetchWorkers = 1
    MaxInflightChunks = 2
    IgnoreDecodeError = TRUE
    NumQueries = 1
    Logs <- MCLogsReorg
    MaxLag = 1
    MaxFaults = 0
    MaxHead = 4
    MaxReorgs = 1
    ReorgDepth = 2
PROPERTIES RescannedAfterReorg
