SPECIFICATION Spec
CONSTANTS
    Word = 16
    DefaultMaxAddresses = 2
    Zero = "0x0"
    None = ""
    Configs <- MCConfigs
    Logs <- MCLogs
    Sender <- MCSender
    MaxHead = 5
    DefaultConfirmations = 2
    DefaultChunkSize = 3
    MaxInflightChunks = 2
    MaxChanges = 2
    MaxFaults = 1
INVARIANTS NothingSkipped OnlyWanted
PROPERTY CatchesUp
