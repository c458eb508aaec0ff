SPECIFICATION Spec
CONSTANTS
    r1 = r1
    r2 = r2
    w1 = w1
    w2 = w2
    w3 = w3
    host = host
    NoRow = NoRow
    NoID = NoID
    Rows = {r1, r2}
    Workers = {w1, w2}
    IDs = {host}
    WorkerID <- MCSharedID
    BatchSize = 2
    LockDuration = 2
    SendTimeout = 1
    RetryBaseDelay = 1
    RetryMaxDelay = 2
    MaxRetries = 2
    MaxRetryAfter = 1
    MaxClaimDelay = 0
    MayPause = TRUE
    MaxFaults = 2
SYMMETRY MCSymmetry
INVARIANTS DuplicatesExplained SettledForCause
PROPERTIES SettledForGood Implements
