SPECIFICATION FairSpec
CONSTANTS
    r1 = r1
    r2 = r2
    w1 = w1
    w2 = w2
    w3 = w3
    host = host
    NoRow = NoRow
    NoID = NoID
    Rows = {r1}
    Workers = {w1, w2, w3}
    IDs = {w1, w2, w3}
    WorkerID <- MCWorkerID
    BatchSize = 1
    LockDuration = 3
    SendTimeout = 1
    RetryBaseDelay = 2
    RetryMaxDelay = 3
    MaxRetries = 3
    MaxRetryAfter = 1
    MaxClaimDelay = 1
    MayPause = FALSE
    MaxFaults = 2
INVARIANTS SendExclusive LeaseInv
PROPERTIES EventuallySettled
