SPECIFICATION FairSpec
CONSTANTS
    p1 = p1
    p2 = p2
    c1 = c1
    c2 = c2
    c3 = c3
    None = None
    Processes = {p1, p2}
    Callers = {c1, c2, c3}
    ProcessOf <- MCProcessOf
    WorkerID <- MCWorkerID
    WorkerSpan = 2
    SeqSpan = 2
    Epoch = 1
    MaxBackward = 1
    MayRestartBehind = FALSE
    MaxMillis = 2
    MaxFaults = 1
INVARIANTS IndInv Unique Traceable MutexHeld
PROPERTIES Increasing Returns
