SPECIFICATION FairSpec
CONSTANTS
    c1 = c1
    c2 = c2
    c3 = c3
    Callers = {c1, c2}
    NumURLs = 2
    MaxConcurrent = 1
    RequestsPerSecond = 1
    RetryMax = 2
    RetryBaseDelay = 1
    RetryMaxDelay = 2
INVARIANTS SlotsHeld FailsOver
PROPERTIES CallsEnd
