SPECIFICATION FairSpec
CONSTANTS
    c1 = c1
    c2 = c2
    c3 = c3
    t1 = t1
    t2 = t2
    t3 = t3
    t4 = t4
    t5 = t5
    None = None
    Clients = {c1, c2}
    Tokens = {t1, t2, t3, t4}
    TTL = 2
    RenewTTLs = {0}
    RetryInterval = 1
    Timeout = 2
    MaxFaults = 1
INVARIANTS Exclusive
PROPERTIES OrphansExpire CallsReturn
