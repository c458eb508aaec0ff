SPECIFICATION FairSpec
CONSTANTS
    s1 = s1
    s2 = s2
    k1 = k1
    k2 = k2
    n1 = n1
    n2 = n2
    i1 = i1
    i2 = i2
    i3 = i3
    i4 = i4
    i5 = i5
    i6 = i6
    i7 = i7
    telegram = telegram
    Savers = {s1, s2}
    Keys = {k1, k2}
    Names = {n1, n2}
    IDs = {i1, i2, i3, i4, i5, i6, i7}
    Batches <- MCBatches
    Planner = FALSE
    Routes <- MCRoutes
    MayCollide = FALSE
    MaxFaults = 2
INVARIANTS Stored
PROPERTIES SaveEnds
