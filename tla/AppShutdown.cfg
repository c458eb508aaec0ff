SPECIFICATION FairSpec
CONSTANTS
    None = None
    NumWorkers = 2
    NumChains = 2
    MaxSignals = 2
INVARIANTS IndInv UsesOnlyOpen DatabaseLast CleanExit
PROPERTIES ShutsDown PanicEndsProcess
