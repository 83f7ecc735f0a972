SPECIFICATION FairSpec
CONSTANTS
    g1 = g1
    g2 = g2
    g3 = g3
    a1 = a1
    a2 = a2
    None = None
    Goroutines <- Three
    Addrs <- TwoAddrs
    MAX_VAL = 2
INVARIANTS NoMissedWakeup
PROPERTIES IsSemaphore UnitsAreTaken
CHECK_DEADLOCK FALSE
