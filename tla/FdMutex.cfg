SPECIFICATION FairSpec
CONSTANTS
    g1 = g1
    g2 = g2
    g3 = g3
    g4 = g4
    Goroutines <- Four
    REF_MAX = 2
    WAIT_MAX = 2
INVARIANTS NoStranded
PROPERTIES IsFdLife EveryoneReturns
CHECK_DEADLOCK FALSE
