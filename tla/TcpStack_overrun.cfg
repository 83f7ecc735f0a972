SPECIFICATION Spec
CONSTANTS
    f1 = f1
    f2 = f2
    f3 = f3
    Flows <- TwoFlows
    NoFlow = NoFlow
    MAX_CONN = 3
    MAX_RETRIES = 1
    INITIAL_RTO_TICKS = 1
    SEQ_MOD = 1
    ISS = 0
    Lens <- LongLens
    FlagSets <- FewFlags
    HDR_LEN = 1
    PKG_SIZE = 2
    TCB_SIZE = 2
    BUF_SIZE = 3
    TICK_MOD = 3
    Garbage <- StrayTcbs
PROPERTIES DamageIsBehind
SYMMETRY FlowSymmetry
CHECK_DEADLOCK FALSE
