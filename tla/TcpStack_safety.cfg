SPECIFICATION Spec
CONSTANTS
    f1 = f1
    f2 = f2
    f3 = f3
    Flows <- ThreeFlows
    NoFlow = NoFlow
    MAX_CONN = 2
    MAX_RETRIES = 1
    INITIAL_RTO_TICKS = 1
    SEQ_MOD = 3
    ISS = 2
    Lens <- OddLens
    FlagSets <- AnyFlags
    HDR_LEN = 1
    PKG_SIZE = 2
    TCB_SIZE = 2
    BUF_SIZE = 3
    TICK_MOD = 3
    Garbage <- NoStray
SYMMETRY FlowSymmetry
INVARIANTS TypeOK TableSound SentIsCurrent CrashOnlyWhenFull Backoff
PROPERTIES Isolation SendNextFollowsSegments Countdown
CHECK_DEADLOCK FALSE
