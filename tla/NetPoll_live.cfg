SPECIFICATION FairSpec
CONSTANTS
    t1 = t1
    t2 = t2
    Threads <- One
    Users <- Writer
    Deltas <- AnyDelay
    DeadlineModes <- ForAny
    Sockets = "plain"
    TAG_MOD = 3
    MAX_TIME = 2
    MAX_OPENS = 1
    MAX_SEQ = 2
    MAX_M = 1
PROPERTIES CloseEnds ReadReturns
CHECK_DEADLOCK FALSE
