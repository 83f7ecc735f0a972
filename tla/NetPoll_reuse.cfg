SPECIFICATION Spec
CONSTANTS
    t1 = t1
    t2 = t2
    Threads <- Two
    Users <- Reader
    Deltas <- Soon
    DeadlineModes <- ReadOrBoth
    Sockets = "failing"
    TAG_MOD = 3
    MAX_TIME = 2
    MAX_OPENS = 2
    MAX_SEQ = 3
    MAX_M = 1
INVARIANTS NoThrow NoLostWakeup DeadlineReached DeadlineWatched ErrorIsOurs WaitersCounted
SYMMETRY Symmetric
CHECK_DEADLOCK FALSE
