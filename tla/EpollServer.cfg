SPECIFICATION FairSpec
CONSTANTS
    c1 = c1
    c2 = c2
    Listen = Listen
    Clients <- TwoClients
    MAX_EVENTS = 2
    LEN = 2
    SNDBUF = 1
    BACKLOG = 2
    MaxSaid = 3
    CanReset = TRUE
    SysErrors = TRUE
INVARIANTS NoLostWakeup NoStaleEvent EchoInOrder
PROPERTIES EveryoneServed
CHECK_DEADLOCK FALSE
