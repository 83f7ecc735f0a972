SPECIFICATION FairSpec
CONSTANTS
    c1 = c1
    c2 = c2
    Clients <- TwoClients
    BUF = 2
    MaxSaid = 2
    SysErrors = TRUE
INVARIANTS NoForgottenZombie ClosedForReal OneAcceptor EchoIsText
PROPERTIES AlwaysReaped
CHECK_DEADLOCK FALSE
