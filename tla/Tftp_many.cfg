SPECIFICATION Spec
CONSTANTS
    c1 = c1
    c2 = c2
    c3 = c3
    Clients <- ThreeClients
    Size <- ThreeSizes
    Missing = {c3}
    BLK_SIZE = 2
    BLOCK_MOD = 3
    MaxLost = 1
    MaxDup = 1
    IoErrors = TRUE
INVARIANTS InOrder ServerNotAhead
CHECK_DEADLOCK FALSE
