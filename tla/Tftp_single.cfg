SPECIFICATION FairSpec
CONSTANTS
    c1 = c1
    c2 = c2
    c3 = c3
    Clients <- OneClient
    Size <- UpToTheLimit
    Missing = {}
    BLK_SIZE = 2
    BLOCK_MOD = 4
    MaxLost = 1
    MaxDup = 2
    IoErrors = TRUE
PROPERTIES FaithfulCopy EveryDownloadEnds
CHECK_DEADLOCK FALSE
