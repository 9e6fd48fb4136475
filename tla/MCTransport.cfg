SPECIFICATION FairSpec
CONSTANTS
    N = 8
    Size <- MCSize
    NFds <- MCNFds
    SockCap = 6
    BufCap = 3
    MaxFds = 2
    MaxEvents = 3
    Fatal = {8}
INVARIANTS StreamIntact FdsAccounted
PROPERTIES ImplementsFifo WrittenIsRead
CHECK_DEADLOCK FALSE
