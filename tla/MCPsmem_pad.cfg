CONSTANTS
    AddrSpace = 64
    Addr32 = 40
    LengthMod = 8
    BcntMod = 32
    LowMod = 16
    MAXPAYLOADSIZE = 8
    Size0 = 16
    PeerAddrs <- FirstDw
    PeerCounts <- Counts1to9
    Ops = {"MWr"}
    NewAddrs = {32}
    NewSizes = {}
    MallocMayFail = FALSE
    MaxRequests = 1
    MaxCommands = 1
    NULL = NULL
SPECIFICATION Spec
PROPERTY AnyWriteExact
CHECK_DEADLOCK FALSE
