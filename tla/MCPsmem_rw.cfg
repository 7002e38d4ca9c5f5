CONSTANTS
    AddrSpace = 72
    Addr32 = 40
    LengthMod = 8
    BcntMod = 32
    LowMod = 16
    MAXPAYLOADSIZE = 8
    Size0 = 16
    PeerAddrs <- AroundRegion
    PeerCounts <- Counts1to17
    Ops = {"MRd", "MWr"}
    NewAddrs = {32}
    NewSizes = {0, 12}
    MallocMayFail = FALSE
    MaxRequests = 2
    MaxCommands = 2
    NULL = NULL
SPECIFICATION Spec
INVARIANT RoundTrip
INVARIANT EnablesExact
INVARIANT PacketWhole
INVARIANT WriteRefusal
INVARIANT ReadExact
INVARIANT AccessInside
PROPERTY WriteExact
CHECK_DEADLOCK FALSE
