SPECIFICATION Spec
SYMMETRY Symmetry
CONSTANTS
    p1 = p1
    p2 = p2
    async = async
    sync = sync
    None = None
    Publishers <- MC_Publishers
    Subscribers <- MC_Subscribers
    LvcSubscribers <- MC_LvcSubscribers
    AsyncSubscribers <- MC_AsyncSubscribers
    NumMessages = 3
    HalfRange = 4
    Start = 5
CHECK_DEADLOCK FALSE
INVARIANTS
    TypeOK
    CaughtUp
    GuardKeepsNewest
