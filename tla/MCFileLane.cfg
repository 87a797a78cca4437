CONSTANTS
    p1 = p1
    p2 = p2
    p3 = p3
    none = none
    Process <- MCProcess
    Capacity = 2
    Timeouts <- MCTimeouts
    Naps <- MCNaps
    NoProcess = none
SPECIFICATION FairSpec
INVARIANTS
    TypeOK
    LockMeansLease
    EverySlotTried
PROPERTIES
    AcquireReturns
    ImplementsPool
