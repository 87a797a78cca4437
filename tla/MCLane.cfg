CONSTANTS
    c1 = c1
    c2 = c2
    c3 = c3
    c4 = c4
    h1 = h1
    h2 = h2
    Call <- MCCall
    Holder <- MCHolder
    HolderOf <- MCHolderOf
    Capacity = 2
    LeaseSeconds = 2
    Timeouts <- MCTimeouts
    MaxIdle = 3
SPECIFICATION FairSpec
INVARIANTS
    TypeOK
    CapacityBound
    NothingHeldAfterTimeout
    NoMissedWakeup
    OvertakenHasTurn
PROPERTIES
    NeverLosesTurn
    LeaseLastsItsTerm
    AcquireReturns
    ImplementsPool
