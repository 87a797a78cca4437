CONSTANTS
    r1 = r1
    Req <- MCReq
SPECIFICATION FairSpec
INVARIANTS
    TypeOK
    ResultDeliveredOnce
    ClosedIsConfirmed
PROPERTIES
    CallerReturns
    LateOutcomeReported
    ImplementsCall
CHECK_DEADLOCK FALSE
