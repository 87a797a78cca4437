CONSTANTS
    r1 = r1
    r2 = r2
    Req <- MCReq
    Capacity = 1
    LeaseSeconds = 3
    QueueTimeouts <- MCQueueTimeouts
    MaxIdle = 3
    Slack = 1
SPECIFICATION FairSpec
INVARIANTS
    TypeOK
    HeldWhileForwarding
    RefusedWithoutAttempt
    AwaitedWithinLimit
PROPERTIES
    FreedOnlyWhenIdle
    QuarantineNeverRenewed
    RequestAnswered
    SlotComesBack
CHECK_DEADLOCK FALSE
