CONSTANTS
    r1 = r1
    r2 = r2
    Req <- MCReq
    Capacity = 1
    LeaseSeconds = 3
    QueueTimeouts <- MCQueueTimeouts
    MaxIdle = 3
    Slack = 1
SPECIFICATION Spec
INVARIANTS
    UpstreamWithinLimit
CHECK_DEADLOCK FALSE
