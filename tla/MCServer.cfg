CONSTANTS
    t1 = t1
    t2 = t2
    p1 = p1
    p2 = p2
    good = good
    garbled = garbled
    s1 = s1
    s2 = s2
    s3 = s3
    Thread <- MCThread
    Path <- MCPath
    Value <- MCValue
    ValidValue <- MCValidValue
    Secret <- MCSecret
    Lines = {2}
    LongestLine = 2
    MaxBytes = 3
    MaxAppends = 3
    MaxFaults = 2
SPECIFICATION Spec
INVARIANTS
    TypeOK
    LogBounded
    SecretHonoured
PROPERTIES
    DeletedIsKept
    ComesUp
    StopReturns
CHECK_DEADLOCK FALSE
