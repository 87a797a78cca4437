CONSTANTS
    r1 = r1
    Req <- MCReq
SPECIFICATION Spec
INVARIANTS
    NoResponseMeansTimeUp
CHECK_DEADLOCK FALSE
