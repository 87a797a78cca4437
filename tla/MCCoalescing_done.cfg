CONSTANTS
    m1 = m1
    m2 = m2
    m3 = m3
    k1 = k1
    none = none
    Member <- MCTwoMembers
    Key <- MCKey
    KeyOf <- MCKeyOf
    NoMember = none
    Sizes <- MCSizes
    MaxBytes = 2
    Capacity = 1
SPECIFICATION FairSpec
PROPERTIES
    GenerationDone
CHECK_DEADLOCK FALSE
