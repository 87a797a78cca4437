CONSTANTS
    m1 = m1
    m2 = m2
    m3 = m3
    k1 = k1
    none = none
    Member <- MCThreeMembers
    Key <- MCKey
    KeyOf <- MCKeyOf
    NoMember = none
    Sizes <- MCSizes
    MaxBytes = 2
    Capacity = 1
SPECIFICATION Spec
SYMMETRY MCSymmetry
INVARIANTS
    TypeOK
    OpenIffRegistered
    ResultMeansSent
PROPERTIES
    MembershipFrozen
    JoinerHearsLeader
CHECK_DEADLOCK FALSE
