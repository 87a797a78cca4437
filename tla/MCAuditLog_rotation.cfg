CONSTANTS
    t1 = t1
    t2 = t2
    t3 = t3
    Thread <- MCThread
    Lines <- MCLines
    LongestLine = 2
    MaxBytes = 3
    MaxAppends = 5
SPECIFICATION LogSpec
PROPERTIES
    RotatedOnlyWhenFull
CHECK_DEADLOCK FALSE
