SPECIFICATION FairSpec
CONSTANTS
    Alice = {a1}
    Bob = {b1}
    a1 = a1
    b1 = b1
    CallIds = {1}
    None = None
    Suspends = TRUE
    MaxLost = 1
    MayLeave = TRUE
PROPERTY PendingEnds
PROPERTY HalfCallsEnd
CHECK_DEADLOCK FALSE
