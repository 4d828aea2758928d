SPECIFICATION Spec
CONSTANTS
    Alice = {a1}
    Bob = {b1}
    a1 = a1
    b1 = b1
    CallIds = {1, 2}
    None = None
    Suspends = TRUE
    MaxLost = 0
    MayLeave = FALSE
INVARIANT AtMostOneCall
CHECK_DEADLOCK FALSE
