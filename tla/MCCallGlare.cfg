SPECIFICATION Spec
CONSTANTS
    Alice = {a1}
    Bob = {b1}
    a1 = a1
    b1 = b1
    CallIds = {1, 2}
    None = None
    Suspends = FALSE
    MaxLost = 0
    MayLeave = FALSE
INVARIANT TypeOK
INVARIANT AtMostOneCall
INVARIANT GlareSettles
 
CHECK_DEADLOCK FALSE
