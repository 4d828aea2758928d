SPECIFICATION Spec
CONSTANTS
    Alice = {a1}
    Bob = {b1, b2}
    a1 = a1
    b1 = b1
    b2 = b2
    CallIds = {1}
    None = None
    Suspends = FALSE
    MaxLost = 0
    MayLeave = FALSE
SYMMETRY Symmetry
INVARIANT SelectedPartyIsIn
CHECK_DEADLOCK FALSE
