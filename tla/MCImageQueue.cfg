SPECIFICATION Spec
CONSTANTS
    Ids = {i1, i2, i3}
    NoId = NoId
    Handles = {h1, h2, h3}
    Stuck = {}
    DEFAULT_QUEUE_LIMIT = 2
    MAX_REQUEST_RETRY_COUNT = 1
    i1 = i1
    i2 = i2
    i3 = i3
    h1 = h1
    h2 = h2
    h3 = h3
SYMMETRY Symmetry
INVARIANT TypeOK
INVARIANT InSync
INVARIANT NoIdleCapacity
INVARIANT PoolBounded
PROPERTY LowYields
PROPERTY CallersServed
CHECK_DEADLOCK FALSE
