SPECIFICATION FairSpec
CONSTANTS
    Ids = {i1, i2}
    NoId = NoId
    Handles = {h1, h2}
    Stuck = {i1}
    DEFAULT_QUEUE_LIMIT = 1
    MAX_REQUEST_RETRY_COUNT = 1
    i1 = i1
    i2 = i2
    h1 = h1
    h2 = h2
PROPERTY QueueAdvances
PROPERTY EveryHandleSettles
CHECK_DEADLOCK FALSE
