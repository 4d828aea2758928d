SPECIFICATION FairSpec
CONSTANTS
    Rooms = {r1, r2}
    Known = {r1}
    r1 = r1
    r2 = r2
    Watchers = {w1, w2}
    w1 = w1
    w2 = w2
    None = None
    Loader = Loader
    MaxChanges = 2
INVARIANT TypeOK
INVARIANT PendingServed
 
PROPERTY ChangesPersist
 
CHECK_DEADLOCK FALSE
