SPECIFICATION FairSpec
CONSTANTS
    Prepare = prepare
    None = None
    Checks = {c1}
    c1 = c1
    Rechecks = {r1}
    r1 = r1
    Reports = {p1}
    p1 = p1
    Logouts = {o1}
    o1 = o1
    Retries = {t1, t2}
    t1 = t1
    t2 = t2
    Loops = {l1, l2}
    l1 = l1
    l2 = l2
    Threads = 1
    MISSED_SYNC_OFFLINE_COUNT = 1
    MaxMissed = 2
    MaxFlips = 2
INVARIANT TypeOK
 
 
 
INVARIANT ProbesExclusive
 
PROPERTY Recovers
CHECK_DEADLOCK FALSE
