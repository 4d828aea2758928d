SPECIFICATION FairSpec
CONSTANT Offered <- MCOffered
INVARIANT OutcomeShown
PROPERTY LeavesByItself
CHECK_DEADLOCK FALSE
