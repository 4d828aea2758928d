SPECIFICATION Spec
CONSTANTS
    CallIds = {1, 2, 3}
    Ours = {1, 2}
    Batches <- MCBatches
    Foreign <- MCForeign
    None = None
    MAX_EARLY_CANDIDATE_BATCHES = 2
    MAX_REMEMBERED_OUTCOMES = 2
INVARIANT TypeOK
INVARIANT OutcomesInOrder
INVARIANT DeliveredInOrder
INVARIANT NothingHeldBack
 
PROPERTY HeldUntilClaimed
CHECK_DEADLOCK FALSE
