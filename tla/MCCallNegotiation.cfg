SPECIFICATION Spec
CONSTANTS
    Budgets <- MCBudgets
    Loses = TRUE
INVARIANT TypeOK
INVARIANT NegotiationSettles
INVARIANT AnswersMatch
INVARIANT MutingIsShown
INVARIANT PendingIsTimed
CHECK_DEADLOCK FALSE
