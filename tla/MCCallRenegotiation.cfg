SPECIFICATION Spec
CONSTANTS
    Budgets <- MCBudgets
    Loses = FALSE
INVARIANT CallSurvives
CHECK_DEADLOCK FALSE
