SPECIFICATION Spec
CONSTANTS
    Amounts <- MCAmounts
    Dues <- MCDues
    LastDay = 2
    Personal = TRUE
    Kinds <- MCCash
    Paid = {1, 2}
    Deltas <- MCNothing
    Totals <- MCNothing
    MaxFacts = 1
    MaxPayoffs = 1
    MaxTerms = 2
    Weights <- MCWeights
    Actor = 1
    PageSize = 1
INVARIANT
    PlanCanBeRead
CHECK_DEADLOCK FALSE
