SPECIFICATION MCSpec
CONSTANTS
    Amounts <- MCAmounts
    Dues <- MCDues
    LastDay = 2
    Personal = FALSE
    Kinds <- MCBoth
    Paid = {1, 2}
    Deltas <- MCDown
    Totals = {2, 3}
    MaxFacts = 2
    MaxPayoffs = 2
    MaxTerms = 2
    Weights <- MCWeights
    Actor = 1
    PageSize = 1
INVARIANTS
    PlanIsShown
    RemainingFollowsMoney
CHECK_DEADLOCK FALSE
