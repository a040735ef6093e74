SPECIFICATION MCSpec
CONSTANTS
    First = m1
    Second = m2
    Kinds = {"EXPENSE", "INCOME"}
    Personal = FALSE
    Planned <- MCPlanned
    Due = 3
    Whole = 3
    Charges = TRUE
    Paid = {1, 2}
    Retroactive = TRUE
    Deltas <- MCDeltas
    Given <- MCGiven
    Changes <- MCChanges
    LastDay = 3
    MaxFacts = 2
    MaxTerms = 3
    MaxProposals = 2
INVARIANTS
    CommitmentCanBeRead
    AcceptedAsShown
PROPERTY
    ReviewIsKeptOnceWritten
CHECK_DEADLOCK FALSE
