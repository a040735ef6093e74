SPECIFICATION MCSpec
CONSTANTS
    ana = ana
    beto = beto
    rent = rent
    sofa = sofa
    may = may
    june = june
    NoCycle = NoCycle
    First = ana
    Second = beto
    Origins <- MCRent
    Agreements <- MCSofa
    Cycles <- None
    Shares <- MCShares
    Adjusted <- MCAdjusted
    MaxMoney = 3
    MaxFacts = 3
    MaxObligations = 3
    MaxResolutions = 3
INVARIANTS
    OneOpenObligation
    OutstandingFollowsFacts
    SharesAreBorne
    AgreementsAreKept
CHECK_DEADLOCK FALSE
