SPECIFICATION ViewedSpec
CONSTANTS
    ana = ana
    beto = beto
    rent = rent
    sofa = sofa
    may = may
    june = june
    NoCycle = NoCycle
    First = ana
    Second = beto
    Origins <- MCRent
    Agreements <- MCSofa
    Cycles <- MCMayJune
    Shares <- MCShares
    Adjusted <- None
    MaxMoney = 3
    MaxFacts = 1
    MaxObligations = 3
    MaxResolutions = 2
    TargetDate <- MCDates
    PageSize = 1
    MaxToday = 2
INVARIANTS
    ViewsAgree
    OfferedIsAccepted
PROPERTIES
    FinalizedIsFrozen
CHECK_DEADLOCK FALSE
