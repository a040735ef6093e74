SPECIFICATION MCSpec
CONSTANTS
    Origins = {1, 2}
    Obligations = {1, 2, 3, 4}
    Cycles = {1, 2}
    OriginOf <- MCOriginOf
    Keys = {1, 2, 3, 4, 5}
    NoCycle = 0
    Commands <- AnyCommand
    Requests = {1, 2, 3}
    Debts <- MCDebts
    Opened <- MCOpened
    MaxLost = 1
INVARIANTS
    NothingIsLost
    FinalizedCyclesAreSettled
PROPERTIES
    OneCommandAtATime
    TwinIsReplayed
    EveryRequestEnds
CHECK_DEADLOCK FALSE
