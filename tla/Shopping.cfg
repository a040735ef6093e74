SPECIFICATION MCSpec
CONSTANTS
    Lists = {"l"}
    Items = {"i"}
    Purchases = {"p", "q"}
    Tasks = {"t", "u"}
    Keys = {1, 2, 3, 4, 5, 6, 7, 8}
    Commands <- AnyCommand
    MaxQuantity = 4
    Requests = {1, 2}
    MaxAsked = 7
    MaxLost = 1
INVARIANTS
    AnswersAreRetold
    RefusedHadNoEffect
PROPERTY
    LinkedWhileActive
CHECK_DEADLOCK FALSE
