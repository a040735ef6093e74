SPECIFICATION MCSpec
CONSTANTS
    Days <- Days3
    Months <- JanToMar
    Created <- BothSeries
    Configurations <- Moves
    Endings <- Ends
    Cutoffs <- AnyCut
    Kinds <- AnyFact
    MaxAmount = 2
    MaxFacts = 2
    MaxVersion = 5
    MaxChanges = 4
    Actor = 1
    Lookahead = 3
    Window = 4
INVARIANTS
    OneOccurrencePerMonth
    SeriesIsShown
    RowsAreKept
PROPERTIES
    DoneAsShown
    FactsAreKept
CHECK_DEADLOCK FALSE
