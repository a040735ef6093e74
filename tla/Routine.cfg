SPECIFICATION MCSpec
CONSTANTS
    Terms <- MCTerms
    Tasks <- MCTasks
    Deadlines <- MCDeadlines
    Urgencies = {0}
    People <- MCPeople
    Filters <- MCFilters
    WalkFilters <- MCWalks
    Limit = 1
    FirstDay = 424
    LastDay = 426
    Ahead = 3
    MaxCommands = 4
    Rules <- MCRules
    Spans <- MCSpans
    Around = 45
INVARIANTS
    CalendarsAgree
    CountsMatchItems
    NothingIsSkipped
CHECK_DEADLOCK FALSE
