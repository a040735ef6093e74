SPECIFICATION MCSpec
CONSTANTS
    ana = ana
    beto = beto
    rent = rent
    Persons <- MCPersons
    Recurring <- MCRent
    Installments <- NoOrigin
    Choices <- MCEnd
    Creator = ana
    MaxDate = 3
    MaxVersion = 6
    MaxLedger = 3
    Agendas <- MCAgendas
    AttentionLimit = 2
    BlockLimit = 1
    SourceLimit = 4
    CycleLimit = 3
    MaxChanges = 3
    MaxFailures = 1
INVARIANT
    ScreenIsSound
CHECK_DEADLOCK FALSE
