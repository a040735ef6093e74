SPECIFICATION MCSpec
CONSTANTS
    ana = ana
    beto = beto
    rent = rent
    sofa = sofa
    Persons <- MCPersons
    Recurring <- MCRecurring
    Installments <- MCInstallments
    Choices <- MCChoices
    Creator = ana
    MaxDate = 2
    MaxVersion = 14
    MaxLedger = 3
INVARIANTS
    ClosedAsAgreed
    ConsentsAreCurrent
    NothingPaidTwice
    AppliedOnce
PROPERTIES
    EffectsNeedEveryApproval
    NoLoneCancellation
    ImplementsAgreement
CHECK_DEADLOCK FALSE
