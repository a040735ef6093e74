SPECIFICATION Spec
CONSTANTS
    ana = ana
    beto = beto
    caio = caio
    k1 = k1
    k2 = k2
    q1 = q1
    q2 = q2
    Persons <- MCPersons
    Creator = ana
    Keys <- MCOneKey
    Requests <- MCRequests
    Validity = 1
    MaxVersion = 5
    MaxTime = 3
INVARIANTS
    OneOpenInvitation
    RetryIsAnswered
PROPERTIES
    AnswersAreTrue
    CommandsAreAtomic
CHECK_DEADLOCK FALSE
SYMMETRY MCSymmetry
