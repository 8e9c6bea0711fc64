SPECIFICATION Spec
CONSTANTS
    a1 = a1
    a2 = a2
    a3 = a3
    Attempts <- MCAttempts
    None = None
INVARIANTS
    TypeOK
    OneResponsible
PROPERTIES
    GivenUpIsClosed
    ImplementsManagerOwnership
\* The user need not connect again, and the attempts are bounded.
CHECK_DEADLOCK FALSE
