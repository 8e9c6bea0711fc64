SPECIFICATION Spec
CONSTANTS
    None = None
    Requests <- Lifecycle
    MaxRequests = 4
    NestedDialogs = FALSE
INVARIANTS
    TypeOK
    SessionMatchesJobs
    ShutdownClosesAll
PROPERTIES
    GenerationsAreSeparate
    ImplementsManagerOwnership
\* The user stops calling after MaxRequests calls, and nothing runs after shutdown.
CHECK_DEADLOCK FALSE
