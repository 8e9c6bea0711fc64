SPECIFICATION Spec
CONSTANTS
    None = None
    Requests <- Lifecycle
    MaxRequests = 3
    NestedDialogs = TRUE
INVARIANTS
    ShutdownClosesAll
\* The user stops calling after MaxRequests calls, and nothing runs after shutdown.
CHECK_DEADLOCK FALSE
