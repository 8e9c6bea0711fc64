SPECIFICATION Spec
CONSTANTS
    None = None
    Requests <- Everything
    MaxRequests = 3
    NestedDialogs = TRUE
INVARIANTS
    DialogsForgetNothingElse
PROPERTIES
    BusyEnds
\* The user stops calling after MaxRequests calls, and nothing runs after shutdown.
CHECK_DEADLOCK FALSE
