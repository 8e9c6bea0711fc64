SPECIFICATION Spec
CONSTANTS
    None = None
    Requests <- Everything
    MaxRequests = 3
    NestedDialogs = FALSE
INVARIANTS
    PlansAreCurrent
PROPERTIES
    SecretsStayWithTheSession
    LogicalJobsEnd
    TokensAreClosed
\* The user stops calling after MaxRequests calls, and nothing runs after shutdown.
CHECK_DEADLOCK FALSE
