SPECIFICATION Spec
CONSTANTS
    None = None
    Requests <- Changes
    MaxRequests = 2
    NestedDialogs = TRUE
PROPERTIES
    LogicalJobsEnd
\* The user stops calling after MaxRequests calls, and nothing runs after shutdown.
CHECK_DEADLOCK FALSE
