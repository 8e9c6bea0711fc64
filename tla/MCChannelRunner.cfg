SPECIFICATION Spec
CONSTANTS
    None = None
    Modes = {"plain", "noninteractive", "stdin", "unencodable"}
    Chunks = 3
    Pieces = 2
    Deadline = 4
INVARIANTS
    TypeOK
    WholeOutput
PROPERTIES
    CallEnds
    ImplementsRemoteCall
CHECK_DEADLOCK FALSE
