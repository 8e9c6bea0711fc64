SPECIFICATION WindowSpec
CONSTANTS
    None = None
    SSHPort = 22
    Snapshots <- MCSnapshots
    Changes <- MCChanges
    MaxChanges = 2
    MaxGeneration = 2
INVARIANTS
    TypeOK
    ChangesStillApply
    LockoutsAreFlagged
    FacadesMirrorJobs
    ResultsAreOfTheSession
PROPERTIES
    FacadesFinish
    ImplementsConfirmedChanges
CHECK_DEADLOCK FALSE
