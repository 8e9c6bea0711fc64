SPECIFICATION Spec
CONSTANTS
    z1 = z1
    z2 = z2
    Zones <- MCZones
SYMMETRY MCSymmetry
INVARIANTS
    TypeOK
    SucceededMeansConfirmed
    SnapshotsAreHonest
    RefusedPasswordIsForgotten
    ReportsAgree
PROPERTIES
    ImplementsRemoteChange
\* A request comes to its end.
CHECK_DEADLOCK FALSE
