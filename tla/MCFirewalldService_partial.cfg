SPECIFICATION Spec
CONSTANTS
    z1 = z1
    z2 = z2
    Zones <- MCZones
SYMMETRY MCSymmetry
INVARIANTS
    PartialSuccessIsExplicit
\* A request comes to its end.
CHECK_DEADLOCK FALSE
