SPECIFICATION Spec
CONSTANTS
    None = None
    host = host
    k1 = k1
    k2 = k2
    k3 = k3
    Profiles = {p1, p2}
    Names = {host}
    NameOf <- MCNameOf
    Keys = {k1, k2, k3}
    AlgorithmOf <- MCAlgorithmOf
INVARIANTS
    TypeOK
    FileBacksDecisions
PROPERTIES
    ImplementsTrustDecisions
CHECK_DEADLOCK FALSE
