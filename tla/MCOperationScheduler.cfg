SPECIFICATION Spec
CONSTANTS
    j1 = j1
    j2 = j2
    j3 = j3
    k1 = k1
    s1 = s1
    s2 = s2
    Jobs <- MCJobs
    Servers <- MCServers
    ServerOf <- MCServerOf
    MaxThreads = 1
INVARIANTS
    TypeOK
    HeadIsScheduled
    HeldWhileSignalled
PROPERTIES
    EveryJobFinishes
    ImplementsSerialExecutor
\* Every job may be submitted and delivered: the system then rests.
CHECK_DEADLOCK FALSE
