\* Every connection is used once: the system may come to rest.
CHECK_DEADLOCK FALSE
SPECIFICATION Spec
CONSTANTS
    Conns = {c1, c2}
    MaxThreads = 1
    BufSize = 2
    Backlog = 2
    Requests <- MCRequests
INVARIANTS
    TypeOK
    DispatchesWhole
    VainOnlyAtFullBuffer
    ClosedMeansAnswered
PROPERTIES
    Served
    AcceptGoesOn
