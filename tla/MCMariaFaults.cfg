SPECIFICATION Spec
CONSTANTS
    p1 = p1  p2 = p2  w1 = w1  w2 = w2  w3 = w3
    Procs <- MCProcs
    Workers <- MCWorkers2
    ProcOf <- MCProcOf2
    NumCustomers = 1
    Limit <- MCLimit
    Values <- MCValues
    NoWorker = NoWorker
    NoRow = NoRow
    RouterWaits = FALSE
    RingSize = 2
    IntHalf = 8
    MaxRequests = 2
    MaxFaults = 2
    MaxCrashes = 1
INVARIANTS
    TypeOK
    LimitRespected
    RowsPresent
    AtMostOnce
    NoLostUpdate
    BlobConsistent
    AnswersTruthful
PROPERTY
    VersionsGrow
