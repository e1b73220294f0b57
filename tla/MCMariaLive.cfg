SPECIFICATION FairSpec
CONSTANTS
    p1 = p1  p2 = p2  w1 = w1  w2 = w2  w3 = w3
    Procs <- MCProcs
    Workers <- MCWorkers
    ProcOf <- MCProcOf
    NumCustomers = 1
    Limit <- MCLimit
    Values <- MCDebits
    NoWorker = NoWorker
    NoRow = NoRow
    RouterWaits = TRUE
    RingSize = 2
    IntHalf = 8
    MaxRequests = 2
    MaxFaults = 1
    MaxCrashes = 0
PROPERTY
    EveryoneAnswered
