SPECIFICATION FairSpec
CONSTANTS
    t1 = t1  t2 = t2
    u1 = u1  u2 = u2  u3 = u3  
    Threads <- MCThreads
    NumClients = 4
    TcpFds <- MCTcpFds
    UnixFds <- MCUnixFds
    SideOf <- MCSideOf
    InitialRing <- MCInitialRing
    kMaxConnections = 3
    None = None
    MaxOpen = 2
    Hasty <- MCHasty
    Warm <- MCWarm
    Prompt = TRUE
    Requests <- MCRequests
INVARIANTS
    ResponsesToOwner
    
    
    MapsRaceFree
PROPERTY
    RequestsAnswered
