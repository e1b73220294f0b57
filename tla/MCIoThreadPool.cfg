SPECIFICATION FairSpec
CONSTANTS
    t1 = t1
    t2 = t2
    Threads <- MCThreads
    NumClients = 3
    NumFds = 2
    server_fd = server_fd
    None = None
    kMaxEvents = 2
    kBufferWrittableSize = 3
    RequestSize = 2
    SocketRoom = 3
    MaxOpen = 2
    Requests <- MCRequests
INVARIANTS
    OwnDescriptor
    
PROPERTIES
    RequestsAnswered
    DescriptorsReleased
CHECK_DEADLOCK FALSE
