SPECIFICATION Spec
CONSTANTS
    t1 = t1
    t2 = t2
    Threads <- MCThreads
    NumClients = 1
    NumFds = 2
    server_fd = server_fd
    None = None
    kMaxEvents = 2
    kBufferWrittableSize = 3
    RequestSize = 2
    SocketRoom = 3
    MaxOpen = 2
    Requests <- MCTwoTransactions
INVARIANT
    ResponsesFramed
CHECK_DEADLOCK FALSE
