SPECIFICATION FairSpec
CONSTANTS
    w1 = w1  w2 = w2
    Workers <- MCWorkers
    Main = Main
    NumClients = 3
    Fds <- MCFds
    server_fd = server_fd
    None = None
    MAX_EVENTS = 2
    Requests <- MCRequests
    Hasty <- MCHasty
    Spurious = 1
INVARIANTS
    TasksServedOnce
PROPERTIES
    RequestsAnswered
    DescriptorsReleased
