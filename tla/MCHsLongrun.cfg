SPECIFICATION FairSpec
CONSTANTS
    w1 = w1
    w2 = w2
    w3 = w3
    k1 = k1
    k2 = k2
    Threads <- MCThreads
    Keys <- MCKeys
    None = None
    Mixes <- MCMixes

    
    
PROPERTY
    ThreadsJoin
CHECK_DEADLOCK FALSE
