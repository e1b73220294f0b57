SPECIFICATION RubySpec
CONSTANTS
    MaxRequests = 6
    MaxReconnects = 2
    MaxMulti = 3
INVARIANTS
    ResponsesInOrder
    CountersAccount
    
    StableBetweenMethods
PROPERTY
    DeadUntilReconnect
