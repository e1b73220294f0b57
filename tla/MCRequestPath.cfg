SPECIFICATION PathSpec
CONSTANTS
    RingSize = 3
    IntHalf = 8
    Limit = 3
    Values <- MCInt32
    Tags = {"zero", "text", "long"}
    ZeroTag = "zero"
    MaxLedger = 7
    Base = 3
    DescriptionLength <- MCDescriptionLength
    MaxDescription = 2
    FieldWidth = 4
    NumCustomers = 1
    Id = 1
    NoBody = NoBody
    Https <- MCHttps
INVARIANTS
    ListingIsLatest
    BalanceIsTotal
    LimitRespected
    AnswerReadsBack
    StatementShowsRequests
