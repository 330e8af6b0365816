\* One listing of two pages of up to three, one resolver slot, one socket.
CONSTANTS
    l1 = l1
    l2 = l2
    k1 = k1
    k2 = k2
    p1 = p1
    p2 = p2
    p3 = p3
    None = None
    End = End
    Unknown = Unknown
    Lookups <- TwoLookups
    Sockets <- OneSocket
    Pages <- ThreePages
    FirstPage = p1
    MaxResolvers = 1
    MaxRetries = 1
    MaxRedirects = 1
    MaxPages = 2
SPECIFICATION FairSpec
INVARIANTS
    SlotsReturnOnce
    OwnShutdown
    WholeBody
    EndRespected
PROPERTIES
    ListingEnds
    StepsRunOut
    ImplementsPagedListing
CHECK_DEADLOCK FALSE
