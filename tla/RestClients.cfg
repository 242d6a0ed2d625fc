SPECIFICATION FairSpec
CONSTANTS
    c1 = c1
    c2 = c2
    Callers <- MCCallers
    None = None
    Life = 3
    KisMargin = 1
    StoreMargin = 1
    TokenExpiryMargin = 2
    PageSize = 2
    Close = 4
    MaxCodes = 2
    MaxTime = 3
    MaxCalls = 2
    MaxRetries = 1
INVARIANTS
    TokenAlive
    
PROPERTIES
    OneIssue
    CallsEnd
CHECK_DEADLOCK FALSE
