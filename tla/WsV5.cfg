CONSTANTS
    Keys = {k1}
    EventQueueSize = 1
    WriteQueueSize = 1
    MaxRequests = 2
    MaxConns = 2
SPECIFICATION FairSpec
INVARIANTS OneDriver AnsweredOnce 
PROPERTIES Answered RetiredEnds ShutdownCompletes
CHECK_DEADLOCK FALSE
