CONSTANTS
    Keys = {k1}
    MaxSendQueue = 1
    MaxSessions = 2
    MaxPending = 2
    MaxCount = 2
SPECIFICATION FairSpec
INVARIANTS  WriterOwnsFront NoLostWakeup HeldWhereAssigned ServerAgrees
PROPERTIES Restored RunEnds
CHECK_DEADLOCK FALSE
