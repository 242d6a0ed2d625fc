CONSTANTS
    Keys = {k1}
    Callers = {c1}
    MaxConnSlots = 1
    MaxRoutesPerSlot = 1
    RouteFillStep = 1
    QueueSize = 1
    StreamCap = 1
    MaxSlotIDs = 2
    MaxLosses = 1
    MaxFaults = 0
    SubscriptionBuf = 1
    MaxSubscribers = 1
    Starters = {t1}
    MaxBrokers = 2
    DomainBuf = 1
SPECIFICATION GwSpec
PROPERTIES RemovedIsFinal RemoveStops StreamEnds FanOutFlows
CHECK_DEADLOCK FALSE
