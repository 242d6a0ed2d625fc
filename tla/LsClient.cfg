CONSTANTS
    Keys = {k1, k2}
    Callers = {c1}
    MaxConnSlots = 2
    MaxRoutesPerSlot = 1
    RouteFillStep = 1
    QueueSize = 1
    StreamCap = 1
    MaxSlotIDs = 2
    MaxLosses = 0
    MaxFaults = 1
    SubscriptionBuf = 1
    MaxSubscribers = 2
SPECIFICATION Spec
INVARIANTS OwnersLive WithinLimits NoSlotLeak 
PROPERTIES RoutesAsPromised
SYMMETRY Symmetry
CHECK_DEADLOCK FALSE
