CONSTANTS
    NWorkers = 1
    Keys = {k1}
    NoKey = NoKey
    QueueSize = 1
    SinkSize = 1
    MailboxSize = 1
    Modes <- MCPlain
    MaxCommands = 1
    MaxConns = 1
SPECIFICATION Spec
INVARIANTS ReplayRestores
CHECK_DEADLOCK FALSE
