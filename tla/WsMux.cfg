CONSTANTS
    NWorkers = 2
    Keys = {k1}
    NoKey = NoKey
    QueueSize = 1
    SinkSize = 1
    MailboxSize = 1
    Modes <- MCModes
    MaxCommands = 2
    MaxConns = 1
SPECIFICATION Spec
INVARIANTS TypeOK WriteFindsConn PingOnItsConnection DisconnectIsCurrent DialUndisturbed NoMutualBlock
CHECK_DEADLOCK FALSE
