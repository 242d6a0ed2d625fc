CONSTANTS
    NWorkers = 1
    Keys = {k1}
    NoKey = NoKey
    QueueSize = 1
    SinkSize = 1
    MailboxSize = 1
    Modes <- MCModes
    MaxCommands = 2
    MaxConns = 2
SPECIFICATION FairSpec
PROPERTIES CommandsResolved Recovers StopCompletes
CHECK_DEADLOCK FALSE
