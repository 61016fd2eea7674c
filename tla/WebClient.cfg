SPECIFICATION FairSpec
CONSTANTS
    Sockets = {s, t}
    NoSocket = NoSocket
    maxReconnectAttempts = 2
    MaxCommands = 2
    MaxDecoding = 1
INVARIANT TypeOK
INVARIANT HandshakeFirst
INVARIANT OneAttempt
PROPERTY RemovalAsConfirmed
PROPERTY ImplementsOutbox
PROPERTY KeepsTrying
CHECK_DEADLOCK FALSE
