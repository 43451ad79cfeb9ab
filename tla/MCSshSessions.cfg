CONSTANTS
    Remotes = {r1, r2}
    MaxHandles = 3
    MaxChannels = 2
    NoHandle = NoHandle
SPECIFICATION FairSpec
INVARIANTS
    TypeOK
    PooledIsUsable
    OneUsableSession
    MethodsInOrder
    ChannelsAccounted
PROPERTIES
    OperationEnds
    ConnectionsSpec
