CONSTANTS
    Remotes = {r1}
    MaxHandles = 3
    MaxChannels = 2
    NoHandle = NoHandle
SPECIFICATION Spec
INVARIANT OneConnectionPerRemote
