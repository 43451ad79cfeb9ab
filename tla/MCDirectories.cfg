CONSTANTS
    Hosts = {h1}
    NoHost = NoHost
    Names <- MCNames
    Cwd <- MCCwd
    Home <- MCHome
    RemoteHome <- MCHome
    LocalDirs <- MCLocalDirs
    RemoteDirs <- MCRemoteDirs
SPECIFICATION Spec
INVARIANTS
    LocalWithinIsCd
    OrdinaryCommandsStay
    UploadMeetsCommand
