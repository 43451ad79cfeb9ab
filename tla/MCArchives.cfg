CONSTANTS
    r1 = r1
    r2 = r2
    web = web
    db = db
    staging = staging
    production = production
    deploy = deploy
    restart = restart
    NoApi = NoApi
    LocalEnv = LocalEnv
    Items <- MCItems
    TaskNames = {deploy, restart}
    Requested <- MCRequested
    Environment = staging
    Archives = {arch1, arch2}
    MaxDepth = 3
SPECIFICATION Spec
INVARIANT ArchivesLeft
