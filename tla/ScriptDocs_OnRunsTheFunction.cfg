CONSTANTS
    r1 = r1
    r2 = r2
    web = web
    db = db
    staging = staging
    production = production
    deploy = deploy
    restart = restart
    NoApi = NoApi
    LocalEnv = LocalEnv
    Items <- MCItems
    TaskNames = {deploy, restart}
    Requested <- MCRequested
    Environment = staging
    Archives = {arch1}
    MaxDepth = 4
SPECIFICATION Spec
PROPERTY OnRunsTheFunction
