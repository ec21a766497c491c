SPECIFICATION Spec
CONSTANTS
    Requests80 <- MC_OneRequest
    AdminScripts <- MC_Deploys
    FeedAnswers = {2}
    StaticPaths = {}
    BootRoutes <- MC_BootRoutes
    StoreOutcomes = {"written", "failed"}
    MaxConn80 = 1
    MaxConn81 = 2
    MaxTime = 0
    Recv80 = 2
    RecvHeader = 2
    RecvBody = 2
    MaxWasm = 2
    FeedMax = 2
    FeedRead = 2
    FeedInterval = 1
    IdleLimit = 0
    StaleLimit = 0
    NoLength = NoLength
    None = None
INVARIANTS
    TypeOK
    OneConnectionPerRequest
    OneAnswerPerConnection
    NoDeployLost
    DeployedModulePersisted
    FeedCoherent
PROPERTIES
    ReplyIsCurrent
