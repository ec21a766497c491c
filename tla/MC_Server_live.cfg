SPECIFICATION PeerSpec
CONSTANTS
    Requests80 <- MC_RequestWithBody
    AdminScripts <- MC_Deploys
    FeedAnswers = {0, 3}
    StaticPaths <- MC_StaticBbs
    BootRoutes <- MC_BootRoutes
    StoreOutcomes = {}
    MaxConn80 = 2
    MaxConn81 = 0
    MaxTime = 1
    Recv80 = 1
    RecvHeader = 2
    RecvBody = 2
    MaxWasm = 2
    FeedMax = 3
    FeedRead = 2
    FeedInterval = 1
    IdleLimit = 1
    StaleLimit = 1
    NoLength = NoLength
    None = None
INVARIANTS
    OneConnectionPerRequest
    FeedSocketOwned
PROPERTIES
    RequestAnswered
    AnsweredPortReopens
    FetchEnds
