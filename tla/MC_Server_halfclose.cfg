SPECIFICATION PeerSpec
CONSTANTS
    Requests80 <- MC_Requests
    AdminScripts <- MC_Deploys
    FeedAnswers = {}
    StaticPaths <- MC_StaticBbs
    BootRoutes <- MC_BootRoutes
    StoreOutcomes = {}
    MaxConn80 = 1
    MaxConn81 = 0
    MaxTime = 0
    Recv80 = 2
    RecvHeader = 2
    RecvBody = 2
    MaxWasm = 2
    FeedMax = 3
    FeedRead = 2
    FeedInterval = 1
    IdleLimit = 1
    StaleLimit = 1
    NoLength = NoLength
    None = None
PROPERTIES
    PortReopens
