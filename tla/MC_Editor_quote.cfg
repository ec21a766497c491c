SPECIFICATION Spec
CONSTANTS
    PAGE = 10
    MAX_PAGES = 8
    MAX_BYTES = 8
    METHOD_MAX = 1
    PATH_MAX = 2
    BODY_MAX = 7
    FUEL_PER_REQUEST = 1
    USIZE = 1000
    RECV_MAX = 5
    SEND_MAX = 6
    Modules <- EditorOnly
    Requests <- QuoteRequests
    MaxRequests <- MCMaxRequests
    Ptrs <- MCPtrs
    Lens <- MCLens
    Feed <- MCFeed
    Zero = Zero
    NoValue = NoValue
    Paths <- QuotePaths
    Disks <- QuoteDisks
    Absent = Absent
    Torn <- MCTorn
    NAME_MAX = 2
    SCRATCH = 20
    READ_BUF = 23
    READ_MAX = 3
    LIST_BUF = 30
    LIST_MAX = 5
    DOC = 40
INVARIANTS
    ListIsNames
CHECK_DEADLOCK FALSE
