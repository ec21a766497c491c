SPECIFICATION Spec
CONSTANTS
    Entries <- MC_Entries
    FileSizes = {1, 2}
    ConnectPolls = 1
    RecvPolls = 3
    RecvChunk = 2
    None = None
    Machines <- MC_Machines
    PAGE_SIZE = 4096
    QUEUE_BUFS = 16
    VSOCK_QUEUE_SIZE = 8
    CAP_GUARD = 4
    SECRET_MAX = 256
INVARIANTS
    QueueMemorySound
    RoutesOfOwnFiles
PROPERTIES
    BootEnds
CHECK_DEADLOCK FALSE
