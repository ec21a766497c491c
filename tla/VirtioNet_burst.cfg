SPECIFICATION NetSpec
CONSTANTS
    QueueSize = 4
    Bufs = 2
    Width = 8
    OverflowChecks = FALSE
    MaxFrames = 1
    MaxSends = 4
INVARIANTS
    TxIntact
CHECK_DEADLOCK FALSE
