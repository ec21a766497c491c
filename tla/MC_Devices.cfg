SPECIFICATION DevicesSpec
CONSTANTS
    QueueSize = 4
    Bufs = 2
    Width = 8
    OverflowChecks = FALSE
    MaxFrames = 9
    MaxSends = 9
    Sectors = {s1, s2}
    Contents = {v1, v2}
    MaxCalls = 3
    Garbage = Garbage
    Unknown = Unknown
    None = None
    StartYears = {0, 1, 24, 25, 70, 99}
    Preempted = FALSE
INVARIANTS
    TypeOK
    RxInOrder
    BuffersConserved
    RingsNeverOverrun
    Synchronous
    WritesLand
    ClockExact
PROPERTIES
    FramesDelivered
    IntactWithinBufs
    CallReturns
CHECK_DEADLOCK FALSE
