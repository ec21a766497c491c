SPECIFICATION RtcSpec
CONSTANTS
    StartYears = {24, 25}
    Preempted = FALSE
INVARIANTS
    UnixTime
CHECK_DEADLOCK FALSE
