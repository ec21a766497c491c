SPECIFICATION Spec
CONSTANTS
    Paths = {p}
    MaxCalls = 3
    MaxCredits = 1
    MaxTimeouts = 2
    SecretTimeouts = 0
    MaxPieces = 3
    BufAlloc = 2
    None = None
INVARIANTS
    TypeOK
    AnswersOwnRequest
PROPERTIES
    IsFileService
    CallAnswered
CHECK_DEADLOCK FALSE
