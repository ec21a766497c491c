SPECIFICATION Spec
CONSTANTS
    Names = {"a", "b", "long"}
    Cut <- MC_Cut
    Values <- MC_Values
    DirSectors = 3
    PerSector = 1
    DiskSize = 4
    MaxOps = 4
    MaxFaults = 2
    NoName = NoName
    Unknown = Unknown
    Zeros = Zeros
    None = None
INVARIANTS
    ReadBack
    NeverOthersContents
    LayoutSound
PROPERTIES
    OtherFilesSafe
    IsMap
CHECK_DEADLOCK FALSE
