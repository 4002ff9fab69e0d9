CONSTANTS
    Fanout = 3
    Reach = 18
    HEAP_START = 18
    LapicPage = 24
    LapicFrame = 17
    IoapicFrame = 16
    LowPages = 2
    SafetyPages = 1
    FallbackPages = 4
    Machines <- MCMachines
    Polls = 2
    LBAs = {0, 1, 2}
    Bays <- MCBays
    Ramdisks = {0, 2}
    Configs <- MCConfigs
SPECIFICATION BootSpec
INVARIANTS
    FramesServeOnce
    HeapBacked
    PanicOnlyWhenExhausted
    MountedIsFat32
    ReadGivesSector
PROPERTIES
    MappingsKept
    BootEnds
