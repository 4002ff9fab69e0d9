CONSTANTS
    PMM_BITMAP_SIZE = 3
    LowBlock = 8
    BootInfos <- AlignedBoots
    NeighbourBytes <- AnyNeighbour
    HeapSize = 128
    Requests <- Sizes
    SizeModulus = 4096
    FieldModulus = 1024
SPECIFICATION MemSpec
INVARIANTS
    UsedCountExact
    OwnedOutsideProtected
    Tiled
    PayloadsDisjoint
    Coalesced
PROPERTIES
    AbstractSpec
    FirstFit
    CallsReturn
