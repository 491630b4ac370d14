SPECIFICATION Spec
CONSTANTS
    Sizes <- FittingSizes
    InodesPerBlock = 3
    BitsPerBlock = 24
INVARIANTS
    FreeBlocksAreData
    InodesHavePlace
    RootFound
CHECK_DEADLOCK FALSE
