SPECIFICATION Spec
CONSTANTS
    f1 = f1
    f2 = f2
    Files = {f1, f2}
    NrBlocks = 5
    Reserved = 2
    NrSlices = 4
    SliceSize = 2
    Offsets = {0, 3}
    Counts = {2, 5}
    Appends = {FALSE, TRUE}
    Faults = {}
    Contents <- NoContents
    MaxOther = 1
    MaxFree = 4
    MaxSliced = 5
    MaxUsed = 5
SYMMETRY FileSymmetry
INVARIANTS
    TypeOK
    ListThreadsSliced
    ExtentsDisjoint
    NoForeignData
    NoSliceLeak
    SpaceReturned
    FreeCountNotLow
    UsedNotLow
PROPERTIES
    FailureRestores
