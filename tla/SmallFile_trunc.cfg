SPECIFICATION FairSpec
CONSTANTS
    f1 = f1
    f2 = f2
    Files = {f1, f2}
    NrBlocks = 6
    Reserved = 1
    NrSlices = 3
    SliceSize = 2
    Offsets = {0, 1}
    Counts = {0, 2}
    Appends = {FALSE, TRUE}
    Faults = {}
    Contents <- NoContents
    MaxOther = 0
    MaxFree = 7
    MaxSliced = 6
    MaxUsed = 3
INVARIANTS
    ExtentsDisjoint
    VacantBlocksFreed
PROPERTIES
    CallReturns
    ImplementsSliceStore
