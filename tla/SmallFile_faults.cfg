SPECIFICATION Spec
CONSTANTS
    f1 = f1
    f2 = f2
    Files = {f1, f2}
    NrBlocks = 4
    Reserved = 2
    NrSlices = 3
    SliceSize = 1
    Offsets = {0}
    Counts = {1, 2}
    Appends = {FALSE, TRUE}
    Faults = {"EIO", "EFAULT", "ENOMEM"}
    Contents <- NoContents
    MaxOther = 0
    MaxFree = 3
    MaxSliced = 4
    MaxUsed = 3
SYMMETRY FileSymmetry
INVARIANTS
    ListThreadsSliced
PROPERTIES
    CallsProgress
