SPECIFICATION Spec
CONSTANTS
    f1 = f1
    f2 = f2
    Files = {f1, f2}
    NrBlocks = 6
    Reserved = 3
    NrSlices = 2
    SliceSize = 1
    IndexLen = 2
    Offsets = {0, 2}
    Counts = {1, 3}
    Appends = {FALSE, TRUE}
    Words = {9}
    Faults = {"EIO", "EFAULT"}
    NoFile = NoFile
    MaxFree = 4
SYMMETRY FileSymmetry
INVARIANTS
    BlocksOwnedOnce
    OnlyOwnBytes
    SizeLimited
PROPERTIES
    NoBlockLeak
CHECK_DEADLOCK FALSE
