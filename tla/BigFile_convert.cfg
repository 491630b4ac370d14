SPECIFICATION Spec
CONSTANTS
    f1 = f1
    f2 = f2
    Files = {f1, f2}
    NoFile = NoFile
    NrBlocks = 7
    Reserved = 2
    NrSlices = 2
    SliceSize = 1
    IndexLen = 2
    Offsets = {0, 2}
    Counts = {1, 3}
    Appends = {FALSE}
    Words = {1}
    Faults = {}
    MaxFree = 6
SYMMETRY FileSymmetry
INVARIANTS
    IndexBlockUsed
CHECK_DEADLOCK FALSE
