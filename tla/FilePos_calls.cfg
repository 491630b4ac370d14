SPECIFICATION FairSpec
CONSTANTS
    SliceSize = 2
    BlockSize = 6
    IndexLen = 2
    Counts = {1, 2, 3}
    Offsets = {0, 3, 8}
    Bufs = {2, 4}
    MaxWrites = 3
PROPERTIES
    WritesExact
    ReaderFinishes
