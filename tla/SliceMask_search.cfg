SPECIFICATION Spec
CONSTANTS
    Width = 8
    SliceSize = 2
    BlockLimit = 8
    FileSizes = {0, 1, 2, 3, 6, 8, 9, 14, 15, 16, 17}
    Blocks = {1, 7, 8, 9}
INVARIANTS
    FirstFit
    DeleteRestores
    PackingKeepsBlock
CHECK_DEADLOCK FALSE
