SPECIFICATION Spec
CONSTANTS
    NrInodes = 5
    MaxSub = 3
    a = a
    b = b
    c = c
    Names = {a, b, c}
    NoName = NoName
    Stored <- ShortNames
    FreeBlocks = 2
    RenameEIO = TRUE
SYMMETRY NameSymmetry
INVARIANTS
    TreeIntact
    EntriesPacked
    NamesUnique
    LinksCountSubdirs
    ListsEachOnce
    SmallFilesCounted
CHECK_DEADLOCK FALSE
