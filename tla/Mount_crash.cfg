SPECIFICATION Spec
CONSTANTS
    Files = {f1, f2}
    Blocks = {b1, b2}
    None = None
    MaxFaults = 1
    MaxOps = 4
    MaxEntries = 2
SYMMETRY MountSymmetry
INVARIANTS
    NothingLeft
    CleanRemount
    SyncedSurvives
    CleanIsSound
CHECK_DEADLOCK FALSE
