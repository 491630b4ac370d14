SPECIFICATION Spec
CONSTANTS
    t1 = t1
    t2 = t2
    Threads = {t1, t2}
    NrWords = 2
    WordBits = 2
    Reserved = 1
    MaxOwned = 2
    CounterEnd = 5
SYMMETRY ThreadSymmetry
INVARIANTS
    DamageStaysInWord
    NothingElseLost
