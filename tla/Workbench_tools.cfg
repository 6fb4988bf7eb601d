CONSTANTS
    w1 = w1
    w2 = w2
    key = key
    tile = tile
    t1 = t1
    t2 = t2
    t3 = t3
    Texts <- MCTexts
    Targets <- MCTargets
    Threads = {t1, t2, t3}
    First = t1
    MaxTurns = 2
    MaxClock = 1
    Workers = {w1, w2}
    None = None
    Casts <- MCCasts
    MaxImages = 2
    MaxN = 2
    Attempts = 2
    Kept = 2
    Stock <- MCStock
    Drawn <- MCDrawn
    Names = {key}
    Slots = {tile}
    MaxRequests <- MCMaxRequests
    Pages <- MCPages
    Requests <- MCRequests
    MaxCrashes = 1
SPECIFICATION Spec
SYMMETRY MCSymmetry
INVARIANTS
    DrawsAreListed
    AssetsAgree
    
    PassedSmokesAreTrue
    
PROPERTIES
    ThreadFilesAreKept
CHECK_DEADLOCK FALSE
