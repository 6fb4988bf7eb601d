CONSTANTS
    boot = boot
    r1 = r1
    r2 = r2
    Requests = {boot, r1, r2}
    Boot = boot
    Patient = {boot, r1}
SPECIFICATION FairSpec
INVARIANTS
    NobodyForgotten
PROPERTIES
    ReturnsAreTrue
    
CHECK_DEADLOCK FALSE
