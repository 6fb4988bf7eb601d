CONSTANTS
    t1 = t1
    Threads = {t1}
    Existing = {t1}
    None = None
    Percents = {85, 95}
    MaxEvents = 6
    MaxTurns = 3
    MaxGrants = 1
    MaxRestarts = 1
SPECIFICATION Spec
INVARIANTS
    HotTurnsAreAllowed
    RefusalsAreExplained
    
CHECK_DEADLOCK FALSE
