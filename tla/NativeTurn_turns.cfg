CONSTANTS
    u1 = u1
    u2 = u2
    d1 = d1
    q1 = q1
    first = first
    Turns = {u1}
    Demos = {d1}
    Requests = {q1}
    Real = Real
    None = None
    ThreadOf <- MCThreadOf
    WireOf <- MCChat
    ModeOf <- MCModeOf
    Responses <- MCResponses
    Enabled = TRUE
    MaxRounds = 3
    MaxHistory = 4
SPECIFICATION FairSpec
INVARIANTS
    
    
    RouterComesBack
PROPERTIES
    TurnsKeepEachOthersEdits
    LockIsReleased
CHECK_DEADLOCK FALSE
