CONSTANTS
    a1 = a1
    a2 = a2
    u1 = u1
    u2 = u2
    deepseek = deepseek
    kimi = kimi
    chat = chat
    coder = coder
    Actors = {a1, a2}
    Providers = {deepseek, kimi}
    Profiled = {deepseek}
    Models <- MCModels
    Seed <- MCSeed
    Users = {u1, u2}
    Nobody = Nobody
    Own = Own
    Nothing = Nothing
    MaxPasswords = 2
    Areas <- MCAreas
    Managed <- MCManaged
    Filed = Filed
    KeptJobs = 1
    MaxJobs = 2
SPECIFICATION Spec
SYMMETRY MCSymmetry
INVARIANTS
    
    
    VariableComesBack
    RefreshIsTold
CHECK_DEADLOCK FALSE
