CONSTANTS
    turnA = turnA
    turnB = turnB
    createB = createB
    queryA = queryA
    commandB = commandB
    pollB = pollB
    secretB = secretB
    restart = restart
    A = A
    B = B
    Handlers = {turnA, turnB, createB, queryA, commandB, pollB, secretB, restart}
    Profiles = {A, B}
    None = None
    KindOf <- MCKindOf
    ProfileOf <- MCProfileOf
    Casts = {{turnA, turnB, createB, restart}, {turnA, createB, pollB}, {turnA, commandB, pollB}, {turnA, secretB, pollB}, {turnA, queryA, commandB}, {queryA, pollB}}
    MaxProcs = 3
SPECIFICATION Spec
INVARIANTS
    ClientIsKnown
    CallsReachOwnRuntime
    HandoffKeepsConfig
PROPERTIES
    SentOncePerProcess
    PassiveSpares
CHECK_DEADLOCK FALSE
