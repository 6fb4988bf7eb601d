CONSTANTS
    turnA = turnA
    turnB = turnB
    createB = createB
    queryA = queryA
    commandB = commandB
    pollB = pollB
    secretB = secretB
    restart = restart
    A = A
    B = B
    Handlers = {turnA, createB, pollB}
    Profiles = {A, B}
    None = None
    KindOf <- MCKindOf
    ProfileOf <- MCProfileOf
    Casts = {{turnA, createB, pollB}}
    MaxProcs = 3
SPECIFICATION FairSpec
PROPERTY EveryHandlerReturns
CHECK_DEADLOCK FALSE
