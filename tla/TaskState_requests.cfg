CONSTANTS
    r1 = r1
    r2 = r2
    r3 = r3
    t1 = t1
    t2 = t2
    t3 = t3
    a = a
    b = b
    Requests = {r1, r2, r3}
    Threads = {t1, t2, t3}
    None = None
    Menu <- MCMenu
    RouteOf <- MCRouteOf
    Existing <- MCExisting
    Together <- MCTogether
    Called = {t1}
    Apart <- MCApart
    MaxTasks = 5
    MaxLost = 1
SYMMETRY MCSymmetry
SPECIFICATION Spec
INVARIANTS
    StoreIsConsistent
    Settles
PROPERTIES
    FocusIsKept
CHECK_DEADLOCK FALSE
