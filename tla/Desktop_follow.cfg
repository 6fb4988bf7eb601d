CONSTANTS
    a = a
    b = b
    Projects = {a, b}
    None = None
    Logged <- MCLogged
    Opened = a
    MaxEvents = 3
    MaxAsks = 3
    s1 = s1
    s2 = s2
    Sidecars = {s1, s2}
    Nowhere = Nowhere
    Default = Default
    Reaches <- MCReaches
    MaxRotations = 1
    MaxItems <- MCMaxItems
    MaxReads <- MCMaxReads
SPECIFICATION DesktopSpec

    
    
    
PROPERTIES
    EveryEventArrives
CHECK_DEADLOCK FALSE
