SPECIFICATION Spec
CONSTANTS
    s1 = s1
    s2 = s2
    p1 = p1
    Senders <- MCSenders
    Listeners <- MCListenersSet
    ObjectPaths <- MCPaths
    Path = p1
    MaxObjects = 2
    MaxChanges = 3
    MaxWire = 3
INVARIANTS
    LastWordIsRight
    WireNeverGoesBack
PROPERTIES
    GoneIsQuiet
    EndsUpRight
CHECK_DEADLOCK FALSE
