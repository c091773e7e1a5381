SPECIFICATION Spec
CONSTANTS
    ttyS0 = ttyS0
    garmin0 = garmin0
    refused = refused
    objTtyS0 = objTtyS0
    objGarmin0 = objGarmin0
    CreatePath <- MCCreatePath
    ShutdownPath <- MCShutdownPath
    Allowed <- MCAllowed
    Garmin <- MCGarmin
    NoDevice = NoDevice
    MaxLeaks = 2
    Senders = {s1, s2}
    Nodes = {n1, n2, n3}
    Devices = {ttyS0, garmin0, refused}
    ShutdownArgs = {ttyS0, objTtyS0, objGarmin0}
    ObjectPaths = {objTtyS0, objGarmin0}
    NoAutoTerminate = FALSE
    MaxForeign = 2
INVARIANTS
    QuitsOnlyAfterLastClose
CHECK_DEADLOCK FALSE
