SPECIFICATION ControlSpec
CONSTANTS
    ttyUSB0 = ttyUSB0
    ttyUSB0Alias = ttyUSB0Alias
    bt0 = bt0
    refused = refused
    objTtyUSB0 = objTtyUSB0
    objBt0 = objBt0
    colons = colons
    CreatePath <- const_CreatePath
    ShutdownPath <- const_ShutdownPath
    Allowed <- const_Allowed
    Garmin <- const_Garmin
    NoDevice = NoDevice
    MaxLeaks = 1
    Senders = {s1, s2}
    Programs = {s1}
    MaxRefs = 2
    Nodes = {n1, n2, n3}
    Devices = {ttyUSB0, ttyUSB0Alias, bt0, refused}
    ShutdownArgs = {ttyUSB0, ttyUSB0Alias, bt0, refused, objBt0}
    ObjectPaths = {objTtyUSB0, objBt0, colons}
    NoAutoTerminate = FALSE
    MaxForeign = 2
INVARIANTS
    TypeOK
    RefsAccounted
    HeldObjectsAlive
    CountTracksConnections
    NeverQuitsUnderClient
    IdleIsArmed
    LibraryAccounts
PROPERTIES
    OnlyOwnShutdowns
    ServerImplementsLease
    DrainedQuits
CHECK_DEADLOCK FALSE
