SPECIFICATION ObjectSpec
CONSTANTS
    DeviceKinds = {"tty", "usb0", "file", "rfcomm", "nobluez"}
    NmeaLog = TRUE
    BaudRates = {"B4800", "B9600"}
    NoBaudRate = "B0"
    Senders = {"s1", "s2"}
    Devices = {"dev_gps", "dev_other", "dev_refused"}
    Allowed = {"dev_gps", "dev_other"}
    ObjectPaths = {"obj_gps", "obj_other"}
    ShutdownArgs = {"obj_gps", "obj_other"}
    CreatePath <- const_CreatePath
    ShutdownPath <- const_ShutdownPath
    Garmin = {"dev_gps"}
    NoAutoTerminate = TRUE
    Nodes = {"n1", "n2"}
    NoDevice = "none"
    MaxForeign = 1
    MaxLeaks = 2
    Path = "obj_gps"
INVARIANTS
    TypeOK
    InputHasParser
    HangUpIsSeen
    SignalledIsConnected
    SpeedInEffect
    ResourcesAreOwned
PROPERTY
    StepsOfServer
CHECK_DEADLOCK FALSE
