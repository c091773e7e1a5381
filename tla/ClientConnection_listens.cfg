SPECIFICATION Spec
CONSTANTS
    DeviceKinds = {"tty", "usb0", "file", "rfcomm", "nobluez"}
    NmeaLog = TRUE
    BaudRates = {B4800, B9600}
    NoBaudRate = B0
INVARIANT
    StartListens
