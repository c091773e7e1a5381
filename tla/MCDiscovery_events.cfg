SPECIFICATION FairSpec
CONSTANTS
    Names <- const_Names
    Addresses <- const_Addresses
    MaxPlugs = 2
INVARIANTS
    ListIsCurrent
    ListenerAgrees
PROPERTIES
    BluetoothStays
    HeardInTheEnd
CHECK_DEADLOCK FALSE
