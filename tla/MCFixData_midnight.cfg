SPECIFICATION Spec
CONSTANTS
    Readings <- const_All
    Day = 4
    Leap = 1
    Starts <- const_Starts
    BlankTimes <- const_BlankTimes
    PerSecond = 1
    Seconds = 1
    MaxReconnects = 0
INVARIANT
    TimestampIsTold
CHECK_DEADLOCK FALSE
