SPECIFICATION FairSpec
CONSTANTS
    Readings <- const_All
    Day = 4
    Leap = 1
    Starts <- const_Starts
    BlankTimes <- const_BlankTimes
    PerSecond = 2
    Seconds = 1
    MaxReconnects = 1
INVARIANTS
    TimestampIsUtc
    ClimbIsFinite
PROPERTIES
    ImplementsNotifier
    PositionQuiet
    FixQuiet
CHECK_DEADLOCK FALSE
