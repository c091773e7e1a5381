SPECIFICATION FairSpec
CONSTANTS
    Ends <- const_Ends
    GARMIN_HEADER_SIZE = 3
    READ_BUFFER_SIZE = 11
    Misread <- const_Misread
INVARIANTS
    HandledInOrder
PROPERTY
    HandlesAll
CHECK_DEADLOCK FALSE
