SPECIFICATION Spec
CONSTANTS
    Ends <- const_Short
    READ_BUFFER_SIZE = 9
    MaxNoise = 2
    MaxSplits = 1
INVARIANTS
    TypeOK
    ParsedAll
    NeverRunsOff
    LossIsBounded
CHECK_DEADLOCK FALSE
