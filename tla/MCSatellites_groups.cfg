SPECIFICATION FairSpec
CONSTANTS
    Skies <- const_Skies
    InUseSets <- const_InUseSets
    PerSentence = 1
    MAX_SAT_SVID = 6
    MaxBurst = 2
    MaxRestarts = 1
INVARIANTS
    NoOverflow
PROPERTIES
    SignalIffChanged
    CommitsWholeGroup
    Recovers
