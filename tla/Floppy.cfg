SPECIFICATION FairSpec
CONSTANTS
    DRIVES = {0}
    N_BLOCKS = 8
    SPT = 2
    HEADS = 2
    MAX_READ = 2
    RW_TRIES = 2
    RECAL_TRIES = 2
    SPIN_DOWN = 300
    LATE = FALSE
INVARIANTS
    NoMotorLeftOn
    CountdownExact
    OffIsOff
    ResultIsReady
    ReadsBlocks
PROPERTIES
    RequestEnds
    MotorStops
CHECK_DEADLOCK FALSE
