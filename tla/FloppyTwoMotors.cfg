SPECIFICATION Spec
CONSTANTS
    DRIVES = {0, 1}
    N_BLOCKS = 2
    SPT = 2
    HEADS = 1
    MAX_READ = 1
    RW_TRIES = 2
    RECAL_TRIES = 2
    SPIN_DOWN = 100
    LATE = FALSE
INVARIANT KilledStaysOff
CHECK_DEADLOCK FALSE
