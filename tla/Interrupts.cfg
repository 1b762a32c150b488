SPECIFICATION FairSpec
CONSTANTS
    LINES = {0, 1, 5, 6, 14}
    EXCEPTIONS = {8, 20}
    BIOS_MASK <- BiosMask
    EARLY_KEYS = TRUE
INVARIANTS
    OwnRoutine
    MasterReleased
    RestoredForBios
PROPERTIES
    DriverLinesServed
    Chainloads
CHECK_DEADLOCK FALSE
