SPECIFICATION Spec
CONSTANTS
    LINES = {0, 1, 14}
    EXCEPTIONS = {}
    BIOS_MASK <- BiosMask
    EARLY_KEYS = FALSE
INVARIANTS
    InterruptEnds
CHECK_DEADLOCK FALSE
