SPECIFICATION BootSpec
CONSTANTS
    START_DATA = 33
    SECTORS_PER_CLUSTER = 1
    FIRST_BLOCKS = 2
    BARRIER = 5
    BX_SECTORS = 5
    AX_SECTORS = 65536
    MAP_SLOTS = 3
    Disks <- SomeDisks
    Files <- SomeFiles
    Payloads <- InstalledPayloads
    BiosMaps <- SomeMaps
INVARIANTS
    Loaded
    InOrder
    MapRead
PROPERTIES
    Boots
CHECK_DEADLOCK FALSE
