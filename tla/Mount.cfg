SPECIFICATION MountSpec
CONSTANTS
    NODE = 2
    MEGABYTE = 4
    WORD = 256
    MemoryMaps <- MCPools
    Requests = {1, 3}
    Volumes <- MCVolumes
    HANDLE = 3
INVARIANTS
    BlocksDisjoint
    NodesSafe
    Accounted
    RootAlive
    NothingLeaked
PROPERTY ImplementsHeap
