SPECIFICATION Spec
CONSTANTS
    ULONG = 65536
    BUFFER = 6
    SLOTS = 4
    Typeable <- Keys
    HELP <- SomeHelp
    FORCE <- SomeForce
    Modules <- SomeModules
    Leftovers <- SomeLeftovers
INVARIANTS
    RunsTheLine
    OverrunByLine
    ActsOnNamed
CHECK_DEADLOCK FALSE
