SPECIFICATION PacedSpec
CONSTANTS
    TIMER_MAX_TASKS = 2
    WORD = 4
    Requests <- TwoTasks
    Delays = {2}
INVARIANTS
    NeverLate
    SleptLong
PROPERTIES
    
    SleepReturns
