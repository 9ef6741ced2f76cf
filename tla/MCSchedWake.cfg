CONSTANTS
    Tasks = {t1, t2}
    Idle = idle
    NoTask = null
    Mutexes = {1}
    Slice = 3
SPECIFICATION Spec
INVARIANTS
    WakesOnlySleepers
CHECK_DEADLOCK FALSE
