\* Three tasks, a mutex, the slice of the code (100 / 30 ticks).
CONSTANTS
    Tasks = {t1, t2, t3}
    Idle = idle
    NoTask = null
    Mutexes = {1}
    Slice = 3
SPECIFICATION FairSpec
INVARIANTS
    MutualExclusion
    NoWaiterLeftBehind
    SleeperAccountedFor
    OnePlace
PROPERTIES
    WaiterServed
\* A destroyed run queue ends the behaviour.
CHECK_DEADLOCK FALSE
