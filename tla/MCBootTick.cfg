\* One subchannel; then four tasks and whatever the timer does.
CONSTANTS
    N = 1
    Tasks = {t1, t2, t3, t4}
    Idle = idle
    Queue = runnable_head
    NULL = null
    Poison = poison
SPECIFICATION BootSpec
SYMMETRY TaskSymmetry
INVARIANTS
    NoTaskLost
