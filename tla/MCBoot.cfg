\* Four subchannels, of which any may have a device, with a driver or not, and
\* every step may fail; then four tasks that are created, block, are woken and exit,
\* and a timer that interrupts anything, up to the first list_add_tail that is torn.
CONSTANTS
    N = 4
    Tasks = {t1, t2, t3, t4}
    Idle = idle
    Queue = runnable_head
    NULL = null
    Poison = poison
SPECIFICATION BootSpec
SYMMETRY TaskSymmetry
INVARIANTS
    ListIsSound
    ScannedIsUsable
    OwnSubchannel
    LostOnlyIfTorn
CONSTRAINT Whole
