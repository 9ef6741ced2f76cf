\* 5 low pages (blocks of 1 and 4) and 3 above the line (1 and 2).
CONSTANTS
    Start = 3
    MemPages = 11
    LowEnd = 8
    LowMaxOrder = 3
    NormalMaxOrder = 4
    Orders = {0, 1}
SPECIFICATION Spec
INVARIANTS
    NoOverlap
    NoLeak
PROPERTIES
    FailsOnlyWhenFull
    ImplementsPageAlloc
\* A fault ends the behaviour.
CHECK_DEADLOCK FALSE
