\* A console and a dedicated device, two subclasses, and room for an interruption
\* that is left over from an earlier start.
CONSTANTS
    Vdevs = {1, 2}
    VType <- ConsAndDed
    MaxIsc = 1
    Params = {7}
    GuestPSWs <- FivePSWs
    MaxInts = 2
SPECIFICATION FairSpec
INVARIANTS
    StatusAnnounced
    QueueIsExact
    FreeUnlessAbandoned
PROPERTIES
    WaitEnds
