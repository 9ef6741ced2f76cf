----------------------------- MODULE PageAlloc -----------------------------
(***************************************************************************)
(* What the callers of alloc_pages and free_pages rely on: a caller is     *)
(* given 2^order consecutive pages that nobody else has, below the 2GB     *)
(* line if it asked for ZONE_LOW, and may give them back.                  *)
(***************************************************************************)
EXTENDS Integers

CONSTANTS
    Pages,      \* the page frames under the allocator's control
    LowEnd,     \* the first page frame above 2GB
    Orders      \* the orders callers ask for

VARIABLES
    avail,      \* the pages nobody owns
    owned       \* the allocations: <<request type, order, first page>>

Extent(b) == b[3]..(b[3] + 2^b[2] - 1)

Init == avail = Pages /\ owned = {}

Alloc(b) ==
    /\ Extent(b) \subseteq avail
    /\ b[1] = "ZONE_LOW" => \A x \in Extent(b) : x < LowEnd
    /\ avail' = avail \ Extent(b)
    /\ owned' = owned \cup {b}

Free(b) ==
    /\ b \in owned
    /\ avail' = avail \cup Extent(b)
    /\ owned' = owned \ {b}

Next ==
    \/ \E type \in {"ZONE_LOW", "ZONE_NORMAL"}, k \in Orders, p \in Pages :
          Alloc(<<type, k, p>>)
    \/ \E b \in owned : Free(b)

Spec == Init /\ [][Next]_<<avail, owned>>
=============================================================================
