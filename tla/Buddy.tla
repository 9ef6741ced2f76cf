------------------------------- MODULE Buddy -------------------------------
(***************************************************************************)
(* The page allocator of CP (cp/mm/buddy.c).  Page frames are numbers.     *)
(* The free lists orders_low[order] and orders_normal[order] are one set   *)
(* of blocks <<zone, order, first page>>; which of the blocks of a list is *)
(* taken first is left open.                                               *)
(*                                                                         *)
(* alloc_pages and free_pages hold orders_lock with interrupts disabled,   *)
(* so that at most one call is under way.  The loops of the code are one   *)
(* step per iteration.                                                     *)
(***************************************************************************)
EXTENDS Integers

CONSTANTS
    Start,          \* the first page frame CP itself does not use
    MemPages,       \* memsize >> PAGE_SHIFT
    LowEnd,         \* 2GB >> PAGE_SHIFT
    LowMaxOrder,    \* ZONE_LOW_MAX_ORDER, the length of orders_low
    NormalMaxOrder, \* ZONE_NORMAL_MAX_ORDER, the length of orders_normal
    Orders          \* the orders callers ask for

Size(order) == 2^order      \* 1 << order

ASSUME OrderAssumption ==
    /\ LowMaxOrder \in Nat /\ NormalMaxOrder \in Nat /\ LowMaxOrder <= NormalMaxOrder
    /\ Orders \subseteq 0..(LowMaxOrder - 1)
\* The nucleus lies below 2GB and occupies at least one page; orders_low is as
\* long as 2GB have bits; there is less storage than orders_normal can hold.
ASSUME StorageAssumption ==
    /\ Start \in Nat \ {0} /\ MemPages \in Nat /\ LowEnd \in Nat
    /\ Start <= MemPages /\ Start <= LowEnd
    /\ LowEnd = Size(LowMaxOrder)
    /\ MemPages - LowEnd < Size(NormalMaxOrder)
ASSUME SizeAssumption ==
    /\ Size(0) = 1
    /\ \A k \in 0..NormalMaxOrder : Size(k) \in Nat \ {0}
    /\ \A k \in 0..(NormalMaxOrder - 1) : Size(k + 1) = 2 * Size(k)

VARIABLES
    pc,         \* init, idle, search, chip, or fault
    free,       \* the free lists: blocks <<zone, order, first page>>
    allocated,  \* the blocks callers have: <<request type, order, first page>>
    zone,       \* init: the zone being set up; else the `type' of the request
    order,      \* init: the loop variable; else the order asked for
    rest,       \* init: pages >> order
    gord,       \* search: the order looked at; chip: `actual'
    base        \* init, chip: `base'

vars == <<pc, free, allocated, zone, order, rest, gord, base>>

\* The locals of a call are gone when it has returned.
Returned ==
    pc' = "idle" /\ zone' = "ZONE_LOW" /\ order' = 0 /\ rest' = 0 /\ gord' = 0 /\ base' = 0

Zones == {"ZONE_LOW", "ZONE_NORMAL"}

MaxOrder(z) == IF z = "ZONE_LOW" THEN LowMaxOrder ELSE NormalMaxOrder

\* ZONE_TYPE(page)
ZoneOf(page) == IF page < LowEnd THEN "ZONE_LOW" ELSE "ZONE_NORMAL"

\* The end of the low zone, and the number of pages above it.
LowTop == IF MemPages > LowEnd THEN LowEnd ELSE MemPages
NormalPages == IF MemPages > LowEnd THEN MemPages - LowEnd ELSE 0

-----------------------------------------------------------------------------
(* init_buddy_alloc.                                                       *)

Init ==
    /\ pc = "init"
    /\ free = {} /\ allocated = {}
    /\ zone = "ZONE_LOW" /\ order = 0 /\ rest = LowTop - Start /\ base = Start
    /\ gord = 0

\* An iteration of __init_buddy_alloc: if bit `order' of the number of pages is
\* set, the next 2^order pages become a block.
InitOrder ==
    /\ pc = "init" /\ order < MaxOrder(zone)
    /\ IF rest % 2 = 1
       THEN free' = free \cup {<<zone, order, base>>} /\ base' = base + Size(order)
       ELSE UNCHANGED <<free, base>>
    /\ rest' = rest \div 2
    /\ order' = order + 1
    /\ UNCHANGED <<pc, allocated, zone, gord>>

\* The low zone is done.
InitNormal ==
    /\ pc = "init" /\ zone = "ZONE_LOW" /\ order = LowMaxOrder
    /\ zone' = "ZONE_NORMAL" /\ order' = 0 /\ rest' = NormalPages /\ base' = LowEnd
    /\ UNCHANGED <<pc, free, allocated, gord>>

InitDone ==
    /\ pc = "init" /\ zone = "ZONE_NORMAL" /\ order = NormalMaxOrder
    /\ Returned
    /\ UNCHANGED <<free, allocated>>

-----------------------------------------------------------------------------
(* alloc_pages.                                                            *)

AllocPages(k, type) ==
    /\ pc = "idle"
    /\ pc' = "search" /\ order' = k /\ zone' = type /\ gord' = k
    /\ UNCHANGED <<free, allocated, rest, base>>

List(z, k) == {b \in free : b[1] = z /\ b[2] = k}

\* __alloc_pages(gord, type) finds block b: a normal page if it may and can,
\* else a low one.
Found(b) ==
    \/ zone = "ZONE_NORMAL" /\ b \in List("ZONE_NORMAL", gord)
    \/ /\ zone = "ZONE_LOW" \/ List("ZONE_NORMAL", gord) = {}
       /\ b \in List("ZONE_LOW", gord)

\* Mutant of Take: no list_del.
TakeNotRemoved(b) ==
    /\ pc = "search"
    /\ Found(b)
    /\ base' = b[3]
    /\ pc' = "chip"
    /\ UNCHANGED <<free, allocated, zone, order, rest, gord>>

Take(b) ==
    /\ pc = "search"
    /\ Found(b)
    /\ free' = free \ {b}
    /\ base' = b[3]
    /\ pc' = "chip"
    /\ UNCHANGED <<allocated, zone, order, rest, gord>>

\* A normal request looks in orders_low at every order up to the length of
\* orders_normal: beyond the end of orders_low.
OutOfBounds == gord >= LowMaxOrder

\* Mutant of Miss: the search ends one order early.
MissEarly ==
    /\ pc = "search"
    /\ \A b \in free : ~Found(b)
    /\ IF gord + 2 < MaxOrder(zone)
       THEN gord' = gord + 1 /\ UNCHANGED <<pc, zone, order, rest, base>>
       ELSE Returned
    /\ UNCHANGED <<free, allocated>>

\* Nothing of this order.  What lies behind the array may look like an empty
\* list too.
Miss ==
    /\ pc = "search"
    /\ \A b \in free : ~Found(b)
    /\ IF gord + 1 < MaxOrder(zone)
       THEN gord' = gord + 1 /\ UNCHANGED <<pc, zone, order, rest, base>>
       ELSE Returned        \* totally out of memory
    /\ UNCHANGED <<free, allocated>>

\* What lies behind the array is no list head.
Fault ==
    /\ pc = "search" /\ OutOfBounds
    /\ \A b \in free : ~Found(b)
    /\ pc' = "fault"
    /\ UNCHANGED <<free, allocated, zone, order, rest, gord, base>>

\* Mutant of Chip: the lower half goes back, and is kept as well.
ChipLower ==
    /\ pc = "chip" /\ gord > order
    /\ free' = free \cup {<<ZoneOf(base), gord - 1, base>>}
    /\ gord' = gord - 1
    /\ UNCHANGED <<pc, allocated, zone, order, rest, base>>

\* An iteration of __chip_pages: the upper half goes back.
Chip ==
    /\ pc = "chip" /\ gord > order
    /\ free' = free \cup {<<ZoneOf(base), gord - 1, base + Size(gord - 1)>>}
    /\ gord' = gord - 1
    /\ UNCHANGED <<pc, allocated, zone, order, rest, base>>

\* Mutant of AllocReturn: splitting stops one order early.
AllocReturnEarly ==
    /\ pc = "chip" /\ gord <= order + 1
    /\ allocated' = allocated \cup {<<zone, order, base>>}
    /\ Returned
    /\ UNCHANGED free

AllocReturn ==
    /\ pc = "chip" /\ gord <= order
    /\ allocated' = allocated \cup {<<zone, order, base>>}
    /\ Returned
    /\ UNCHANGED free

\* free_pages, by the owner of block b.
FreePages(b) ==
    /\ pc = "idle"
    /\ b \in allocated
    /\ allocated' = allocated \ {b}
    /\ free' = free \cup {<<ZoneOf(b[3]), b[2], b[3]>>}
    /\ UNCHANGED <<pc, zone, order, rest, gord, base>>

-----------------------------------------------------------------------------
Next ==
    \/ InitOrder \/ InitNormal \/ InitDone
    \/ \E k \in Orders, type \in Zones : AllocPages(k, type)
    \/ \E b \in free : Take(b)
    \/ Miss \/ Fault \/ Chip \/ AllocReturn
    \/ \E b \in allocated : FreePages(b)

Spec == Init /\ [][Next]_vars

-----------------------------------------------------------------------------
(* Properties.                                                             *)

Blocks == Zones \X (0..NormalMaxOrder) \X Nat

TypeOK ==
    /\ pc \in {"init", "idle", "search", "chip", "fault"}
    /\ free \subseteq Blocks
    /\ allocated \subseteq Zones \X Orders \X Nat
    /\ zone \in Zones
    /\ order \in 0..NormalMaxOrder
    /\ gord \in 0..NormalMaxOrder
    /\ rest \in Nat
    /\ base \in Nat

\* 2^k pages from p on, and 2^l pages from q on.
Apart(p, k, q, l) == p + Size(k) <= q \/ q + Size(l) <= p

AllApart(S, T) == \A b \in S, c \in T : b # c => Apart(b[3], b[2], c[3], c[2])

\* The block alloc_pages has taken off its list and not yet returned.
InHand == IF pc = "chip" THEN {<<"hand", gord, base>>} ELSE {}

\* No page is in two blocks: two free blocks, two allocations, a free block and
\* an allocation never overlap, also while a block is being split.
NoOverlap ==
    /\ AllApart(free, free)
    /\ AllApart(allocated, allocated)
    /\ AllApart(InHand, free)
    /\ AllApart(InHand, allocated)
    /\ \A b \in free, c \in allocated : Apart(b[3], b[2], c[3], c[2])

Covers(b, x) == b[3] <= x /\ x < b[3] + Size(b[2])

\* Pages that init_buddy_alloc has not come to yet.
Pending(x) ==
    /\ pc = "init"
    /\ \/ base <= x /\ x < (IF zone = "ZONE_LOW" THEN LowTop ELSE MemPages)
       \/ zone = "ZONE_LOW" /\ LowEnd <= x

\* No page is lost: every page that CP does not use itself is free, allocated,
\* in hand, or still to be handed to the free lists.
NoLeak ==
    \A x \in Start..(MemPages - 1) :
        Pending(x) \/ \E b \in free \cup allocated \cup InHand : Covers(b, x)

\* The lists keep the 2GB line: a block on orders_low lies below it, so that a
\* ZONE_LOW request gets storage a channel program can address (ADDR31), and
\* every block lies in the storage CP manages.
ZonesKept ==
    /\ \A b \in free \cup allocated \cup InHand :
          Start <= b[3] /\ b[3] + Size(b[2]) <= MemPages
    /\ \A b \in free :
          IF b[1] = "ZONE_LOW" THEN b[2] < LowMaxOrder /\ b[3] + Size(b[2]) <= LowEnd
          ELSE b[2] < NormalMaxOrder /\ LowEnd <= b[3]
    /\ \A b \in allocated \cup InHand : b[3] + Size(b[2]) <= LowEnd \/ LowEnd <= b[3]
    /\ \A b \in allocated : b[1] = "ZONE_LOW" => b[3] + Size(b[2]) <= LowEnd

\* "alright, totally out of memory": alloc_pages returns NULL only if no block
\* of the zones it may use is large enough.
FailsOnlyWhenFull ==
    [][pc = "search" /\ pc' = "idle" =>
           \A b \in free : (zone = "ZONE_LOW" => b[1] = "ZONE_LOW") => b[2] < order]_vars

\* alloc_pages splits the smallest block that will do.
SmallestBlockSplit ==
    [][pc = "search" /\ pc' = "chip" =>
           \A b \in free : (zone = "ZONE_LOW" => b[1] = "ZONE_LOW")
                               => b[2] < order \/ gord <= b[2]]_vars

\* Every block is on a list of its zone's array, __chip_pages puts blocks on such
\* lists only, and a search never goes beyond the length of the zone's own array.  It
\* looks behind the end of orders_low only for a request above 2GB that no block
\* below 2GB satisfies and no smaller block above 2GB.
OrdersInBounds ==
    /\ \A b \in free : b[2] < MaxOrder(b[1])
    /\ pc = "chip" => gord < MaxOrder(ZoneOf(base))
    /\ pc = "search" =>
          /\ gord < MaxOrder(zone)
          /\ OutOfBounds =>
                /\ zone = "ZONE_NORMAL"
                /\ \A b \in free : b[2] < order \/ (b[1] = "ZONE_NORMAL" /\ gord <= b[2])

\* Pages that are not allocated are available: on a list, in hand or pending.
Abstract == INSTANCE PageAlloc WITH
    Pages <- Start..(MemPages - 1),
    avail <- {x \in Start..(MemPages - 1) : \A b \in allocated : ~Covers(b, x)},
    owned <- allocated

\* The allocator implements the promise its callers rely on.
ImplementsPageAlloc == Abstract!Spec

-----------------------------------------------------------------------------
(* The inductive invariant behind the safety properties.                   *)

\* The end of the pages the current __init_buddy_alloc hands out.
InitEnd == IF zone = "ZONE_LOW" THEN LowTop ELSE LowEnd + NormalPages

\* The blocks made so far lie below base, and rest blocks of the current order
\* are what remains.
InitInv ==
    pc = "init" =>
        /\ allocated = {}
        /\ order <= MaxOrder(zone)
        /\ IF zone = "ZONE_LOW" THEN Start <= base ELSE LowEnd <= base
        /\ base + rest * Size(order) = InitEnd
        /\ \A b \in free : b[3] + Size(b[2]) <= base
        /\ zone = "ZONE_LOW" => \A b \in free : b[1] = "ZONE_LOW"

\* The orders a search has passed are empty.
SearchInv ==
    pc = "search" =>
        /\ order \in Orders /\ order <= gord
        /\ gord < MaxOrder(zone)
        /\ \A b \in free : (zone = "ZONE_LOW" => b[1] = "ZONE_LOW")
                               => b[2] < order \/ gord <= b[2]

\* The block in hand is large enough, and in the zone asked for.
ChipInv ==
    pc = "chip" =>
        /\ order \in Orders /\ order <= gord
        /\ gord < MaxOrder(ZoneOf(base))
        /\ zone = "ZONE_LOW" => base + Size(gord) <= LowEnd

\* The inductive invariant of Spec.
IndInv == TypeOK /\ NoOverlap /\ NoLeak /\ ZonesKept /\ InitInv /\ SearchInv /\ ChipInv

=============================================================================
