-------------------------------- MODULE Slab --------------------------------
(***************************************************************************)
(* The slab allocator behind malloc and free (cp/mm/slab.c), for one size  *)
(* of objects: pages that hold a header, a bitmap and an array of objects. *)
(*                                                                         *)
(* alloc_slab_obj and free_slab_obj hold the slab's lock with interrupts   *)
(* disabled and are one action each.  The pages come from the page         *)
(* allocator (module Buddy), from which only the zones matter here.        *)
(*                                                                         *)
(* Where the layout puts a part of the bitmap inside an object, writing to *)
(* the object changes the bitmap: Write is a caller filling its object.    *)
(***************************************************************************)
EXTENDS Integers, Sequences, FiniteSets

CONSTANTS
    Pages,          \* page frames
    LowPages,       \* those below 2GB
    objsize, align, \* the arguments of create_slab
    PAGE_SIZE,
    HeaderSize      \* sizeof(struct slab)

ASSUME PageAssumption == LowPages \subseteq Pages

-----------------------------------------------------------------------------
(* The layout of a page (create_slab).                                     *)

RoundUp(n, to) == IF n % to = 0 THEN n ELSE n + to - (n % to)

ObjSize(size, al) == RoundUp(size, al)
Count0(size, al) == (8 * (PAGE_SIZE - HeaderSize)) \div (8 * ObjSize(size, al) + 1)

Start0(size, al) == HeaderSize + (Count0(size, al) + 4) \div 8
StartOff(size, al) == RoundUp(Start0(size, al), al)

\* One object less if the alignment pushes the last one out of the page.
CountOf(size, al) ==
    IF /\ Start0(size, al) % al # 0
       /\ StartOff(size, al) + Count0(size, al) * ObjSize(size, al) > PAGE_SIZE
    THEN Count0(size, al) - 1
    ELSE Count0(size, al)

\* The byte that bit i of the bitmap is in, and the object a byte is in.
BitByte(i) == HeaderSize + i \div 8
ObjectAt(byte, size, al) ==
    IF byte < StartOff(size, al) THEN -1
    ELSE (byte - StartOff(size, al)) \div ObjSize(size, al)

-----------------------------------------------------------------------------
VARIABLES
    slab,       \* the pages of the slab, the first one first
    bitmap,     \* the bits that are set in a page's bitmap
    used,       \* slab->used
    owners      \* how many callers were given an object and have not freed it

slabVars == <<slab, bitmap, used, owners>>

Count == CountOf(objsize, align)
Objects == 0..(Count - 1)

\* The bits of the bitmap that are inside object i.
BitsInside ==
    [i \in Objects |-> {b \in Objects : ObjectAt(BitByte(b), objsize, align) = i}]

\* create_slab, with a page from alloc_pages(0, ZONE_NORMAL).
SlabPages(type, taken) ==
    LET normal == (Pages \ LowPages) \ taken
        low == LowPages \ taken
    IN  IF type = "ZONE_NORMAL" /\ normal # {} THEN normal ELSE low

SlabInit ==
    /\ \E p \in SlabPages("ZONE_NORMAL", {}) : slab = <<p>>
    /\ bitmap = [p \in Pages |-> {}]
    /\ used = [p \in Pages |-> 0]
    /\ owners = [o \in Pages \X Objects |-> 0]

ZoneType(p) == IF p \in LowPages THEN "ZONE_LOW" ELSE "ZONE_NORMAL"

\* Does page i of the slab have an unused object in the right zone?
FreePage(i, type) == used[slab[i]] < Count /\ ZoneType(slab[i]) = type

\* Is i the first object of page p whose bit is clear?
FirstClear(p, i) == i \notin bitmap[p] /\ \A j \in Objects : j < i => j \in bitmap[p]

\* Mutant of TakeObject: the bit is not set.
TakeObjectUnmarked(p) ==
    \E i \in Objects :
        /\ FirstClear(p, i)
        /\ used' = [used EXCEPT ![p] = @ + 1]
        /\ owners' = [owners EXCEPT ![<<p, i>>] = @ + 1]
        /\ UNCHANGED bitmap

\* Hand out the first object of page p whose bit is clear.  Without one, the
\* caller gets NULL and nothing changes.
TakeObject(p) ==
    \E i \in Objects :
        /\ FirstClear(p, i)
        /\ used' = [used EXCEPT ![p] = @ + 1]
        /\ bitmap' = [bitmap EXCEPT ![p] = @ \cup {i}]
        /\ owners' = [owners EXCEPT ![<<p, i>>] = @ + 1]

\* alloc_slab_obj: from the first page that has an object, else from a page of
\* its own.  Without one, the caller gets NULL and nothing changes.
Malloc(type) ==
    \/ \E i \in 1..Len(slab) :
          /\ FreePage(i, type)
          /\ \A j \in 1..(i - 1) : ~FreePage(j, type)
          /\ TakeObject(slab[i])
          /\ UNCHANGED slab
    \/ /\ \A j \in 1..Len(slab) : ~FreePage(j, type)
       /\ \E p \in SlabPages(type, {slab[i] : i \in 1..Len(slab)}) :
             /\ slab' = Append(slab, p)
             /\ TakeObject(p)

\* free_slab_obj, by a caller that has the object.
Free(p, i) ==
    /\ owners[<<p, i>>] > 0
    /\ owners' = [owners EXCEPT ![<<p, i>>] = @ - 1]
    /\ bitmap' = [bitmap EXCEPT ![p] = @ \ {i}]
    /\ used' = [used EXCEPT ![p] = @ - 1]
    /\ UNCHANGED slab

\* A caller writes anything into its object.
Write(p, i) ==
    /\ owners[<<p, i>>] > 0
    /\ \E bits \in SUBSET BitsInside[i] :
          bitmap' = [bitmap EXCEPT ![p] = (@ \ BitsInside[i]) \cup bits]
    /\ UNCHANGED <<slab, used, owners>>

SlabNext ==
    \/ \E type \in {"ZONE_LOW", "ZONE_NORMAL"} : Malloc(type)
    \/ \E p \in Pages, i \in Objects : Free(p, i) \/ Write(p, i)

SlabSpec == SlabInit /\ [][SlabNext]_slabVars

-----------------------------------------------------------------------------
SlabTypeOK ==
    /\ slab \in Seq(Pages)
    /\ bitmap \in [Pages -> SUBSET Objects]
    /\ used \in [Pages -> Nat]
    /\ owners \in [Pages \X Objects -> Nat]

\* malloc never hands out an object that somebody has, through any sequence of
\* mallocs, frees and writes to the objects.
NoDoubleUse == \A o \in Pages \X Objects : owners[o] <= 1

\* The bitmap and the counter say what is in use: the search for a page, which
\* looks at the counter, and the search in the page, which looks at the bitmap,
\* agree.
BookkeepingExact ==
    \A p \in Pages :
        /\ bitmap[p] = {i \in Objects : owners[<<p, i>>] > 0}
        /\ used[p] = Cardinality(bitmap[p])

\* The objects are in the page, behind the header and behind the whole bitmap.
SoundLayout(size, al) ==
    LET n == CountOf(size, al)
    IN  /\ HeaderSize + (n + 7) \div 8 <= StartOff(size, al)
        /\ StartOff(size, al) + n * ObjSize(size, al) <= PAGE_SIZE

\* The slabs that init_slab creates, generic[0] to generic[6]: the size of the
\* objects and their alignment.
Generic == {<<16, 4>>, <<32, 4>>, <<64, 4>>, <<128, 4>>, <<256, 8>>, <<512, 8>>,
            <<1024, 8>>}

\* "offset of the first object" (slab.c:97): of the slabs that init_slab creates,
\* the one of the largest objects is the only one whose layout is not sound.
UnsoundLayouts == {c \in Generic : ~SoundLayout(c[1], c[2])} = {<<1024, 8>>}
=============================================================================
