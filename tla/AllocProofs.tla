---------------------------- MODULE AllocProofs ----------------------------
(***************************************************************************)
(* Proofs about the two allocators.  Buddy: for every layout of storage,   *)
(* the blocks of the page allocator are apart and none is lost, and it     *)
(* implements PageAlloc.  Slab: where the layout is sound, the bitmap and  *)
(* the counters of a slab are exact, and no object is handed out twice,    *)
(* for every number of pages and every size of objects.                    *)
(***************************************************************************)
EXTENDS Buddy, Slab, FiniteSetTheorems, TLAPS

\* A power of two is all the proofs know of Size.
USE DEF Zones, Blocks

LEMMA SizeFacts ==
    /\ Size(0) = 1
    /\ \A k \in 0..NormalMaxOrder : Size(k) \in Nat /\ Size(k) >= 1
    /\ \A k \in 1..NormalMaxOrder : Size(k) = 2 * Size(k - 1)
<1>1. \A k \in 1..NormalMaxOrder : k - 1 \in 0..(NormalMaxOrder - 1) /\ (k - 1) + 1 = k
  BY OrderAssumption
<1>2. \A k \in 0..NormalMaxOrder : Size(k) \in Nat \ {0}
  BY SizeAssumption
<1>3. \A k \in 0..(NormalMaxOrder - 1) : Size(k + 1) = 2 * Size(k)
  BY SizeAssumption
<1>4. \A k \in 1..NormalMaxOrder : Size(k) = 2 * Size(k - 1)
  <2> SUFFICES ASSUME NEW k \in 1..NormalMaxOrder PROVE Size(k) = 2 * Size(k - 1)
    OBVIOUS
  <2>1. Size((k - 1) + 1) = 2 * Size(k - 1)
    BY <1>1, <1>3
  <2>2. (k - 1) + 1 = k
    BY <1>1
  <2> QED BY <2>1, <2>2
<1> QED BY <1>2, <1>4, SizeAssumption

LEMMA OrderFacts ==
    \A k \in Orders : k \in 0..NormalMaxOrder /\ k < LowMaxOrder /\ k < NormalMaxOrder
BY OrderAssumption

\* The constants, as the proofs use them.
LEMMA StorageFacts ==
    /\ Start \in Nat /\ MemPages \in Nat /\ LowEnd \in Nat
    /\ 1 <= Start /\ Start <= LowTop
    /\ LowTop \in Nat /\ LowTop <= LowEnd /\ LowTop <= MemPages
    /\ NormalPages \in Nat
    /\ MemPages > LowEnd => LowTop = LowEnd /\ LowEnd + NormalPages = MemPages
    /\ MemPages <= LowEnd => LowTop = MemPages /\ NormalPages = 0
    /\ LowMaxOrder \in Nat /\ NormalMaxOrder \in Nat /\ LowMaxOrder <= NormalMaxOrder
    /\ LowEnd = Size(LowMaxOrder) /\ NormalPages < Size(NormalMaxOrder)
<1>1. Size(NormalMaxOrder) \in Nat \ {0}
  BY OrderAssumption, SizeAssumption
<1> QED BY <1>1, OrderAssumption, StorageAssumption DEF LowTop, NormalPages

\* Taking the low bit off a number of pages.
LEMMA Halve ==
    ASSUME NEW q \in Nat, NEW s \in Nat
    PROVE  /\ q \div 2 \in Nat
           /\ q % 2 = 1 => q * s = s + (q \div 2) * (2 * s) /\ s <= q * s
           /\ q % 2 # 1 => q * s = (q \div 2) * (2 * s)
<1>1. q \div 2 \in Nat /\ q % 2 \in 0..1 /\ q = 2 * (q \div 2) + (q % 2)
  OBVIOUS
<1>2. PICK h \in Nat, r \in 0..1 : h = q \div 2 /\ r = q % 2 /\ q = 2 * h + r
  BY <1>1
<1>3. q * s = h * (2 * s) + r * s /\ h * (2 * s) \in Nat
  BY <1>2
<1>4. r = 1 => r * s = s
  BY <1>2
<1>5. r # 1 => r * s = 0
  BY <1>2
<1>6. r * s \in Nat
  BY <1>2
<1> QED BY <1>2, <1>3, <1>4, <1>5, <1>6

\* Less than one block remains: nothing remains.
LEMMA NoRest ==
    ASSUME NEW q \in Nat, NEW s \in Nat, q * s < s
    PROVE  q * s = 0
<1>1. CASE q = 0
  BY <1>1
<1>2. CASE q >= 1
  <2>1. (q - 1) \in Nat /\ (q - 1) * s \in Nat
    BY <1>2
  <2>2. q * s = (q - 1) * s + s
    BY <1>2
  <2>3. q * s \in Nat
    OBVIOUS
  <2> QED BY <2>1, <2>2, <2>3
<1> QED BY <1>1, <1>2

\* A block on a list, or with a caller: its components, and that it lies in the
\* storage.
LEMMA BlockFacts ==
    ASSUME IndInv, NEW b \in free \cup allocated
    PROVE  /\ b[1] \in Zones /\ b[2] \in 0..NormalMaxOrder /\ b[3] \in Nat
           /\ b = <<b[1], b[2], b[3]>>
           /\ Size(b[2]) \in Nat /\ Size(b[2]) >= 1
           /\ Start <= b[3] /\ b[3] + Size(b[2]) <= MemPages
<1>1. b[1] \in Zones /\ b[2] \in 0..NormalMaxOrder /\ b[3] \in Nat /\ b = <<b[1], b[2], b[3]>>
  <2>1. CASE b \in free
    BY <2>1 DEF IndInv, TypeOK
  <2>2. CASE b \in allocated
    <3>1. b \in Zones \X Orders \X Nat
      BY <2>2 DEF IndInv, TypeOK
    <3>2. b[1] \in Zones /\ b[2] \in Orders /\ b[3] \in Nat /\ b = <<b[1], b[2], b[3]>>
      BY <3>1
    <3> QED BY <3>2, OrderAssumption
  <2> QED BY <2>1, <2>2
<1> QED BY <1>1, SizeFacts DEF IndInv, ZonesKept

-----------------------------------------------------------------------------
(* init_buddy_alloc.                                                       *)

LEMMA InitOrderKeeps ==
    ASSUME IndInv, InitOrder
    PROVE  IndInv'
<1> SUFFICES ASSUME NEW n, NEW s, n = order, s = Size(order)
             PROVE  IndInv'
  OBVIOUS
<1>1. /\ pc = "init" /\ pc' = "init" /\ n \in Nat /\ n < MaxOrder(zone)
      /\ order' = n + 1 /\ rest' = rest \div 2
      /\ allocated = {} /\ allocated' = {} /\ zone' = zone /\ gord' = gord
      /\ rest \in Nat /\ base \in Nat /\ zone \in Zones /\ gord \in 0..NormalMaxOrder
      /\ free \subseteq Blocks
  BY OrderAssumption DEF InitOrder, IndInv, InitInv, TypeOK
<1>2. /\ n \in 0..NormalMaxOrder /\ n + 1 \in 0..NormalMaxOrder /\ n + 1 <= MaxOrder(zone)
      /\ s \in Nat /\ s >= 1 /\ Size(n + 1) = 2 * s
  BY <1>1, StorageFacts, SizeFacts DEF MaxOrder
<1>3. /\ base + rest * s = InitEnd /\ rest * s \in Nat
      /\ IF zone = "ZONE_LOW" THEN Start <= base ELSE LowEnd <= base
      /\ \A b \in free : b[3] + Size(b[2]) <= base
      /\ zone = "ZONE_LOW" => \A b \in free : b[1] = "ZONE_LOW"
  BY <1>1, <1>2 DEF IndInv, InitInv
<1>4. InitEnd' = InitEnd /\ InitEnd \in Nat
      /\ (zone = "ZONE_LOW" => InitEnd <= LowEnd /\ InitEnd <= MemPages)
      /\ (rest * s > 0 => InitEnd <= MemPages)
  BY <1>1, <1>3, StorageFacts DEF InitEnd
<1>5. \A b \in free : Size(b[2]) \in Nat /\ Size(b[2]) >= 1
  BY <1>1, SizeFacts
<1>6. CASE rest % 2 = 1
  <2>1. free' = free \cup {<<zone, n, base>>} /\ base' = base + s
    BY <1>6 DEF InitOrder
  <2>2. /\ rest' \in Nat /\ rest * s = s + rest' * (2 * s) /\ s <= rest * s
        /\ rest' * (2 * s) \in Nat
    BY <1>1, <1>2, <1>6, Halve
  <2>3. base + s <= InitEnd /\ base + s <= MemPages
    <3> SUFFICES ASSUME NEW left \in Nat, left = rest * s
                 PROVE  base + s <= InitEnd /\ base + s <= MemPages
      BY <1>3
    <3>1. s <= left /\ base + left = InitEnd /\ InitEnd <= MemPages
      BY <1>2, <1>3, <1>4, <2>2
    <3> QED BY <1>1, <1>2, <1>4, <3>1, StorageFacts
  <2>4. TypeOK'
    BY <1>1, <1>2, <2>1, <2>2 DEF TypeOK
  <2>5. NoOverlap'
    <3>1. \A b \in free : Apart(b[3], b[2], base, n) /\ Apart(base, n, b[3], b[2])
      BY <1>1, <1>2, <1>3, <1>5 DEF Apart
    <3>2. AllApart(free', free')
      BY <2>1, <3>1 DEF AllApart, IndInv, NoOverlap
    <3> QED BY <1>1, <3>2 DEF NoOverlap, AllApart, InHand
  <2>6. NoLeak'
    <3> SUFFICES ASSUME NEW x \in Start..(MemPages - 1)
                 PROVE  Pending(x)' \/ \E b \in free' : Covers(b, x)
      BY <1>1 DEF NoLeak
    <3>1. Pending(x) \/ \E b \in free : Covers(b, x)
      BY <1>1 DEF IndInv, NoLeak, InHand
    <3>2. CASE base <= x /\ x < base + s
      <4>1. <<zone, n, base>> \in free' /\ Covers(<<zone, n, base>>, x)
        BY <2>1, <3>2 DEF Covers
      <4> QED BY <4>1
    <3>3. CASE \E b \in free : Covers(b, x)
      BY <2>1, <3>3
    <3>4. CASE Pending(x) /\ ~(base <= x /\ x < base + s)
      BY <1>1, <1>2, <2>1, <3>4, StorageFacts DEF Pending
    <3> QED BY <3>1, <3>2, <3>3, <3>4
  <2>7. ZonesKept'
    <3>1. /\ Start <= base /\ (zone = "ZONE_LOW" => base + s <= LowEnd)
          /\ (zone # "ZONE_LOW" => LowEnd <= base)
      BY <1>1, <1>3, <1>4, <2>3, StorageFacts
    <3> QED BY <1>1, <1>2, <2>1, <2>3, <3>1 DEF IndInv, ZonesKept, InHand, MaxOrder
  <2>8. InitInv'
    <3>1. base' + rest' * Size(order') = InitEnd'
      BY <1>1, <1>2, <1>3, <1>4, <2>1, <2>2
    <3>2. \A b \in free' : b[3] + Size(b[2]) <= base'
      BY <1>1, <1>2, <1>3, <1>5, <2>1
    <3> QED BY <1>1, <1>2, <1>3, <2>1, <3>1, <3>2, StorageFacts DEF InitInv, MaxOrder
  <2> QED BY <1>1, <2>4, <2>5, <2>6, <2>7, <2>8 DEF IndInv, SearchInv, ChipInv
<1>7. CASE rest % 2 # 1
  <2>1. free' = free /\ base' = base
    BY <1>7 DEF InitOrder
  <2>2. rest' \in Nat /\ rest * s = rest' * (2 * s)
    BY <1>1, <1>2, <1>7, Halve
  <2>3. TypeOK'
    BY <1>1, <1>2, <2>1, <2>2 DEF TypeOK
  <2>4. NoOverlap' /\ ZonesKept'
    BY <1>1, <2>1 DEF IndInv, NoOverlap, ZonesKept, AllApart, InHand
  <2>5. NoLeak'
    BY <1>1, <2>1 DEF IndInv, NoLeak, Pending, InHand, Covers
  <2>6. InitInv'
    BY <1>1, <1>2, <1>3, <1>4, <2>1, <2>2 DEF InitInv, MaxOrder
  <2> QED BY <1>1, <2>3, <2>4, <2>5, <2>6 DEF IndInv, SearchInv, ChipInv
<1> QED BY <1>6, <1>7

LEMMA InitNormalKeeps ==
    ASSUME IndInv, InitNormal
    PROVE  IndInv'
<1>1. /\ pc = "init" /\ pc' = "init" /\ zone = "ZONE_LOW" /\ zone' = "ZONE_NORMAL"
      /\ order = LowMaxOrder /\ order' = 0
      /\ rest' = NormalPages /\ base' = LowEnd
      /\ free' = free /\ allocated = {} /\ allocated' = {} /\ gord' = gord
      /\ rest \in Nat /\ base \in Nat /\ gord \in 0..NormalMaxOrder /\ free \subseteq Blocks
      /\ Start <= base /\ base + rest * LowEnd = LowTop
      /\ \A b \in free : b[3] + Size(b[2]) <= base
  BY StorageFacts DEF InitNormal, IndInv, InitInv, InitEnd, TypeOK
<1>2. base = LowTop
  <2>1. rest * LowEnd < LowEnd
    BY <1>1, StorageFacts
  <2>2. rest * LowEnd = 0
    BY <1>1, <2>1, StorageFacts, NoRest
  <2> QED BY <1>1, <2>2, StorageFacts
<1>3. TypeOK'
  BY <1>1, StorageFacts DEF TypeOK
<1>4. NoOverlap' /\ ZonesKept'
  BY <1>1 DEF IndInv, NoOverlap, ZonesKept, AllApart, InHand
<1>5. NoLeak'
  BY <1>1, <1>2, StorageFacts DEF IndInv, NoLeak, Pending, InHand, Covers
<1>6. InitInv'
  <2>1. \A b \in free : b[3] + Size(b[2]) <= LowEnd
    BY <1>1, <1>2, SizeFacts, StorageFacts
  <2>2. NormalPages * Size(0) = NormalPages
    BY SizeFacts, StorageFacts
  <2> QED BY <1>1, <2>1, <2>2, StorageFacts DEF InitInv, InitEnd, MaxOrder
<1> QED BY <1>1, <1>3, <1>4, <1>5, <1>6 DEF IndInv, SearchInv, ChipInv

LEMMA InitDoneKeeps ==
    ASSUME IndInv, InitDone
    PROVE  IndInv'
<1>1. /\ pc = "init" /\ pc' = "idle" /\ zone = "ZONE_NORMAL" /\ order = NormalMaxOrder
      /\ zone' = "ZONE_LOW" /\ order' = 0 /\ rest' = 0 /\ gord' = 0 /\ base' = 0
      /\ free' = free /\ allocated = {} /\ allocated' = {}
      /\ rest \in Nat /\ base \in Nat /\ free \subseteq Blocks
      /\ LowEnd <= base /\ base + rest * Size(NormalMaxOrder) = LowEnd + NormalPages
  BY DEF InitDone, Returned, IndInv, InitInv, InitEnd, TypeOK
<1>2. base = LowEnd + NormalPages
  <2>1. rest * Size(NormalMaxOrder) < Size(NormalMaxOrder) /\ Size(NormalMaxOrder) \in Nat
    BY <1>1, StorageFacts, SizeFacts
  <2>2. rest * Size(NormalMaxOrder) = 0
    BY <1>1, <2>1, NoRest
  <2> QED BY <1>1, <2>2, StorageFacts
<1>3. TypeOK'
  BY <1>1, StorageFacts DEF TypeOK
<1>4. NoOverlap' /\ ZonesKept'
  BY <1>1 DEF IndInv, NoOverlap, ZonesKept, AllApart, InHand
<1>5. NoLeak'
  BY <1>1, <1>2, StorageFacts DEF IndInv, NoLeak, Pending, InHand, Covers
<1> QED BY <1>1, <1>3, <1>4, <1>5 DEF IndInv, InitInv, SearchInv, ChipInv

-----------------------------------------------------------------------------
(* alloc_pages and free_pages.                                             *)

LEMMA AllocPagesKeeps ==
    ASSUME IndInv, NEW k \in Orders, NEW type \in Zones, AllocPages(k, type)
    PROVE  IndInv'
<1>1. /\ pc = "idle" /\ pc' = "search" /\ order' = k /\ zone' = type /\ gord' = k
      /\ free' = free /\ allocated' = allocated /\ rest' = rest /\ base' = base
      /\ k \in 0..NormalMaxOrder /\ k < LowMaxOrder /\ k < NormalMaxOrder
  BY OrderAssumption DEF AllocPages
<1>2. TypeOK'
  BY <1>1 DEF IndInv, TypeOK
<1>3. NoOverlap' /\ ZonesKept' /\ NoLeak'
  BY <1>1 DEF IndInv, NoOverlap, ZonesKept, NoLeak, AllApart, InHand, Pending
<1>4. SearchInv'
  <2>1. \A b \in free : b[2] \in Nat
    BY DEF IndInv, TypeOK
  <2> QED BY <1>1, <2>1 DEF SearchInv, MaxOrder
<1> QED BY <1>1, <1>2, <1>3, <1>4 DEF IndInv, InitInv, ChipInv

LEMMA TakeKeeps ==
    ASSUME IndInv, NEW b \in free, Take(b)
    PROVE  IndInv'
<1>1. /\ pc = "search" /\ pc' = "chip" /\ free' = free \ {b} /\ base' = b[3]
      /\ allocated' = allocated /\ zone' = zone /\ order' = order /\ rest' = rest
      /\ gord' = gord /\ gord = b[2] /\ (zone = "ZONE_LOW" => b[1] = "ZONE_LOW")
  BY DEF Take, Found, List
<1>2. /\ b[1] \in Zones /\ b[2] \in 0..NormalMaxOrder /\ b[3] \in Nat
      /\ Size(b[2]) \in Nat /\ Size(b[2]) >= 1
      /\ Start <= b[3] /\ b[3] + Size(b[2]) <= MemPages
  BY BlockFacts
<1>3. /\ b[1] = "ZONE_LOW" => b[2] < LowMaxOrder /\ b[3] + Size(b[2]) <= LowEnd
      /\ b[1] # "ZONE_LOW" => b[2] < NormalMaxOrder /\ LowEnd <= b[3]
  BY DEF IndInv, ZonesKept
<1>4. InHand' = {<<"hand", b[2], b[3]>>}
  BY <1>1 DEF InHand
<1>5. TypeOK'
  BY <1>1, <1>2 DEF IndInv, TypeOK
<1>6. NoOverlap'
  <2>1. AllApart(InHand', free')
    BY <1>1, <1>4 DEF IndInv, NoOverlap, AllApart
  <2>2. AllApart(InHand', allocated')
    BY <1>1, <1>4 DEF IndInv, NoOverlap, AllApart
  <2> QED BY <1>1, <2>1, <2>2 DEF IndInv, NoOverlap, AllApart
<1>7. NoLeak'
  <2> SUFFICES ASSUME NEW x \in Start..(MemPages - 1)
               PROVE  \E c \in free' \cup allocated' \cup InHand' : Covers(c, x)
    BY DEF NoLeak
  <2>1. PICK c \in free \cup allocated : Covers(c, x)
    BY <1>1 DEF IndInv, NoLeak, InHand, Pending
  <2>2. CASE c = b
    <3>1. Covers(<<"hand", b[2], b[3]>>, x)
      BY <2>1, <2>2 DEF Covers
    <3> QED BY <1>4, <3>1
  <2>3. CASE c # b
    BY <1>1, <2>1, <2>3
  <2> QED BY <2>2, <2>3
<1>8. ZonesKept'
  BY <1>1, <1>2, <1>3, <1>4 DEF IndInv, ZonesKept, InHand
<1>9. ChipInv'
  BY <1>1, <1>2, <1>3, StorageFacts DEF IndInv, SearchInv, ChipInv, MaxOrder, ZoneOf
<1> QED BY <1>1, <1>5, <1>6, <1>7, <1>8, <1>9 DEF IndInv, InitInv, SearchInv

LEMMA MissKeeps ==
    ASSUME IndInv, Miss
    PROVE  IndInv'
<1>1. /\ pc = "search" /\ free' = free /\ allocated' = allocated
      /\ gord \in Nat /\ MaxOrder(zone) <= NormalMaxOrder
      /\ \A b \in free : ~Found(b)
  BY StorageFacts DEF Miss, IndInv, TypeOK, MaxOrder
<1>2. pc' # "init" /\ pc' # "chip"
  BY <1>1 DEF Miss, Returned
<1>3. NoOverlap' /\ ZonesKept' /\ NoLeak'
  BY <1>1, <1>2 DEF IndInv, NoOverlap, ZonesKept, NoLeak, AllApart, InHand, Pending
<1>4. CASE gord + 1 < MaxOrder(zone)
  <2>1. /\ gord' = gord + 1 /\ pc' = pc /\ zone' = zone /\ order' = order
        /\ rest' = rest /\ base' = base
    BY <1>4 DEF Miss
  <2>2. TypeOK'
    <3>1. gord + 1 \in 0..NormalMaxOrder
      BY <1>1, <1>4, StorageFacts DEF MaxOrder
    <3> QED BY <1>1, <2>1, <3>1 DEF IndInv, TypeOK
  <2>3. SearchInv'
    <3>1. \A b \in free : (zone = "ZONE_LOW" => b[1] = "ZONE_LOW")
                              => b[2] < order \/ gord + 1 <= b[2]
      <4> SUFFICES ASSUME NEW b \in free, zone = "ZONE_LOW" => b[1] = "ZONE_LOW",
                          ~(b[2] < order)
                   PROVE  gord + 1 <= b[2]
        OBVIOUS
      <4>1. b[2] \in Nat /\ gord <= b[2] /\ b[1] \in Zones /\ zone \in Zones
        BY <1>1 DEF IndInv, SearchInv, TypeOK
      <4>2. b[2] # gord
        BY <1>1, <4>1 DEF Found, List
      <4> QED BY <1>1, <4>1, <4>2
    <3>2. order \in Nat /\ order <= gord /\ order \in Orders
      BY <1>1 DEF IndInv, SearchInv, TypeOK
    <3> QED BY <1>1, <1>4, <2>1, <3>1, <3>2 DEF SearchInv, MaxOrder
  <2> QED BY <1>2, <1>3, <2>2, <2>3 DEF IndInv, InitInv, ChipInv
<1>5. CASE ~(gord + 1 < MaxOrder(zone))
  <2>1. Returned
    BY <1>5 DEF Miss
  <2>2. TypeOK'
    BY <1>1, <2>1, StorageFacts DEF IndInv, TypeOK, Returned
  <2> QED BY <1>2, <1>3, <2>1, <2>2 DEF IndInv, InitInv, SearchInv, ChipInv, Returned
<1> QED BY <1>4, <1>5

LEMMA FaultKeeps ==
    ASSUME IndInv, Fault
    PROVE  IndInv'
<1>1. /\ pc = "search" /\ pc' = "fault"
      /\ UNCHANGED <<free, allocated, zone, order, rest, gord, base>>
  BY DEF Fault
<1>2. TypeOK'
  BY <1>1 DEF IndInv, TypeOK
<1>3. NoOverlap' /\ ZonesKept' /\ NoLeak'
  BY <1>1 DEF IndInv, NoOverlap, ZonesKept, NoLeak, AllApart, InHand, Pending
<1> QED BY <1>1, <1>2, <1>3 DEF IndInv, InitInv, SearchInv, ChipInv

\* Splitting: the two halves are apart, and cover what the whole covered.
LEMMA ChipKeeps ==
    ASSUME IndInv, Chip
    PROVE  IndInv'
<1> SUFFICES ASSUME NEW g, NEW s, NEW p, NEW z,
                    g = gord - 1, s = Size(gord - 1), p = base, z = ZoneOf(base)
             PROVE  IndInv'
  OBVIOUS
<1>1. /\ pc = "chip" /\ pc' = "chip" /\ order < gord /\ order <= g
      /\ free' = free \cup {<<z, g, p + s>>}
      /\ gord' = g /\ allocated' = allocated /\ zone' = zone /\ order' = order
      /\ rest' = rest /\ base' = p
      /\ g \in 0..NormalMaxOrder /\ g < gord /\ gord \in Nat /\ p \in Nat /\ z \in Zones
      /\ Size(gord) = s + s /\ s \in Nat /\ s >= 1 /\ s = Size(g)
  BY SizeFacts, StorageFacts DEF Chip, IndInv, TypeOK, ZoneOf
<1>2. /\ InHand = {<<"hand", gord, p>>} /\ InHand' = {<<"hand", g, p>>}
  BY <1>1 DEF InHand
<1>3. /\ gord < MaxOrder(z) /\ (zone = "ZONE_LOW" => p + Size(gord) <= LowEnd)
      /\ Start <= p /\ p + Size(gord) <= MemPages
      /\ p + Size(gord) <= LowEnd \/ LowEnd <= p
  <2>1. <<"hand", gord, p>> \in InHand
    BY <1>2
  <2>2. /\ Start <= p /\ p + Size(gord) <= MemPages
        /\ p + Size(gord) <= LowEnd \/ LowEnd <= p
    BY <2>1 DEF IndInv, ZonesKept
  <2> QED BY <1>1, <2>2 DEF IndInv, ChipInv
<1>4. TypeOK'
  BY <1>1 DEF IndInv, TypeOK
<1>5. \A b \in free \cup allocated :
          /\ b[3] \in Nat /\ Size(b[2]) \in Nat
          /\ Apart(p, gord, b[3], b[2])
  <2>1. \A b \in free \cup allocated : b # <<"hand", gord, p>>
    BY BlockFacts
  <2> QED BY <1>2, <2>1, BlockFacts DEF IndInv, NoOverlap, AllApart
<1>6. \A b \in free \cup allocated :
          /\ Apart(p, g, b[3], b[2])
          /\ Apart(p + s, g, b[3], b[2]) /\ Apart(b[3], b[2], p + s, g)
  BY <1>1, <1>5 DEF Apart
<1>7. NoOverlap'
  <2>1. AllApart(free', free')
    BY <1>1, <1>6 DEF IndInv, NoOverlap, AllApart
  <2>2. AllApart(InHand', free')
    <3>1. Apart(p, g, p + s, g)
      BY <1>1 DEF Apart
    <3> QED BY <1>1, <1>2, <1>6, <3>1 DEF AllApart
  <2>3. AllApart(InHand', allocated')
    BY <1>1, <1>2, <1>6 DEF AllApart
  <2>4. \A b \in free', c \in allocated' : Apart(b[3], b[2], c[3], c[2])
    BY <1>1, <1>6 DEF IndInv, NoOverlap
  <2> QED BY <1>1, <2>1, <2>2, <2>3, <2>4 DEF IndInv, NoOverlap
<1>8. NoLeak'
  <2> SUFFICES ASSUME NEW x \in Start..(MemPages - 1)
               PROVE  \E c \in free' \cup allocated' \cup InHand' : Covers(c, x)
    BY DEF NoLeak
  <2>1. PICK c \in free \cup allocated \cup InHand : Covers(c, x)
    BY <1>1 DEF IndInv, NoLeak, Pending
  <2>2. CASE c \in InHand
    <3>1. p <= x /\ x < p + s + s
      BY <1>1, <1>2, <2>1, <2>2, StorageFacts DEF Covers
    <3>2. Covers(<<"hand", g, p>>, x) \/ Covers(<<z, g, p + s>>, x)
      BY <1>1, <3>1, StorageFacts DEF Covers
    <3> QED BY <1>1, <1>2, <3>2
  <2>3. CASE c \notin InHand
    BY <1>1, <2>1, <2>3
  <2> QED BY <2>2, <2>3
<1>9. ZonesKept'
  <2>1. /\ Start <= p + s /\ p + s + s <= MemPages /\ p + s <= MemPages
        /\ z = "ZONE_LOW" => g < LowMaxOrder /\ p + s + s <= LowEnd
        /\ z # "ZONE_LOW" => g < NormalMaxOrder /\ LowEnd <= p + s
        /\ p + s <= LowEnd \/ LowEnd <= p
    BY <1>1, <1>3, StorageFacts DEF ZoneOf, MaxOrder
  <2> QED BY <1>1, <1>2, <1>3, <2>1 DEF IndInv, ZonesKept
<1>10. ChipInv'
  <2>1. zone = "ZONE_LOW" => p + s <= LowEnd
    BY <1>1, <1>3, StorageFacts
  <2>2. g < MaxOrder(z) /\ MaxOrder(z) \in Nat
    BY <1>1, <1>3, StorageFacts DEF MaxOrder
  <2>3. order \in Orders
    BY <1>1 DEF IndInv, ChipInv
  <2> QED BY <1>1, <2>1, <2>2, <2>3 DEF ChipInv, ZoneOf, MaxOrder
<1> QED BY <1>1, <1>4, <1>7, <1>8, <1>9, <1>10 DEF IndInv, InitInv, SearchInv

\* The block in hand when it is handed to the caller.
LEMMA ReturnFacts ==
    ASSUME IndInv, AllocReturn
    PROVE  /\ gord = order /\ InHand = {<<"hand", order, base>>}
           /\ order \in Orders /\ base \in Nat /\ zone \in Zones
           /\ Size(order) \in Nat /\ Size(order) >= 1
           /\ Start <= base /\ base + Size(order) <= MemPages
           /\ base + Size(order) <= LowEnd \/ LowEnd <= base
           /\ zone = "ZONE_LOW" => base + Size(order) <= LowEnd
           /\ \A b \in free \cup allocated :
                 Apart(base, order, b[3], b[2]) /\ Apart(b[3], b[2], base, order)
<1>1. /\ gord = order /\ InHand = {<<"hand", order, base>>}
      /\ order \in 0..NormalMaxOrder /\ order \in Orders /\ base \in Nat /\ zone \in Zones
      /\ zone = "ZONE_LOW" => base + Size(order) <= LowEnd
  BY DEF AllocReturn, IndInv, TypeOK, ChipInv, InHand
<1>2. <<"hand", order, base>> \in InHand
  BY <1>1
<1>3. /\ Start <= base /\ base + Size(order) <= MemPages
      /\ base + Size(order) <= LowEnd \/ LowEnd <= base
  BY <1>2 DEF IndInv, ZonesKept
<1>4. \A b \in free \cup allocated : b # <<"hand", order, base>>
  BY BlockFacts
<1>5. \A b \in free \cup allocated : Apart(base, order, b[3], b[2])
  BY <1>1, <1>4 DEF IndInv, NoOverlap, AllApart
<1>6. \A b \in free \cup allocated : Apart(b[3], b[2], base, order)
  BY <1>5 DEF Apart
<1> QED BY <1>1, <1>3, <1>5, <1>6, SizeFacts

LEMMA AllocReturnKeeps ==
    ASSUME IndInv, AllocReturn
    PROVE  IndInv'
<1> SUFFICES ASSUME NEW n, NEW p, NEW z, n = order, p = base, z = zone
             PROVE  IndInv'
  OBVIOUS
<1>1. /\ pc = "chip" /\ pc' = "idle" /\ free' = free /\ InHand' = {}
      /\ allocated' = allocated \cup {<<z, n, p>>}
      /\ zone' = "ZONE_LOW" /\ order' = 0 /\ rest' = 0 /\ gord' = 0 /\ base' = 0
  BY DEF AllocReturn, Returned, InHand
<1>2. TypeOK'
  BY <1>1, ReturnFacts, StorageFacts DEF IndInv, TypeOK
<1>3. NoOverlap'
  <2>1. AllApart(allocated', allocated')
    BY <1>1, ReturnFacts DEF IndInv, NoOverlap, AllApart
  <2>2. \A b \in free', c \in allocated' : Apart(b[3], b[2], c[3], c[2])
    BY <1>1, ReturnFacts DEF IndInv, NoOverlap
  <2> QED BY <1>1, <2>1, <2>2 DEF IndInv, NoOverlap, AllApart
<1>4. NoLeak'
  <2> SUFFICES ASSUME NEW x \in Start..(MemPages - 1)
               PROVE  \E c \in free' \cup allocated' : Covers(c, x)
    BY DEF NoLeak
  <2>1. PICK c \in free \cup allocated \cup InHand : Covers(c, x)
    BY <1>1 DEF IndInv, NoLeak, Pending
  <2>2. CASE c \in InHand
    <3>1. Covers(<<z, n, p>>, x)
      BY <2>1, <2>2, ReturnFacts DEF Covers
    <3> QED BY <1>1, <3>1
  <2>3. CASE c \notin InHand
    BY <1>1, <2>1, <2>3
  <2> QED BY <2>2, <2>3
<1>5. ZonesKept'
  BY <1>1, ReturnFacts DEF IndInv, ZonesKept
<1> QED BY <1>1, <1>2, <1>3, <1>4, <1>5 DEF IndInv, InitInv, SearchInv, ChipInv

LEMMA FreePagesKeeps ==
    ASSUME IndInv, NEW b \in allocated, FreePages(b)
    PROVE  IndInv'
<1> SUFFICES ASSUME NEW f, f = <<ZoneOf(b[3]), b[2], b[3]>>
             PROVE  IndInv'
  OBVIOUS
<1>1. /\ pc = "idle" /\ pc' = pc /\ allocated' = allocated \ {b} /\ free' = free \cup {f}
      /\ UNCHANGED <<zone, order, rest, gord, base>>
  BY DEF FreePages
<1>2. /\ b[2] \in 0..NormalMaxOrder /\ b[3] \in Nat /\ Size(b[2]) \in Nat /\ Size(b[2]) >= 1
      /\ Start <= b[3] /\ b[3] + Size(b[2]) <= MemPages
      /\ f[1] = ZoneOf(b[3]) /\ f[2] = b[2] /\ f[3] = b[3] /\ f[1] \in Zones
      /\ InHand = {} /\ InHand' = {}
  BY <1>1, BlockFacts DEF ZoneOf, InHand
<1>3. TypeOK'
  BY <1>1, <1>2 DEF IndInv, TypeOK, ZoneOf
<1>4. /\ \A c \in free : Apart(b[3], b[2], c[3], c[2]) /\ Apart(c[3], c[2], b[3], b[2])
      /\ \A c \in allocated \ {b} : Apart(b[3], b[2], c[3], c[2])
  BY DEF IndInv, NoOverlap, AllApart, Apart
<1>5. NoOverlap'
  <2>1. AllApart(free', free')
    BY <1>1, <1>2, <1>4 DEF IndInv, NoOverlap, AllApart
  <2>2. \A c \in free', d \in allocated' : Apart(c[3], c[2], d[3], d[2])
    BY <1>1, <1>2, <1>4 DEF IndInv, NoOverlap
  <2> QED BY <1>1, <1>2, <2>1, <2>2 DEF IndInv, NoOverlap, AllApart
<1>6. NoLeak'
  <2> SUFFICES ASSUME NEW x \in Start..(MemPages - 1)
               PROVE  \E c \in free' \cup allocated' : Covers(c, x)
    BY DEF NoLeak
  <2>1. PICK c \in free \cup allocated : Covers(c, x)
    BY <1>1, <1>2 DEF IndInv, NoLeak, Pending
  <2>2. CASE c = b
    <3>1. Covers(f, x)
      BY <1>2, <2>1, <2>2 DEF Covers
    <3> QED BY <1>1, <3>1
  <2>3. CASE c # b
    BY <1>1, <2>1, <2>3
  <2> QED BY <2>2, <2>3
<1>7. ZonesKept'
  <2>1. b[3] + Size(b[2]) <= LowEnd \/ LowEnd <= b[3]
    BY DEF IndInv, ZonesKept
  <2>2. /\ f[1] = "ZONE_LOW" => b[3] + Size(b[2]) <= LowEnd /\ b[2] < LowMaxOrder
        /\ f[1] # "ZONE_LOW" => LowEnd <= b[3] /\ b[2] < NormalMaxOrder
    <3>1. b \in Zones \X Orders \X Nat
      BY DEF IndInv, TypeOK
    <3>2. b[2] \in Orders
      BY <3>1
    <3>3. b[2] < LowMaxOrder /\ b[2] < NormalMaxOrder
      BY <3>2, OrderFacts
    <3> QED BY <1>2, <2>1, <3>3, StorageFacts DEF ZoneOf
  <2> QED BY <1>1, <1>2, <2>2 DEF IndInv, ZonesKept
<1> QED BY <1>1, <1>3, <1>5, <1>6, <1>7 DEF IndInv, InitInv, SearchInv, ChipInv

-----------------------------------------------------------------------------
LEMMA InitEstablishes == Init => IndInv
<1> SUFFICES ASSUME Init PROVE IndInv
  OBVIOUS
<1>1. LowTop - Start \in Nat /\ (LowTop - Start) * Size(0) = LowTop - Start
  BY StorageFacts, SizeFacts
<1>2. TypeOK
  BY <1>1, StorageFacts DEF Init, TypeOK
<1>3. NoOverlap /\ ZonesKept
  BY DEF Init, NoOverlap, ZonesKept, AllApart, InHand
<1>4. NoLeak
  BY StorageFacts DEF Init, NoLeak, Pending
<1>5. InitInv
  BY <1>1, StorageFacts DEF Init, InitInv, InitEnd, MaxOrder
<1> QED BY <1>2, <1>3, <1>4, <1>5 DEF Init, IndInv, SearchInv, ChipInv

LEMMA NextKeeps == IndInv /\ [Next]_vars => IndInv'
<1> SUFFICES ASSUME IndInv, [Next]_vars PROVE IndInv'
  OBVIOUS
<1>1. CASE InitOrder
  BY <1>1, InitOrderKeeps
<1>2. CASE InitNormal
  BY <1>2, InitNormalKeeps
<1>3. CASE InitDone
  BY <1>3, InitDoneKeeps
<1>4. CASE \E k \in Orders, type \in Zones : AllocPages(k, type)
  BY <1>4, AllocPagesKeeps
<1>5. CASE \E b \in free : Take(b)
  BY <1>5, TakeKeeps
<1>6. CASE Miss
  BY <1>6, MissKeeps
<1>7. CASE Fault
  BY <1>7, FaultKeeps
<1>8. CASE Chip
  BY <1>8, ChipKeeps
<1>9. CASE AllocReturn
  BY <1>9, AllocReturnKeeps
<1>10. CASE \E b \in allocated : FreePages(b)
  BY <1>10, FreePagesKeeps
<1>11. CASE UNCHANGED vars
  BY <1>11 DEF vars, IndInv, TypeOK, NoOverlap, NoLeak, ZonesKept, InitInv, InitEnd,
     SearchInv, ChipInv, AllApart, InHand, Pending
<1> QED BY <1>1, <1>2, <1>3, <1>4, <1>5, <1>6, <1>7, <1>8, <1>9, <1>10, <1>11 DEF Next

\* Every reachable state of the allocator satisfies the inductive invariant.
THEOREM Invariance == Spec => []IndInv
BY InitEstablishes, NextKeeps, PTL DEF Spec

\* The free lists, the allocations and the locals of a call keep their types.
THEOREM TypeCorrect == Spec => []TypeOK
<1>1. IndInv => TypeOK
  BY DEF IndInv
<1> QED BY <1>1, Invariance, PTL

\* Blocks are on lists that exist, and a search that looks behind the end of
\* orders_low does so only for a request that storage below 2GB cannot satisfy and
\* that no smaller block above 2GB can either (__alloc_pages, __chip_pages,
\* free_pages).
THEOREM OrdersStayInBounds == Spec => []OrdersInBounds
<1>1. IndInv => OrdersInBounds
  <2> SUFFICES ASSUME IndInv PROVE OrdersInBounds
    OBVIOUS
  <2>1. \A b \in free : b \in Zones \X (0..NormalMaxOrder) \X Nat
    BY DEF IndInv, TypeOK
  <2>2. ASSUME NEW b \in free
        PROVE  b[2] < MaxOrder(b[1]) /\ (b[1] = "ZONE_LOW" => b[2] < LowMaxOrder)
    BY <2>1, <2>2 DEF IndInv, ZonesKept, MaxOrder
  <2>3. pc = "chip" => gord < MaxOrder(ZoneOf(base))
    BY DEF IndInv, ChipInv
  <2>4. ASSUME pc = "search"
        PROVE  /\ gord < MaxOrder(zone)
               /\ OutOfBounds => /\ zone = "ZONE_NORMAL"
                                 /\ \A b \in free :
                                       b[2] < order \/ (b[1] = "ZONE_NORMAL" /\ gord <= b[2])
    <3>1. /\ gord < MaxOrder(zone) /\ zone \in Zones /\ gord \in Nat
          /\ \A b \in free : (zone = "ZONE_LOW" => b[1] = "ZONE_LOW") => b[2] < order \/ gord <= b[2]
      BY <2>4, OrderAssumption DEF IndInv, TypeOK, SearchInv
    <3>2. ASSUME OutOfBounds PROVE zone = "ZONE_NORMAL"
      BY <3>1, <3>2, OrderAssumption DEF OutOfBounds, MaxOrder
    <3>3. ASSUME OutOfBounds, NEW b \in free, ~(b[2] < order)
          PROVE  b[1] = "ZONE_NORMAL" /\ gord <= b[2]
      <4>1. gord <= b[2]
        BY <3>1, <3>2, <3>3
      <4>2. b[1] # "ZONE_LOW"
        BY <4>1, <3>1, <3>3, <2>1, <2>2, OrderAssumption DEF OutOfBounds
      <4> QED BY <4>1, <4>2, <2>1
    <3> QED BY <3>1, <3>2, <3>3
  <2> QED BY <2>2, <2>3, <2>4 DEF OrdersInBounds
<1> QED BY <1>1, Invariance, PTL

\* alloc_pages never gives out a page twice, whatever the size of the storage.
THEOREM BlocksAreApart == Spec => []NoOverlap
<1>1. IndInv => NoOverlap
  BY DEF IndInv
<1> QED BY <1>1, Invariance, PTL

\* Neither init_buddy_alloc nor splitting nor freeing loses a page.
THEOREM NothingIsLost == Spec => []NoLeak
<1>1. IndInv => NoLeak
  BY DEF IndInv
<1> QED BY <1>1, Invariance, PTL

\* The free lists respect the 2GB line and the end of the storage.
THEOREM ZonesAreKept == Spec => []ZonesKept
<1>1. IndInv => ZonesKept
  BY DEF IndInv
<1> QED BY <1>1, Invariance, PTL

\* alloc_pages returns NULL only if no block of a zone it may use is large
\* enough.
THEOREM FailureMeansFull == Spec => FailsOnlyWhenFull
<1> DEFINE A == pc = "search" /\ pc' = "idle" =>
        \A b \in free : (zone = "ZONE_LOW" => b[1] = "ZONE_LOW") => b[2] < order
<1>1. ASSUME IndInv, Next PROVE A
  <2> SUFFICES ASSUME pc = "search", pc' = "idle", NEW b \in free,
                      zone = "ZONE_LOW" => b[1] = "ZONE_LOW"
               PROVE  b[2] < order
    OBVIOUS
  <2>1. /\ Miss /\ ~(gord + 1 < MaxOrder(zone))
    BY <1>1 DEF Next, InitOrder, InitNormal, InitDone, AllocPages, Take, Miss, Fault, Chip,
       AllocReturn, FreePages
  <2>2. /\ b[1] \in Zones /\ zone \in Zones /\ b[2] \in Nat /\ gord \in Nat
        /\ order \in Nat /\ gord < MaxOrder(zone)
        /\ b[2] < order \/ gord <= b[2]
    BY <1>1 DEF IndInv, TypeOK, SearchInv
  <2>3. b[2] # gord
    BY <2>1, <2>2 DEF Miss, Found, List
  <2>4. b[2] < MaxOrder(b[1])
    BY <1>1, <2>2 DEF IndInv, ZonesKept, MaxOrder
  <2>5. MaxOrder(b[1]) <= MaxOrder(zone) /\ MaxOrder(zone) \in Nat /\ MaxOrder(b[1]) \in Nat
    BY <2>2, StorageFacts DEF MaxOrder
  <2> QED BY <2>1, <2>2, <2>3, <2>4, <2>5
<1>2. IndInv /\ [Next]_vars => [A]_vars
  BY <1>1
<1> QED BY <1>2, Invariance, PTL DEF Spec, FailsOnlyWhenFull

\* alloc_pages splits the smallest block that will do: the orders below the one
\* it takes from have been searched and are empty.
THEOREM SmallestFit == Spec => SmallestBlockSplit
<1> DEFINE A == pc = "search" /\ pc' = "chip" =>
        \A b \in free : (zone = "ZONE_LOW" => b[1] = "ZONE_LOW")
                           => b[2] < order \/ gord <= b[2]
<1>1. IndInv /\ [Next]_vars => [A]_vars
  BY DEF IndInv, SearchInv
<1> QED BY <1>1, Invariance, PTL DEF Spec, SmallestBlockSplit

-----------------------------------------------------------------------------
(* The allocator implements PageAlloc.                                     *)

\* The pages the mapping of Abstract calls available.
Avail == {x \in Start..(MemPages - 1) : \A b \in allocated : ~Covers(b, x)}

LEMMA ExtentFacts ==
    ASSUME NEW b, b[3] \in Nat, Size(b[2]) \in Nat
    PROVE  \A x : x \in Abstract!Extent(b) <=> x \in Nat /\ Covers(b, x)
BY DEF Abstract!Extent, Covers, Size

LEMMA ReturnIsAlloc ==
    ASSUME IndInv, AllocReturn
    PROVE  Abstract!Next
<1> SUFFICES ASSUME NEW n, NEW p, NEW z, NEW b,
                    n = order, p = base, z = zone, b = <<z, n, p>>
             PROVE  Abstract!Next
  OBVIOUS
<1>1. allocated' = allocated \cup {b}
  BY DEF AllocReturn
<1>2. /\ n \in Orders /\ p \in Nat /\ z \in Zones /\ Size(n) \in Nat /\ Size(n) >= 1
      /\ Start <= p /\ p + Size(n) <= MemPages
      /\ z = "ZONE_LOW" => p + Size(n) <= LowEnd
      /\ \A c \in allocated : Apart(p, n, c[3], c[2])
      /\ b[1] = z /\ b[2] = n /\ b[3] = p
  BY ReturnFacts
<1>3. \A x : x \in Abstract!Extent(b) <=> x \in Nat /\ p <= x /\ x < p + Size(n)
  <2>1. \A x : x \in Abstract!Extent(b) <=> x \in Nat /\ Covers(b, x)
    BY <1>2, ExtentFacts
  <2> QED BY <1>2, <2>1 DEF Covers
<1>4. Abstract!Extent(b) \subseteq Avail
  <2> SUFFICES ASSUME NEW x \in Abstract!Extent(b)
               PROVE  x \in Start..(MemPages - 1) /\ \A c \in allocated : ~Covers(c, x)
    BY DEF Avail
  <2>1. x \in Nat /\ p <= x /\ x < p + Size(n)
    BY <1>3
  <2>2. ASSUME NEW c \in allocated PROVE ~Covers(c, x)
    <3>1. c[3] \in Nat /\ Size(c[2]) \in Nat /\ (p + Size(n) <= c[3] \/ c[3] + Size(c[2]) <= p)
      BY <1>2, BlockFacts DEF Apart
    <3> QED BY <1>2, <2>1, <3>1 DEF Covers
  <2>3. x \in Start..(MemPages - 1)
    BY <1>2, <2>1, StorageFacts
  <2> QED BY <2>2, <2>3
<1>5. Avail' = Avail \ Abstract!Extent(b)
  <2>1. ASSUME NEW x \in Avail' PROVE x \in Avail /\ x \notin Abstract!Extent(b)
    BY <1>1, <1>2, <1>3, <2>1 DEF Avail, Covers
  <2>2. ASSUME NEW x \in Avail, x \notin Abstract!Extent(b) PROVE x \in Avail'
    <3>1. x \in Nat
      BY StorageFacts DEF Avail
    <3>2. ~Covers(b, x)
      BY <1>2, <1>3, <2>2, <3>1 DEF Covers
    <3> QED BY <1>1, <3>2 DEF Avail, Covers
  <2> QED BY <2>1, <2>2
<1>6. b[1] = "ZONE_LOW" => \A x \in Abstract!Extent(b) : x < LowEnd
  BY <1>2, <1>3, StorageFacts
<1>7. Abstract!Alloc(<<z, n, p>>)
  BY <1>1, <1>4, <1>5, <1>6 DEF Abstract!Alloc, Avail
<1>8. p \in Start..(MemPages - 1)
  BY <1>2, StorageFacts
<1> QED BY <1>2, <1>7, <1>8 DEF Abstract!Next

LEMMA FreeIsFree ==
    ASSUME IndInv, NEW b \in allocated, FreePages(b)
    PROVE  Abstract!Next
<1>1. allocated' = allocated \ {b}
  BY DEF FreePages
<1>2. /\ b[3] \in Nat /\ Size(b[2]) \in Nat /\ Size(b[2]) >= 1
      /\ Start <= b[3] /\ b[3] + Size(b[2]) <= MemPages
  BY BlockFacts
<1>3. \A x : x \in Abstract!Extent(b) <=> x \in Nat /\ Covers(b, x)
  BY <1>2, ExtentFacts
<1>4. Avail' = Avail \cup Abstract!Extent(b)
  <2>1. ASSUME NEW x \in Avail', x \notin Abstract!Extent(b) PROVE x \in Avail
    <3>1. x \in Nat
      BY <2>1, StorageFacts DEF Avail
    <3>2. ~Covers(b, x)
      BY <1>3, <2>1, <3>1
    <3> QED BY <1>1, <2>1, <3>2 DEF Avail, Covers
  <2>2. ASSUME NEW x \in Avail PROVE x \in Avail'
    BY <1>1, <2>2 DEF Avail, Covers
  <2>3. ASSUME NEW x \in Abstract!Extent(b) PROVE x \in Avail'
    <3>1. x \in Nat /\ Covers(b, x) /\ b[3] <= x /\ x < b[3] + Size(b[2])
      BY <1>3, <2>3 DEF Covers
    <3>2. ASSUME NEW c \in allocated \ {b} PROVE ~Covers(c, x)
      <4>1. c[3] \in Nat /\ Size(c[2]) \in Nat
        BY BlockFacts
      <4>2. b[3] + Size(b[2]) <= c[3] \/ c[3] + Size(c[2]) <= b[3]
        BY <3>2 DEF IndInv, NoOverlap, AllApart, Apart
      <4> QED BY <1>2, <3>1, <4>1, <4>2 DEF Covers
    <3>3. x \in Start..(MemPages - 1)
      BY <1>2, <3>1, StorageFacts
    <3> QED BY <1>1, <3>2, <3>3 DEF Avail, Covers
  <2> QED BY <2>1, <2>2, <2>3
<1>5. Abstract!Free(b)
  BY <1>1, <1>4 DEF Abstract!Free, Avail
<1> QED BY <1>5 DEF Abstract!Next

\* Every behaviour of the buddy allocator is one of the page allocator its
\* callers rely on: the return of alloc_pages takes free pages, free_pages gives
\* them back, and no other step is visible.
THEOREM Refinement == Spec => ImplementsPageAlloc
<1>1. Init => Abstract!Init
  <2> SUFFICES ASSUME Init PROVE Avail = Start..(MemPages - 1) /\ allocated = {}
    BY DEF Abstract!Init, Avail
  <2> QED BY DEF Init, Avail
<1>2. IndInv /\ [Next]_vars => [Abstract!Next]_<<Avail, allocated>>
  <2> SUFFICES ASSUME IndInv, [Next]_vars
               PROVE  Abstract!Next \/ UNCHANGED <<Avail, allocated>>
    OBVIOUS
  <2>1. CASE AllocReturn
    BY <2>1, ReturnIsAlloc
  <2>2. CASE \E b \in allocated : FreePages(b)
    BY <2>2, FreeIsFree
  <2>3. CASE allocated' = allocated
    BY <2>3 DEF Avail, Covers
  <2>4. AllocReturn \/ (\E b \in allocated : FreePages(b)) \/ allocated' = allocated
    BY DEF Next, vars, InitOrder, InitNormal, InitDone, AllocPages, Take, Miss, Fault, Chip
  <2> QED BY <2>1, <2>2, <2>3, <2>4
<1> QED BY <1>1, <1>2, Invariance, PTL DEF Spec, ImplementsPageAlloc, Abstract!Spec, Avail

-----------------------------------------------------------------------------
(* The slab allocator (Slab).                                              *)

\* What the theorems assume of the size of the objects: it is one for which
\* create_slab makes a sound layout.
LayoutOK ==
    /\ Count \in Nat
    /\ StartOff(objsize, align) \in Nat
    /\ ObjSize(objsize, align) \in Nat \ {0}
    /\ HeaderSize \in Nat
    /\ SoundLayout(objsize, align)

\* The inductive invariant: nobody shares an object, and the bitmap and the
\* counter of a page describe exactly the objects in use.
SlabInv == SlabTypeOK /\ NoDoubleUse /\ BookkeepingExact

\* With a sound layout no bit of the bitmap is inside an object, so callers
\* cannot change the bitmap (BitsInside, Write).
LEMMA NoBitsInside == LayoutOK => \A i \in Objects : BitsInside[i] = {}
<1> SUFFICES ASSUME LayoutOK, NEW i \in Objects, NEW b \in Objects
             PROVE  ObjectAt(BitByte(b), objsize, align) # i
    BY DEF BitsInside
<1> DEFINE n == Count
           start == StartOff(objsize, align)
<1>1. n \in Nat /\ start \in Nat /\ HeaderSize \in Nat /\ i \in Nat /\ b \in 0..(n - 1)
    BY DEF LayoutOK, Objects
<1>2. HeaderSize + (n + 7) \div 8 <= start
    BY DEF LayoutOK, SoundLayout, Count
<1>3. BitByte(b) < start
  <2> HIDE DEF n, start
  <2> QED BY <1>1, <1>2 DEF BitByte
<1>4. ObjectAt(BitByte(b), objsize, align) = -1
    BY <1>3 DEF ObjectAt
<1> QED BY <1>1, <1>4

\* The objects of a page are finitely many (Objects, bitmap).
LEMMA BitmapsFinite ==
    ASSUME LayoutOK, NEW S, S \subseteq Objects
    PROVE  IsFiniteSet(S) /\ Cardinality(S) \in Nat
<1>1. IsFiniteSet(Objects)
    BY FS_Interval DEF Objects, LayoutOK
<1> QED BY <1>1, FS_Subset, FS_CardinalityType

\* Handing out the first object whose bit is clear (TakeObject) keeps the
\* books exact and takes an object nobody has.
LEMMA TakeObjectKeepsInv ==
    ASSUME LayoutOK, SlabInv, NEW p \in Pages, TakeObject(p)
    PROVE  /\ bitmap' \in [Pages -> SUBSET Objects] /\ used' \in [Pages -> Nat]
           /\ owners' \in [Pages \X Objects -> Nat]
           /\ NoDoubleUse' /\ BookkeepingExact'
<1> USE DEF SlabInv, SlabTypeOK, NoDoubleUse, BookkeepingExact
<1>1. ASSUME NEW i \in Objects, FirstClear(p, i),
             used' = [used EXCEPT ![p] = @ + 1],
             bitmap' = [bitmap EXCEPT ![p] = @ \cup {i}],
             owners' = [owners EXCEPT ![<<p, i>>] = @ + 1]
      PROVE  /\ bitmap' \in [Pages -> SUBSET Objects] /\ used' \in [Pages -> Nat]
             /\ owners' \in [Pages \X Objects -> Nat]
             /\ NoDoubleUse' /\ BookkeepingExact'
  <2>1. i \notin bitmap[p]
      BY <1>1 DEF FirstClear
  <2>2. owners[<<p, i>>] = 0
      BY <2>1
  <2>3. Cardinality(bitmap[p] \cup {i}) = Cardinality(bitmap[p]) + 1
      BY <2>1, BitmapsFinite, FS_AddElement
  <2>4. /\ bitmap' \in [Pages -> SUBSET Objects] /\ used' \in [Pages -> Nat]
        /\ owners' \in [Pages \X Objects -> Nat]
      BY <1>1
  <2>5. NoDoubleUse'
      BY <1>1, <2>2
  <2>6. ASSUME NEW r \in Pages
        PROVE  /\ bitmap'[r] = {j \in Objects : owners'[<<r, j>>] > 0}
               /\ used'[r] = Cardinality(bitmap'[r])
    <3>1. CASE r = p
        BY <3>1, <1>1, <2>1, <2>2, <2>3
    <3>2. CASE r # p
      <4>1. \A j \in Objects : owners'[<<r, j>>] = owners[<<r, j>>]
          BY <3>2, <1>1
      <4> QED BY <3>2, <4>1, <1>1
    <3> QED BY <3>1, <3>2
  <2> QED BY <2>4, <2>5, <2>6
<1> QED BY <1>1 DEF TakeObject

\* Giving back an object (Free) keeps the books exact.
LEMMA FreeKeepsInv ==
    ASSUME LayoutOK, SlabInv, NEW p \in Pages, NEW i \in Objects, Free(p, i)
    PROVE  SlabInv'
<1> USE DEF SlabInv, SlabTypeOK, NoDoubleUse, BookkeepingExact, Free
<1>1. owners[<<p, i>>] = 1 /\ i \in bitmap[p]
    OBVIOUS
<1>2. /\ Cardinality(bitmap[p] \ {i}) = Cardinality(bitmap[p]) - 1
      /\ Cardinality(bitmap[p] \ {i}) \in Nat
  <2>1. Cardinality(bitmap[p] \ {i}) = Cardinality(bitmap[p]) - 1
      BY <1>1, BitmapsFinite, FS_RemoveElement
  <2>2. bitmap[p] \ {i} \subseteq Objects
      OBVIOUS
  <2> QED BY <2>1, <2>2, BitmapsFinite
<1>3. used[p] - 1 \in Nat
    BY <1>2
<1>4. SlabTypeOK'
    BY <1>1, <1>3
<1>5. NoDoubleUse'
    BY <1>1
<1>6. ASSUME NEW r \in Pages
      PROVE  /\ bitmap'[r] = {j \in Objects : owners'[<<r, j>>] > 0}
             /\ used'[r] = Cardinality(bitmap'[r])
  <2>1. CASE r = p
      BY <2>1, <1>1, <1>2
  <2>2. CASE r # p
    <3>1. \A j \in Objects : owners'[<<r, j>>] = owners[<<r, j>>]
        BY <2>2
    <3> QED BY <2>2, <3>1
  <2> QED BY <2>1, <2>2
<1> QED BY <1>4, <1>5, <1>6

\* Every step of the allocator and of its callers preserves the invariant
\* (SlabNext: alloc_slab_obj, free_slab_obj, writes to objects).
LEMMA SlabInvStep == LayoutOK /\ SlabInv /\ [SlabNext]_slabVars => SlabInv'
<1> SUFFICES ASSUME LayoutOK, SlabInv, [SlabNext]_slabVars
             PROVE  SlabInv'
    OBVIOUS
<1>1. ASSUME NEW type \in {"ZONE_LOW", "ZONE_NORMAL"}, Malloc(type)
      PROVE  SlabInv'
  <2>1. PICK p \in Pages : TakeObject(p) /\ slab' \in Seq(Pages)
    <3>1. CASE \E i \in 1..Len(slab) : TakeObject(slab[i]) /\ UNCHANGED slab
        BY <3>1 DEF SlabInv, SlabTypeOK
    <3>2. CASE \E p \in SlabPages(type, {slab[i] : i \in 1..Len(slab)}) :
                  slab' = Append(slab, p) /\ TakeObject(p)
      <4>1. \A taken : SlabPages(type, taken) \subseteq Pages
          BY PageAssumption DEF SlabPages
      <4> QED BY <3>2, <4>1 DEF SlabInv, SlabTypeOK
    <3> QED BY <1>1, <3>1, <3>2 DEF Malloc
  <2> QED BY <2>1, TakeObjectKeepsInv DEF SlabInv, SlabTypeOK
<1>2. ASSUME NEW p \in Pages, NEW i \in Objects, Free(p, i)
      PROVE  SlabInv'
    BY <1>2, FreeKeepsInv
<1>3. ASSUME NEW p \in Pages, NEW i \in Objects, Write(p, i)
      PROVE  SlabInv'
  <2>1. bitmap' = bitmap
      BY <1>3, NoBitsInside DEF Write, SlabInv, SlabTypeOK
  <2> QED BY <1>3, <2>1 DEF Write, SlabInv, SlabTypeOK, NoDoubleUse, BookkeepingExact
<1>4. CASE UNCHANGED slabVars
    BY <1>4 DEF slabVars, SlabInv, SlabTypeOK, NoDoubleUse, BookkeepingExact
<1> QED BY <1>1, <1>2, <1>3, <1>4 DEF SlabNext

\* create_slab establishes the invariant.
LEMMA SlabInvInit == LayoutOK /\ SlabInit => SlabInv
<1> SUFFICES ASSUME LayoutOK, SlabInit PROVE SlabInv
    OBVIOUS
<1>1. slab \in Seq(Pages)
    BY PageAssumption DEF SlabInit, SlabPages
<1>2. SlabTypeOK
    BY <1>1 DEF SlabInit, SlabTypeOK
<1>3. Cardinality({}) = 0
    BY FS_EmptySet
<1>4. \A p \in Pages : {i \in Objects : owners[<<p, i>>] > 0} = {}
    BY DEF SlabInit
<1> QED BY <1>2, <1>3, <1>4 DEF SlabInit, SlabInv, NoDoubleUse, BookkeepingExact

\* Where create_slab makes a sound layout, malloc never hands out an object
\* that somebody has (alloc_slab_obj, free_slab_obj).
THEOREM NoObjectShared == LayoutOK => (SlabSpec => []NoDoubleUse)
<1>1. LayoutOK /\ SlabInit => SlabInv
    BY SlabInvInit
<1>2. LayoutOK /\ SlabInv /\ [SlabNext]_slabVars => SlabInv'
    BY SlabInvStep
<1>3. SlabInv => NoDoubleUse
    BY DEF SlabInv
<1>4. ASSUME LayoutOK PROVE SlabSpec => []NoDoubleUse
    BY <1>1, <1>2, <1>3, <1>4, PTL DEF SlabSpec
<1> QED BY <1>4

\* Where create_slab makes a sound layout, the bitmap and the counter of a page
\* agree with what callers hold.
THEOREM BooksAreExact == LayoutOK => (SlabSpec => [](SlabTypeOK /\ BookkeepingExact))
<1>1. LayoutOK /\ SlabInit => SlabInv
    BY SlabInvInit
<1>2. LayoutOK /\ SlabInv /\ [SlabNext]_slabVars => SlabInv'
    BY SlabInvStep
<1>3. SlabInv => SlabTypeOK /\ BookkeepingExact
    BY DEF SlabInv
<1>4. ASSUME LayoutOK PROVE SlabSpec => [](SlabTypeOK /\ BookkeepingExact)
    BY <1>1, <1>2, <1>3, <1>4, PTL DEF SlabSpec
<1> QED BY <1>4

\* What create_slab computes for the generic slabs with pages of 4KB and a header
\* of 40 bytes: how many objects, and where the first one is.
LEMMA GenericCounts ==
    ASSUME PAGE_SIZE = 4096, HeaderSize = 40
    PROVE  /\ ObjSize(16, 4) = 16 /\ Count0(16, 4) = 251
           /\ ObjSize(32, 4) = 32 /\ Count0(32, 4) = 126
           /\ ObjSize(64, 4) = 64 /\ Count0(64, 4) = 63
           /\ ObjSize(128, 4) = 128 /\ Count0(128, 4) = 31
           /\ ObjSize(256, 8) = 256 /\ Count0(256, 8) = 15
           /\ ObjSize(512, 8) = 512 /\ Count0(512, 8) = 7
           /\ ObjSize(1024, 8) = 1024 /\ Count0(1024, 8) = 3
BY DEF ObjSize, Count0, RoundUp

\* With the sizes of the code all generic slabs but the last one have a sound layout:
\* with three objects to a page, (count + 4) / 8 leaves no byte for the bitmap
\* (create_slab).
LEMMA GenericSound ==
    ASSUME PAGE_SIZE = 4096, HeaderSize = 40, NEW c \in Generic
    PROVE  SoundLayout(c[1], c[2]) <=> c # <<1024, 8>>
<1>1. CASE c = <<16, 4>>
    BY <1>1, GenericCounts DEF SoundLayout, CountOf, StartOff, Start0, RoundUp
<1>2. CASE c = <<32, 4>>
    BY <1>2, GenericCounts DEF SoundLayout, CountOf, StartOff, Start0, RoundUp
<1>3. CASE c = <<64, 4>>
    BY <1>3, GenericCounts DEF SoundLayout, CountOf, StartOff, Start0, RoundUp
<1>4. CASE c = <<128, 4>>
    BY <1>4, GenericCounts DEF SoundLayout, CountOf, StartOff, Start0, RoundUp
<1>5. CASE c = <<256, 8>>
    BY <1>5, GenericCounts DEF SoundLayout, CountOf, StartOff, Start0, RoundUp
<1>6. CASE c = <<512, 8>>
    BY <1>6, GenericCounts DEF SoundLayout, CountOf, StartOff, Start0, RoundUp
<1>7. CASE c = <<1024, 8>>
    BY <1>7, GenericCounts DEF SoundLayout, CountOf, StartOff, Start0, RoundUp
<1> QED BY <1>1, <1>2, <1>3, <1>4, <1>5, <1>6, <1>7 DEF Generic

\* With pages of 4KB and the header of struct slab, of the seven slabs that init_slab
\* creates exactly one, that of the 1024-byte objects, does not have its bitmap in
\* front of its objects and its objects in the page (create_slab).
THEOREM OneLayoutIsUnsound == PAGE_SIZE = 4096 /\ HeaderSize = 40 => UnsoundLayouts
<1> SUFFICES ASSUME PAGE_SIZE = 4096, HeaderSize = 40 PROVE UnsoundLayouts
    OBVIOUS
<1>1. \A c \in Generic : SoundLayout(c[1], c[2]) <=> c # <<1024, 8>>
    BY GenericSound
<1>2. <<1024, 8>> \in Generic
    BY DEF Generic
<1> QED BY <1>1, <1>2 DEF UnsoundLayouts
=============================================================================
