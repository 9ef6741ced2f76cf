--------------------------- MODULE MachineProofs ---------------------------
(***************************************************************************)
(* Proofs about Machine and the modules it composes, for every number of   *)
(* users, frames and pages, and every directory, saved system, operand and *)
(* channel program: the virtual machines are isolated from each other,     *)
(* commands and channel programs reach the storage of the guest, saved     *)
(* systems arrive whole, registers are shown as they are and the numbers   *)
(* of virtual devices are distinct.                                        *)
(***************************************************************************)
EXTENDS Machine, FiniteSetTheorems, SequenceTheorems, WellFoundedInduction, TLAPS

\* A page that the tables reach is told by its indices from every other one.
SX(i) == (i \div NPX) % NSX
PX(i) == i % NPX
Reached == NPX * NSX
SXs == 0..(NSX - 1)
PXs == 0..(NPX - 1)

-----------------------------------------------------------------------------
\* The inductive invariant.

SegmentTable == [SXs -> Frames \cup {0}]
PageTables == [PXs -> Frames \cup {0}]

StorageType ==
    /\ free \subseteq Frames
    /\ mem \in [Addresses -> 0..255]
    /\ tables \in [Frames -> {NoTable} \cup SegmentTable \cup PageTables]
    /\ as \in [Users -> Frames \cup {0}]
    /\ guest_pages \in [Users -> Seq(Frames)]
    /\ cr1 \in Frames \cup {0}

BootSteps == {"create", "devices", "ipl", "begin", "attach"}

\* How far a task is with guest_ipl_nss.
Cursor == [busy : BOOLEAN, user : Users \cup {"none"}, saved : Frames \cup {0},
           nss : DOMAIN Images \cup {"none"}, seg : Nat \ {0}, off : Nat]

ControlType ==
    /\ cur \in alive \cup {Boot} /\ alive \subseteq Tasks /\ started \subseteq alive \cap Users
    /\ saved \in [Tasks -> Frames \cup {0}]
    /\ boot \in [k : Nat \ {0}, user : Users \cup {"none"}, step : BootSteps,
                 dev : Nat \ {0}]
    /\ ipl \in [Tasks -> Cursor]
    /\ loaded \in [Users -> DOMAIN Images \cup {"none"}]

\* The page table for index sx of a user that has a segment table, 0 if none.
TableOf(u, sx) == tables[as[u]][sx]

\* Where the tables are: every table of a user is a frame of its own.
TablesInv ==
    /\ \A u \in Users : as[u] # 0 =>
         as[u] \notin free /\ tables[as[u]] \in SegmentTable
    /\ \A u \in Users, sx \in SXs : as[u] # 0 /\ TableOf(u, sx) # 0 =>
         TableOf(u, sx) \notin free /\ tables[TableOf(u, sx)] \in PageTables
    /\ \A u, w \in Users : as[u] # 0 /\ as[u] = as[w] => u = w
    /\ \A u, w \in Users, sx \in SXs : as[u] # 0 /\ as[w] # 0 =>
         TableOf(u, sx) # as[w]
    /\ \A u, w \in Users, sx, sy \in SXs :
         as[u] # 0 /\ as[w] # 0 /\ TableOf(u, sx) # 0 /\ TableOf(u, sx) = TableOf(w, sy)
            => u = w /\ sx = sy

\* Where the storage is: every page of a user is a frame of its own, and no
\* table.
FramesInv ==
    /\ \A f \in free : tables[f] = NoTable
    /\ \A u \in Users : \A i \in 1..Len(guest_pages[u]) :
         /\ guest_pages[u][i] \notin free /\ tables[guest_pages[u][i]] = NoTable
         /\ \A w \in Users : \A j \in 1..Len(guest_pages[w]) :
              guest_pages[u][i] = guest_pages[w][j] => u = w /\ i = j

\* The pages of a user that are there already, and the frame of such a page:
\* the pages come from the highest address downwards, and go to the front.
First(u) == Directory[u].storage - Len(guest_pages[u])
Present(u) == First(u)..(Directory[u].storage - 1)
FrameOf(u, i) == guest_pages[u][i - First(u) + 1]

\* What the tables say: a page that is there and that they reach is found in its
\* frame, and there is no entry for any other.
MappingInv ==
    /\ \A u \in Users : \A i \in Present(u) : as[u] # 0 /\ i < Reached =>
         TableOf(u, SX(i)) # 0 /\ tables[TableOf(u, SX(i))][PX(i)] = FrameOf(u, i)
    /\ \A u \in Users, sx \in SXs, px \in PXs :
         as[u] # 0 /\ TableOf(u, sx) # 0 /\ tables[TableOf(u, sx)][px] # 0
            => \E i \in Present(u) : SX(i) = sx /\ PX(i) = px

\* How far each user is: __finish_loading brings up one after the other.
Begun(u) == u \in alive \/ as[u] # 0 \/ guest_pages[u] # <<>> \/ virt_devs[u] # <<>>

BootInv ==
    /\ boot.step # "create" =>
         boot.k <= Len(Logons) /\ boot.user \in Logons[boot.k]
    /\ boot.step = "devices" => boot.user \notin alive
    /\ boot.step \in {"ipl", "begin", "attach"} => boot.user \in alive
    /\ boot.step = "create" => boot.dev = 1
    /\ DOMAIN virt_devs = Users
    /\ \A u \in Users : Begun(u) =>
         \E k \in 1..Len(Logons) :
            /\ u \in Logons[k] /\ k <= boot.k
            /\ k = boot.k => boot.step # "create" /\ boot.user = u
    /\ \A u \in Users :
         /\ Len(guest_pages[u]) <= Directory[u].storage
         /\ as[u] = 0 <=> Len(guest_pages[u]) = 0
         /\ u \in alive => Len(guest_pages[u]) = Directory[u].storage

\* Control register 1 as task t finds it when it runs.
CrOf(t) == IF cur = t THEN cr1 ELSE saved[t]

\* A task that has to reach the storage of a user finds it through CR 1: the one
\* of its own user once it has started, and the one of the user for which it
\* executes guest_ipl_nss.
BusyOK(t) ==
    /\ ipl[t].user \in alive \cap Users /\ CrOf(t) = as[ipl[t].user]
    /\ ipl[t].nss \in DOMAIN Images
    /\ ipl[t].seg <= Len(Segments(t)) => ipl[t].off < Segments(t)[ipl[t].seg].memlen

CrInv ==
    /\ \A t \in Tasks : ipl[t].busy => BusyOK(t)
    /\ \A u \in started : /\ CrOf(u) = as[u]
                          /\ ipl[u].busy => ipl[u].user = u /\ ipl[u].saved = as[u]
    /\ \A u \in Users : ipl[u].busy => u \in started
    /\ ipl[Boot].busy => boot.step = "begin" /\ boot.user = ipl[Boot].user

StorageInv == StorageType /\ TablesInv /\ FramesInv /\ MappingInv
IndInv == StorageInv /\ ControlType /\ BootInv /\ CrInv

-----------------------------------------------------------------------------
\* Arithmetic of addresses.

LEMMA DivMod ==
    ASSUME NEW a \in Nat, NEW b \in Nat \ {0}
    PROVE  /\ a \div b \in Nat /\ a % b \in 0..(b - 1)
           /\ a = (a \div b) * b + (a % b)
<1>1. a \div b \in Nat /\ a % b \in 0..(b - 1) /\ a = b * (a \div b) + (a % b)
    OBVIOUS
<1>2. \A q \in Nat : b * q = q * b
    OBVIOUS
<1> QED BY <1>1, <1>2

LEMMA DivModUnique ==
    ASSUME NEW q \in Nat, NEW b \in Nat \ {0}, NEW r \in 0..(b - 1)
    PROVE  (q * b + r) \div b = q /\ (q * b + r) % b = r
OBVIOUS


LEMMA SlotType ==
    ASSUME NEW i \in Nat
    PROVE  SX(i) \in SXs /\ PX(i) \in PXs
BY TableAssumption DEF SX, PX, SXs, PXs

LEMMA SlotsDistinct ==
    ASSUME NEW i \in Nat, NEW j \in Nat, i < Reached, j < Reached,
           SX(i) = SX(j), PX(i) = PX(j)
    PROVE  i = j
<1>1. ASSUME NEW n \in Nat, n < Reached
      PROVE  n = SX(n) * NPX + PX(n)
  <2>1. n \div NPX \in Nat /\ n = (n \div NPX) * NPX + (n % NPX)
      BY DivMod, TableAssumption
  <2>2. n \div NPX < NSX
      BY <1>1, TableAssumption DEF Reached
  <2>3. (n \div NPX) % NSX = n \div NPX
      BY <2>1, <2>2, TableAssumption
  <2>4. SX(n) = n \div NPX /\ PX(n) = n % NPX
      BY <2>3 DEF SX, PX
  <2> QED BY <2>1, <2>4
<1> QED BY <1>1

\* The indices of an address are those of its page, and the address is below
\* the limit if its page is reached.
LEMMA Indices ==
    ASSUME NEW a \in Nat
    PROVE  /\ a \div PAGE \in Nat /\ a % PAGE \in 0..(PAGE - 1)
           /\ a = (a \div PAGE) * PAGE + (a % PAGE)
           /\ DAT_SX(a) = SX(a \div PAGE) /\ DAT_PX(a) = PX(a \div PAGE)
           /\ a < LIMIT <=> a \div PAGE < Reached
<1>1. /\ a \div PAGE \in Nat /\ a % PAGE \in 0..(PAGE - 1)
      /\ a = (a \div PAGE) * PAGE + (a % PAGE)
    BY DivMod, PageAssumption
<1>2. a < LIMIT <=> a \div PAGE < Reached
  <2> DEFINE q == a \div PAGE
             r == a % PAGE
             m == NPX * NSX
  <2>0. m \in Nat
      BY TableAssumption
  <2>1. q \in Nat /\ r \in 0..(PAGE - 1) /\ a = q * PAGE + r /\ m \in Nat
      BY <1>1, <2>0
  <2>2. LIMIT = m * PAGE
      BY TableAssumption, PageAssumption DEF LIMIT
  <2> HIDE DEF q, r, m
  <2>3. q < m => q * PAGE + PAGE <= m * PAGE
    <3>1. q < m => q + 1 <= m
        BY <2>1
    <3> QED BY <2>1, <3>1, PageAssumption
  <2>4. q >= m => q * PAGE >= m * PAGE
      BY <2>1, PageAssumption
  <2>5. q * PAGE \in Nat /\ m * PAGE \in Nat
      BY <2>1, PageAssumption
  <2>6. a < m * PAGE <=> q < m
      BY <2>1, <2>3, <2>4, <2>5, PageAssumption
  <2> QED BY <2>2, <2>6 DEF q, m, Reached
<1> QED BY <1>1, <1>2 DEF DAT_SX, DAT_PX, DAT_PAGE, SX, PX

LEMMA PageStart ==
    ASSUME NEW i \in Nat
    PROVE  /\ i * PAGE \in Nat /\ (i * PAGE) \div PAGE = i /\ (i * PAGE) % PAGE = 0
           /\ DAT_SX(i * PAGE) = SX(i) /\ DAT_PX(i * PAGE) = PX(i)
           /\ i * PAGE < LIMIT <=> i < Reached
<1>1. i * PAGE \in Nat /\ (i * PAGE) \div PAGE = i /\ (i * PAGE) % PAGE = 0
  <2>1. (i * PAGE + 0) \div PAGE = i /\ (i * PAGE + 0) % PAGE = 0
      BY DivModUnique, PageAssumption
  <2> QED BY <2>1, PageAssumption
<1> QED BY <1>1, Indices

-----------------------------------------------------------------------------
\* alloc_guest_storage.

LEMMA TableKinds ==
    /\ \A f \in SegmentTable : f # NoTable
    /\ \A f \in PageTables : f # NoTable
    /\ alloc_table(NSX) \in SegmentTable /\ alloc_table(NPX) \in PageTables
<1>1. 0 \in SXs /\ 0 \in PXs
    BY TableAssumption DEF SXs, PXs
<1>2. DOMAIN NoTable = {}
    BY DEF NoTable
<1>3. \A f \in SegmentTable : DOMAIN f = SXs
    BY DEF SegmentTable
<1>4. \A f \in PageTables : DOMAIN f = PXs
    BY DEF PageTables
<1>5. alloc_table(NSX) \in SegmentTable /\ alloc_table(NPX) \in PageTables
    BY DEF alloc_table, SegmentTable, PageTables, SXs, PXs
<1> QED BY <1>1, <1>2, <1>3, <1>4, <1>5

LEMMA AllocPages ==
    ASSUME NEW pool, pool # {}
    PROVE  alloc_pages(pool) \in pool
BY DEF alloc_pages

\* What TablesInv says of one table, and of two.
LEMMA SegmentOf ==
    ASSUME StorageInv, NEW u \in Users, as[u] # 0
    PROVE  as[u] \in Frames /\ as[u] \notin free /\ tables[as[u]] \in SegmentTable
<1>1. as[u] \in Frames
    BY DEF StorageInv, StorageType
<1>2. TablesInv
    BY DEF StorageInv
<1> QED BY <1>1, <1>2 DEF TablesInv

LEMMA PageTableOf ==
    ASSUME StorageInv, NEW u \in Users, as[u] # 0, NEW sx \in SXs
    PROVE  /\ TableOf(u, sx) \in Frames \cup {0}
           /\ TableOf(u, sx) # 0 =>
                TableOf(u, sx) \notin free /\ tables[TableOf(u, sx)] \in PageTables
<1>1. TableOf(u, sx) \in Frames \cup {0}
    BY SegmentOf DEF SegmentTable, TableOf
<1>2. TablesInv
    BY DEF StorageInv
<1> QED BY <1>1, <1>2 DEF TablesInv

LEMMA SegmentsApart ==
    ASSUME StorageInv, NEW u \in Users, NEW w \in Users, as[u] # 0, as[u] = as[w]
    PROVE  u = w
<1>1. TablesInv
    BY DEF StorageInv
<1> QED BY <1>1 DEF TablesInv

LEMMA KindsApart ==
    ASSUME StorageInv, NEW u \in Users, NEW w \in Users, as[u] # 0, as[w] # 0,
           NEW sx \in SXs
    PROVE  TableOf(u, sx) # as[w]
<1>1. TablesInv
    BY DEF StorageInv
<1> QED BY <1>1 DEF TablesInv

LEMMA TablesApart ==
    ASSUME StorageInv, NEW u \in Users, NEW w \in Users, as[u] # 0, as[w] # 0,
           NEW sx \in SXs, NEW sy \in SXs,
           TableOf(u, sx) # 0, TableOf(u, sx) = TableOf(w, sy)
    PROVE  u = w /\ sx = sy
<1>1. TablesInv
    BY DEF StorageInv
<1> QED BY <1>1, ZenonT(60) DEF TablesInv

\* What FramesInv says of two pages.
LEMMA PagesApart ==
    ASSUME StorageInv, NEW u \in Users, NEW w \in Users,
           NEW i \in 1..Len(guest_pages[u]), NEW j \in 1..Len(guest_pages[w])
    PROVE  /\ guest_pages[u][i] \in Frames /\ guest_pages[u][i] \notin free
           /\ tables[guest_pages[u][i]] = NoTable
           /\ guest_pages[u][i] = guest_pages[w][j] => u = w /\ i = j
<1>1. FramesInv /\ guest_pages[u] \in Seq(Frames)
    BY DEF StorageInv, StorageType
<1>2. guest_pages[u][i] \in Frames
    BY <1>1, ElementOfSeq
<1> QED BY <1>1, <1>2 DEF FramesInv

\* What one turn of alloc_guest_storage does: it takes a frame p for the page,
\* and seg and pt are the tables it goes through, taken where they are missing.
Inserted(u, p, seg, pt) ==
    LET sx == SX(NextPage(u))
        px == PX(NextPage(u))
    IN  /\ p \in free /\ seg \in Frames /\ pt \in Frames
        /\ p # seg /\ p # pt /\ seg # pt
        /\ IF as[u] = 0 THEN seg \in free ELSE seg = as[u]
        /\ IF as[u] = 0 \/ TableOf(u, sx) = 0 THEN pt \in free ELSE pt = TableOf(u, sx)
        /\ free' = free \ {p, seg, pt}
        /\ as' = [as EXCEPT ![u] = seg]
        /\ guest_pages' = [guest_pages EXCEPT ![u] = <<p>> \o @]
        /\ tables' \in [Frames -> {NoTable} \cup SegmentTable \cup PageTables]
        /\ \A f \in Frames \ {seg, pt} : tables'[f] = tables[f]
        /\ tables'[seg] \in SegmentTable /\ tables'[seg][sx] = pt
        /\ \A sy \in SXs \ {sx} :
             tables'[seg][sy] = IF as[u] = 0 THEN 0 ELSE TableOf(u, sy)
        /\ tables'[pt] \in PageTables /\ tables'[pt][px] = p
        /\ \A py \in PXs \ {px} :
             tables'[pt][py] = IF as[u] = 0 \/ TableOf(u, sx) = 0 THEN 0
                               ELSE tables[pt][py]

LEMMA InsertEffect ==
    ASSUME StorageInv, NEW u \in Users, NextPage(u) \in Nat, alloc_guest_storage(u)
    PROVE  \E p, seg, pt : Inserted(u, p, seg, pt)
<1> DEFINE p == alloc_pages(free)
           pool == free \ {p}
           virt == NextPage(u) * PAGE
           sx == SX(NextPage(u))
           px == PX(NextPage(u))
           seg == IF NeedsSegment(u) THEN alloc_pages(pool) ELSE as[u]
           segment == IF NeedsSegment(u) THEN alloc_table(NSX) ELSE tables[seg]
           pt == IF NeedsTable(u, sx) THEN alloc_pages(pool \ {seg}) ELSE segment[sx]
           page == IF NeedsTable(u, sx) THEN alloc_table(NPX) ELSE tables[pt]
<1>1. DAT_SX(virt) = sx /\ DAT_PX(virt) = px
    BY PageStart
<1>2. sx \in SXs /\ px \in PXs
    BY SlotType
<1>3. p \in free /\ free \subseteq Frames
    BY AllocPages DEF alloc_guest_storage, StorageInv, StorageType
<1>4. /\ NeedsSegment(u) => pool # {}
      /\ NeedsTable(u, sx) => pool \ {seg} # {}
      /\ free' = pool \ {seg, pt}
      /\ tables' = [tables EXCEPT ![seg] = [segment EXCEPT ![sx] = pt],
                                  ![pt] = [page EXCEPT ![px] = p]]
      /\ as' = [as EXCEPT ![u] = seg]
      /\ guest_pages' = [guest_pages EXCEPT ![u] = <<p>> \o @]
    BY <1>1, Zenon DEF alloc_guest_storage, dat_insert_page
<1> HIDE DEF p
<1>5. /\ IF as[u] = 0 THEN seg \in free ELSE seg = as[u]
      /\ seg \in Frames /\ seg # p
  <2>1. CASE as[u] = 0
      BY <1>3, <1>4, <2>1, AllocPages DEF NeedsSegment
  <2>2. CASE as[u] # 0
      BY <1>3, <2>2, SegmentOf DEF NeedsSegment
  <2> QED BY <2>1, <2>2
<1>6. /\ segment \in SegmentTable
      /\ \A sy \in SXs : segment[sy] = IF as[u] = 0 THEN 0 ELSE TableOf(u, sy)
  <2>1. CASE as[u] = 0
      BY <2>1, TableKinds DEF NeedsSegment, alloc_table, SXs
  <2>2. CASE as[u] # 0
      BY <2>2 DEF NeedsSegment, StorageInv, TablesInv, TableOf
  <2> QED BY <2>1, <2>2
<1> HIDE DEF seg, segment
<1>7. /\ IF as[u] = 0 \/ TableOf(u, sx) = 0 THEN pt \in free ELSE pt = TableOf(u, sx)
      /\ pt \in Frames /\ pt # p /\ pt # seg
  <2>1. CASE as[u] = 0 \/ TableOf(u, sx) = 0
    <3>1. pt \in pool \ {seg}
        BY <1>4, <2>1, AllocPages DEF NeedsSegment, NeedsTable, TableOf
    <3> QED BY <3>1, <2>1, <1>3
  <2>2. CASE as[u] # 0 /\ TableOf(u, sx) # 0
    <3>1. pt = TableOf(u, sx)
        BY <2>2, <1>2, <1>6 DEF NeedsSegment, NeedsTable, TableOf
    <3>2. TableOf(u, sx) \notin free /\ TableOf(u, sx) # as[u]
        BY <2>2, <1>2 DEF StorageInv, TablesInv
    <3>3. TableOf(u, sx) \in Frames
      <4>1. tables[as[u]] \in SegmentTable
          BY <2>2 DEF StorageInv, TablesInv
      <4> QED BY <4>1, <2>2, <1>2 DEF TableOf, SegmentTable
    <3> HIDE DEF pt
    <3> QED BY <3>1, <3>2, <3>3, <2>2, <1>3, <1>5
  <2> QED BY <2>1, <2>2
<1>8. /\ page \in PageTables
      /\ \A py \in PXs :
           page[py] = IF as[u] = 0 \/ TableOf(u, sx) = 0 THEN 0 ELSE tables[pt][py]
  <2>1. CASE as[u] = 0 \/ TableOf(u, sx) = 0
      BY <2>1, TableKinds DEF NeedsSegment, NeedsTable, TableOf, alloc_table, PXs
  <2>2. CASE as[u] # 0 /\ TableOf(u, sx) # 0
    <3>1. pt = TableOf(u, sx) /\ page = tables[pt]
        BY <2>2, <1>7 DEF NeedsSegment, NeedsTable, TableOf
    <3>2. tables[TableOf(u, sx)] \in PageTables
        BY <2>2, <1>2 DEF StorageInv, TablesInv
    <3> HIDE DEF pt, page
    <3> QED BY <3>1, <3>2, <2>2
  <2> QED BY <2>1, <2>2
<1> HIDE DEF pt, page, sx, px
<1>9. /\ tables' \in [Frames -> {NoTable} \cup SegmentTable \cup PageTables]
      /\ \A f \in Frames \ {seg, pt} : tables'[f] = tables[f]
      /\ tables'[seg] = [segment EXCEPT ![sx] = pt]
      /\ tables'[pt] = [page EXCEPT ![px] = p]
  <2>1. [segment EXCEPT ![sx] = pt] \in SegmentTable
      BY <1>6, <1>7 DEF SegmentTable
  <2>2. [page EXCEPT ![px] = p] \in PageTables
      BY <1>8, <1>3 DEF PageTables
  <2> QED BY <1>4, <1>5, <1>7, <2>1, <2>2 DEF StorageInv, StorageType
<1>10. /\ tables'[seg] \in SegmentTable /\ tables'[seg][sx] = pt
       /\ \A sy \in SXs \ {sx} :
             tables'[seg][sy] = IF as[u] = 0 THEN 0 ELSE TableOf(u, sy)
    BY <1>2, <1>6, <1>7, <1>9 DEF SegmentTable
<1>11. /\ tables'[pt] \in PageTables /\ tables'[pt][px] = p
       /\ \A py \in PXs \ {px} :
             tables'[pt][py] = IF as[u] = 0 \/ TableOf(u, sx) = 0 THEN 0
                               ELSE tables[pt][py]
    BY <1>2, <1>3, <1>8, <1>9 DEF PageTables
<1>12. free' = free \ {p, seg, pt}
    BY <1>4
<1> QED BY <1>3, <1>4, <1>5, <1>7, <1>9, <1>10, <1>11, <1>12 DEF Inserted, sx, px

\* A turn of alloc_guest_storage leaves the tables of everyone else alone, and
\* maps one more page of the user.
LEMMA InsertKeepsStorage ==
    ASSUME StorageInv, NEW u \in Users, NextPage(u) \in Nat,
           as[u] = 0 <=> Len(guest_pages[u]) = 0,
           NEW p, NEW seg, NEW pt, Inserted(u, p, seg, pt),
           UNCHANGED <<mem, cr1>>
    PROVE  StorageInv'
<1> DEFINE n == NextPage(u)
           sx == SX(n)
           px == PX(n)
           L == Len(guest_pages[u])
<1>1. sx \in SXs /\ px \in PXs
    BY SlotType
<1>2. /\ p \in free /\ seg \in Frames /\ pt \in Frames
      /\ p # seg /\ p # pt /\ seg # pt
    BY DEF Inserted
<1>2a. /\ as[u] = 0 => seg \in free
       /\ as[u] # 0 => seg = as[u]
    BY DEF Inserted
<1>2b. /\ as[u] = 0 \/ TableOf(u, sx) = 0 => pt \in free
       /\ as[u] # 0 /\ TableOf(u, sx) # 0 => pt = TableOf(u, sx)
    BY DEF Inserted
<1>2c. /\ free' = free \ {p, seg, pt}
       /\ as' = [as EXCEPT ![u] = seg]
       /\ guest_pages' = [guest_pages EXCEPT ![u] = <<p>> \o @]
    BY DEF Inserted
<1>2d. /\ tables' \in [Frames -> {NoTable} \cup SegmentTable \cup PageTables]
       /\ \A f \in Frames \ {seg, pt} : tables'[f] = tables[f]
    BY DEF Inserted
<1>2e. /\ tables'[seg] \in SegmentTable /\ tables'[seg][sx] = pt
       /\ \A sy \in SXs \ {sx} :
            tables'[seg][sy] = IF as[u] = 0 THEN 0 ELSE TableOf(u, sy)
    BY DEF Inserted
<1>2f. /\ tables'[pt] \in PageTables /\ tables'[pt][px] = p
       /\ \A py \in PXs \ {px} :
            tables'[pt][py] = IF as[u] = 0 \/ TableOf(u, sx) = 0 THEN 0
                              ELSE tables[pt][py]
    BY DEF Inserted
<1> HIDE DEF sx, px, n
<1>3. /\ 0 \notin Frames /\ free \subseteq Frames /\ as \in [Users -> Frames \cup {0}]
      /\ as'[u] = seg /\ \A w \in Users \ {u} : as'[w] = as[w]
  <2>1. 0 \notin Frames
      BY FrameAssumption DEF Frames
  <2>2. free \subseteq Frames /\ as \in [Users -> Frames \cup {0}]
      BY DEF StorageInv, StorageType
  <2> QED BY <2>1, <2>2, <1>2c
<1>4. ASSUME NEW w \in Users, as[w] # 0, w # u
      PROVE  as[w] \in Frames \ {seg, pt}
  <2>1. as[w] # seg
      BY <1>2a, <1>4, SegmentOf, SegmentsApart
  <2>2. as[w] # pt
    <3>1. as[u] # 0 => TableOf(u, sx) # as[w]
        BY <1>1, <1>4, KindsApart
    <3> QED BY <3>1, <1>2b, <1>4, SegmentOf
  <2> QED BY <2>1, <2>2, <1>4, SegmentOf
<1>5. ASSUME NEW w \in Users, as[w] # 0, NEW sy \in SXs,
             ~(w = u /\ sy = sx), TableOf(w, sy) # 0
      PROVE  TableOf(w, sy) \in Frames \ {seg, pt}
  <2>1. TableOf(w, sy) \in Frames /\ TableOf(w, sy) \notin free
      BY <1>5, PageTableOf
  <2>2. TableOf(w, sy) # seg
    <3>1. as[u] # 0 => TableOf(w, sy) # as[u]
        BY <1>5, KindsApart
    <3> QED BY <3>1, <2>1, <1>2a
  <2>3. TableOf(w, sy) # pt
    <3>1. ASSUME as[u] # 0, TableOf(u, sx) = TableOf(w, sy) PROVE FALSE
      <4>1. w = u /\ sy = sx
        <5>1. TableOf(u, sx) # 0 /\ TableOf(u, sx) = TableOf(w, sy) /\ as[u] # 0
              /\ as[w] # 0 /\ sx \in SXs /\ sy \in SXs
            BY <3>1, <1>1, <1>5
        <5>2. TablesInv
            BY DEF StorageInv
        <5> QED BY <5>1, <5>2, ZenonT(60) DEF TablesInv
      <4> QED BY <4>1, <1>5
    <3> QED BY <3>1, <2>1, <1>2b
  <2> QED BY <2>1, <2>2, <2>3
\* The tables that the turn leaves, in terms of those it found.
<1>6. ASSUME NEW w \in Users, as'[w] # 0, NEW sy \in SXs
      PROVE  \/ w = u /\ sy = sx /\ tables'[as'[w]][sy] = pt
             \/ w = u /\ sy # sx /\ as[u] = 0 /\ tables'[as'[w]][sy] = 0
             \/ /\ ~(w = u /\ sy = sx) /\ as[w] # 0
                /\ tables'[as'[w]][sy] = TableOf(w, sy)
                /\ TableOf(w, sy) # 0 => tables'[TableOf(w, sy)] = tables[TableOf(w, sy)]
  <2>1. CASE w = u /\ sy = sx
      BY <2>1, <1>2e, <1>3
  <2>2. CASE w = u /\ sy # sx
      BY <2>2, <1>2d, <1>2e, <1>3, <1>5
  <2>3. CASE w # u
    <3>1. as[w] # 0 /\ as'[w] = as[w]
        BY <2>3, <1>3, <1>6
    <3>2. tables'[as[w]] = tables[as[w]]
        BY <2>3, <3>1, <1>2d, <1>4
    <3>3. TableOf(w, sy) # 0 => tables'[TableOf(w, sy)] = tables[TableOf(w, sy)]
        BY <2>3, <3>1, <1>2d, <1>5
    <3> QED BY <2>3, <3>1, <3>2, <3>3 DEF TableOf
  <2> QED BY <2>1, <2>2, <2>3
<1>7. guest_pages' \in [Users -> Seq(Frames)]
  <2>1. <<p>> \in Seq(Frames) /\ guest_pages[u] \in Seq(Frames)
      BY <1>2, <1>3 DEF StorageInv, StorageType
  <2>2. <<p>> \o guest_pages[u] \in Seq(Frames)
      BY <2>1, ConcatProperties
  <2> QED BY <1>2c, <2>2 DEF StorageInv, StorageType
<1>8. /\ L \in Nat /\ Len(guest_pages'[u]) = L + 1 /\ guest_pages'[u][1] = p
      /\ \A i \in 2..(L + 1) : guest_pages'[u][i] = guest_pages[u][i - 1]
      /\ \A w \in Users \ {u} : guest_pages'[w] = guest_pages[w]
  <2>1. /\ <<p>> \in Seq(Frames) /\ guest_pages[u] \in Seq(Frames)
        /\ Len(<<p>>) = 1 /\ <<p>>[1] = p
      BY <1>2, <1>3 DEF StorageInv, StorageType
  <2>2. L \in Nat
      BY <2>1, LenProperties
  <2>3. /\ Len(<<p>> \o guest_pages[u]) = 1 + L
        /\ \A i \in 1..(1 + L) : (<<p>> \o guest_pages[u])[i] =
             IF i <= 1 THEN <<p>>[i] ELSE guest_pages[u][i - 1]
      BY <2>1, ConcatProperties
  <2>4. guest_pages'[u] = <<p>> \o guest_pages[u]
        /\ \A w \in Users \ {u} : guest_pages'[w] = guest_pages[w]
      BY <1>2c DEF StorageInv, StorageType
  <2> QED BY <2>1, <2>2, <2>3, <2>4
<1>8a. L \in Nat /\ Len(guest_pages'[u]) = L + 1 /\ guest_pages'[u][1] = p
    BY <1>8
<1>9. StorageType'
    BY <1>2, <1>2c, <1>2d, <1>3, <1>7 DEF StorageInv, StorageType
<1>10. TablesInv'
  <2> SUFFICES ASSUME NEW v \in Users, as'[v] # 0
        PROVE  /\ as'[v] \notin free' /\ tables'[as'[v]] \in SegmentTable
               /\ \A sy \in SXs : tables'[as'[v]][sy] # 0 =>
                    /\ tables'[as'[v]][sy] \notin free'
                    /\ tables'[tables'[as'[v]][sy]] \in PageTables
               /\ \A w \in Users : as'[w] # 0 =>
                    /\ as'[v] = as'[w] => v = w
                    /\ \A sy \in SXs :
                         /\ tables'[as'[v]][sy] # as'[w]
                         /\ \A sz \in SXs :
                              tables'[as'[v]][sy] # 0
                                /\ tables'[as'[v]][sy] = tables'[as'[w]][sz]
                                   => v = w /\ sy = sz
      BY DEF TablesInv, TableOf
  <2>1. \A w \in Users : as'[w] # 0 /\ w # u => as[w] # 0 /\ as'[w] = as[w]
      BY <1>3
  <2>2. as'[v] \notin free' /\ tables'[as'[v]] \in SegmentTable
    <3>1. CASE v = u
        BY <3>1, <1>2c, <1>2e, <1>3
    <3>2. CASE v # u
      <4>1. as[v] # 0 /\ as'[v] = as[v] /\ as[v] \in Frames \ {seg, pt}
          BY <3>2, <2>1, <1>4
      <4>2. as[v] \notin free /\ tables[as[v]] \in SegmentTable
          BY <4>1, SegmentOf
      <4>3. as[v] \notin free'
          BY <4>2, <1>2c
      <4>4. tables'[as[v]] = tables[as[v]]
          BY <4>1, <1>2d
      <4> QED BY <4>1, <4>2, <4>3, <4>4
    <3> QED BY <3>1, <3>2
  <2>3. ASSUME NEW sy \in SXs, tables'[as'[v]][sy] # 0
        PROVE  /\ tables'[as'[v]][sy] \notin free'
               /\ tables'[tables'[as'[v]][sy]] \in PageTables
    <3>1. CASE tables'[as'[v]][sy] = pt
        BY <3>1, <1>2c, <1>2f
    <3>2. CASE /\ as[v] # 0 /\ tables'[as'[v]][sy] = TableOf(v, sy)
               /\ TableOf(v, sy) # 0 => tables'[TableOf(v, sy)] = tables[TableOf(v, sy)]
      <4>1. TableOf(v, sy) \notin free /\ tables[TableOf(v, sy)] \in PageTables
          BY <3>2, <2>3, PageTableOf
      <4> QED BY <4>1, <3>2, <2>3, <1>2c
    <3> QED BY <3>1, <3>2, <2>3, <1>6
  <2>4. ASSUME NEW w \in Users, as'[w] # 0, as'[v] = as'[w]
        PROVE  v = w
    <3>1. CASE v # u /\ w # u
        BY <3>1, <2>1, <2>4, SegmentsApart
    <3>2. CASE v = u \/ w = u
        BY <3>2, <2>1, <2>4, <1>3, <1>4
    <3> QED BY <3>1, <3>2
  <2>5. ASSUME NEW w \in Users, as'[w] # 0, NEW sy \in SXs
        PROVE  tables'[as'[v]][sy] # as'[w]
    <3>1. CASE tables'[as'[v]][sy] = pt
        BY <3>1, <2>1, <2>5, <1>2, <1>3, <1>4
    <3>2. CASE tables'[as'[v]][sy] = 0
        BY <3>2, <2>5
    <3>3. CASE /\ ~(v = u /\ sy = sx) /\ as[v] # 0
               /\ tables'[as'[v]][sy] = TableOf(v, sy) /\ TableOf(v, sy) # 0
      <4>1. CASE w = u
          BY <4>1, <3>3, <1>3, <1>5
      <4>2. CASE w # u
          BY <4>2, <3>3, <2>1, <2>5, KindsApart
      <4> QED BY <4>1, <4>2
    <3> QED BY <3>1, <3>2, <3>3, <1>6
  <2>6. ASSUME NEW w \in Users, as'[w] # 0,
               NEW sy \in SXs, NEW sz \in SXs,
               tables'[as'[v]][sy] # 0, tables'[as'[v]][sy] = tables'[as'[w]][sz]
        PROVE  v = w /\ sy = sz
    <3> DEFINE Fresh(x, y) == x = u /\ y = sx
    <3>1. ASSUME NEW x \in Users, NEW y \in SXs, as'[x] # 0, ~Fresh(x, y),
                 tables'[as'[x]][y] # 0
          PROVE  /\ as[x] # 0 /\ TableOf(x, y) = tables'[as'[x]][y]
                 /\ TableOf(x, y) # pt
      <4>1. /\ as[x] # 0 /\ TableOf(x, y) = tables'[as'[x]][y]
          BY <3>1, <1>6
      <4> QED BY <4>1, <3>1, <1>5
    <3>2. tables'[as'[u]][sx] = pt
        BY <1>2e, <1>3
    <3> HIDE DEF Fresh
    <3>3. CASE Fresh(v, sy) /\ Fresh(w, sz)
        BY <3>3 DEF Fresh
    <3>4. CASE Fresh(v, sy) /\ ~Fresh(w, sz)
      <4>1. tables'[as'[v]][sy] = pt
          BY <3>2, <3>4 DEF Fresh
      <4> QED BY <4>1, <3>1, <3>4, <2>6
    <3>5. CASE ~Fresh(v, sy) /\ Fresh(w, sz)
      <4>1. tables'[as'[w]][sz] = pt
          BY <3>2, <3>5 DEF Fresh
      <4> QED BY <4>1, <3>1, <3>5, <2>6
    <3>6. CASE ~Fresh(v, sy) /\ ~Fresh(w, sz)
      <4>1. as[v] # 0 /\ TableOf(v, sy) = tables'[as'[v]][sy]
          BY <3>1, <3>6, <2>6
      <4>2. as[w] # 0 /\ TableOf(w, sz) = tables'[as'[w]][sz]
          BY <3>1, <3>6, <2>6
      <4>3. TableOf(v, sy) # 0 /\ TableOf(v, sy) = TableOf(w, sz)
          BY <4>1, <4>2, <2>6
      <4> QED BY <4>1, <4>2, <4>3, TablesApart, ZenonT(60)
    <3> QED BY <3>3, <3>4, <3>5, <3>6
  <2> QED BY <2>2, <2>3, <2>4, <2>5, <2>6
<1>11. FramesInv'
  <2>1. \A f \in free' : tables'[f] = NoTable
      BY <1>2c, <1>2d, <1>3 DEF StorageInv, FramesInv
  <2>2. tables'[p] = NoTable /\ p \notin free'
      BY <1>2, <1>2c, <1>2d, <1>3 DEF StorageInv, FramesInv
  <2>3. ASSUME NEW v \in Users, NEW i \in 1..Len(guest_pages[v])
        PROVE  LET f == guest_pages[v][i]
               IN  f \notin free' /\ tables'[f] = NoTable /\ f # p
    <3> DEFINE f == guest_pages[v][i]
    <3>1. f \in Frames /\ f \notin free /\ tables[f] = NoTable
      <4>1. guest_pages[v] \in Seq(Frames)
          BY DEF StorageInv, StorageType
      <4> QED BY <4>1, ElementOfSeq DEF StorageInv, FramesInv
    <3> HIDE DEF f
    <3>2. f # seg
        BY <3>1, <1>2a, TableKinds, SegmentOf
    <3>3. f # pt
      <4>1. CASE as[u] = 0 \/ TableOf(u, sx) = 0
          BY <4>1, <3>1, <1>2b
      <4>2. CASE as[u] # 0 /\ TableOf(u, sx) # 0
          BY <4>2, <3>1, <1>1, <1>2b, TableKinds, PageTableOf
      <4> QED BY <4>1, <4>2
    <3>4. f \notin free' /\ tables'[f] = NoTable /\ f # p
        BY <3>1, <3>2, <3>3, <1>2, <1>2c, <1>2d
    <3> QED BY <3>4 DEF f
  <2>4. ASSUME NEW v \in Users, NEW i \in 1..Len(guest_pages'[v])
        PROVE  \/ v = u /\ i = 1 /\ guest_pages'[v][i] = p
               \/ /\ (IF v = u THEN i - 1 ELSE i) \in 1..Len(guest_pages[v])
                  /\ guest_pages'[v][i] = guest_pages[v][IF v = u THEN i - 1 ELSE i]
    <3>1. CASE v = u /\ i = 1
        BY <3>1, <1>8
    <3>2. CASE v = u /\ i # 1
      <4>1. i \in 2..(L + 1) /\ i - 1 \in 1..L
          BY <3>2, <1>8
      <4> QED BY <4>1, <3>2, <1>8
    <3>3. CASE v # u
        BY <3>3, <1>8
    <3> QED BY <3>1, <3>2, <3>3
  <2>5. ASSUME NEW v \in Users, NEW i \in 1..Len(guest_pages'[v])
        PROVE  guest_pages'[v][i] \notin free' /\ tables'[guest_pages'[v][i]] = NoTable
      BY <2>2, <2>3, <2>4, SMTT(40)
  <2>6. ASSUME NEW v \in Users, NEW i \in 1..Len(guest_pages'[v]),
               NEW w \in Users, NEW j \in 1..Len(guest_pages'[w]),
               guest_pages'[v][i] = guest_pages'[w][j]
        PROVE  v = w /\ i = j
    <3> DEFINE i0 == IF v = u THEN i - 1 ELSE i
               j0 == IF w = u THEN j - 1 ELSE j
    <3>1. CASE v = u /\ i = 1 /\ guest_pages'[v][i] = p
      <4>1. \A k \in 1..Len(guest_pages[w]) : guest_pages[w][k] # p
          BY <2>3
      <4> QED BY <4>1, <3>1, <2>4, <2>6
    <3>2. CASE w = u /\ j = 1 /\ guest_pages'[w][j] = p
      <4>1. \A k \in 1..Len(guest_pages[v]) : guest_pages[v][k] # p
          BY <2>3
      <4> QED BY <4>1, <3>2, <2>4, <2>6
    <3>3. CASE /\ i0 \in 1..Len(guest_pages[v]) /\ guest_pages'[v][i] = guest_pages[v][i0]
               /\ j0 \in 1..Len(guest_pages[w]) /\ guest_pages'[w][j] = guest_pages[w][j0]
      <4> HIDE DEF i0, j0
      <4>1. v = w /\ i0 = j0
        <5>1. guest_pages[v][i0] = guest_pages[w][j0]
            BY <3>3, <2>6
        <5>2. i0 \in 1..Len(guest_pages[v]) /\ j0 \in 1..Len(guest_pages[w])
            BY <3>3
        <5> QED BY ONLY StorageInv, v \in Users, w \in Users, <5>1, <5>2, PagesApart
      <4> QED BY <4>1 DEF i0, j0
    <3> QED BY <3>1, <3>2, <3>3, <2>4
  <2> QED BY <2>1, <2>5, <2>6 DEF FramesInv
<1>12. MappingInv'
  <2> SUFFICES ASSUME NEW v \in Users, as'[v] # 0
        PROVE  /\ \A i \in Present(v)' : i < Reached =>
                    /\ tables'[as'[v]][SX(i)] # 0
                    /\ tables'[tables'[as'[v]][SX(i)]][PX(i)] = FrameOf(v, i)'
               /\ \A sy \in SXs, py \in PXs :
                    tables'[as'[v]][sy] # 0 /\ tables'[tables'[as'[v]][sy]][py] # 0
                        => \E i \in Present(v)' : SX(i) = sy /\ PX(i) = py
      BY DEF MappingInv, TableOf
  <2>1. CASE v # u
    <3>1. as[v] # 0
        BY <2>1, <1>2, <1>3
    <3>2. Present(v)' = Present(v) /\ \A i \in Present(v) : FrameOf(v, i)' = FrameOf(v, i)
        BY <2>1, <1>8 DEF Present, First, FrameOf
    <3>3. \A i \in Present(v) : SX(i) \in SXs
      <4>1. Len(guest_pages[v]) \in Nat
          BY LenProperties DEF StorageInv, StorageType
      <4> QED BY <4>1, TableAssumption, DirectoryAssumption DEF SX, SXs, Present, First
    <3>4. \A sy \in SXs :
             /\ tables'[as'[v]][sy] = TableOf(v, sy)
             /\ TableOf(v, sy) # 0 => tables'[TableOf(v, sy)] = tables[TableOf(v, sy)]
        BY <2>1, <1>6
    <3>5. MappingInv
        BY DEF StorageInv
    <3>6. ASSUME NEW i \in Present(v), i < Reached
          PROVE  /\ tables'[as'[v]][SX(i)] # 0
                 /\ tables'[tables'[as'[v]][SX(i)]][PX(i)] = FrameOf(v, i)
      <4>1. TableOf(v, SX(i)) # 0 /\ tables[TableOf(v, SX(i))][PX(i)] = FrameOf(v, i)
          BY <3>1, <3>5, <3>6 DEF MappingInv
      <4> QED BY <4>1, <3>3, <3>4
    <3>7. ASSUME NEW sy \in SXs, NEW py \in PXs,
                 tables'[as'[v]][sy] # 0, tables'[tables'[as'[v]][sy]][py] # 0
          PROVE  \E i \in Present(v) : SX(i) = sy /\ PX(i) = py
      <4>1. TableOf(v, sy) # 0 /\ tables[TableOf(v, sy)][py] # 0
          BY <3>4, <3>7
      <4> QED BY <4>1, <3>1, <3>5 DEF MappingInv
    <3> QED BY <3>2, <3>6, <3>7
  <2>2. CASE v = u
    <3> DEFINE S == Directory[u].storage
    <3>0. S \in Nat /\ n \in Nat /\ L \in Nat /\ n = S - L - 1
        BY <1>8a, DirectoryAssumption DEF n, NextPage
    <3>1. /\ Len(guest_pages'[u]) = L + 1 /\ guest_pages'[u][1] = p
          /\ First(u) = S - L /\ First(u)' = S - (L + 1)
          /\ Present(u) = First(u)..(S - 1) /\ Present(u)' = First(u)'..(S - 1)
        BY <1>8a DEF Present, First
    <3>1a. \A i \in 2..(L + 1) : guest_pages'[u][i] = guest_pages[u][i - 1]
        BY <1>8
    <3>1b. L = 0 => as[u] = 0
        OBVIOUS
    <3> HIDE DEF S, L
    <3>2. First(u) = n + 1 /\ First(u)' = n
        BY <3>0, <3>1
    <3>2a. Present(u) = (n + 1)..(S - 1) /\ Present(u)' = n..(S - 1)
        BY <3>1, <3>2
    <3>3. ASSUME NEW i, i = n PROVE FrameOf(u, i)' = p
      <4>1. n - n + 1 = 1
          BY <3>0
      <4>2. FrameOf(u, i)' = guest_pages'[u][n - First(u)' + 1]
          BY <3>3 DEF FrameOf
      <4> QED BY <4>1, <4>2, <3>1, <3>2
    <3>4. \A i \in (n + 1)..(S - 1) : FrameOf(u, i)' = FrameOf(u, i)
      <4> TAKE i \in (n + 1)..(S - 1)
      <4>1. i \in Int /\ n + 1 <= i /\ i <= S - 1
          BY <3>0
      <4>2. /\ i - n + 1 \in 2..(L + 1) /\ (i - n + 1) - 1 = i - n
            /\ i - (n + 1) + 1 = i - n
          BY <4>1, <3>0
      <4>3. FrameOf(u, i)' = guest_pages'[u][i - n + 1]
          BY <3>2 DEF FrameOf
      <4>4. FrameOf(u, i) = guest_pages[u][i - n]
          BY <3>2, <4>2 DEF FrameOf
      <4> QED BY <4>2, <4>3, <4>4, <3>1a
    <3>5. ASSUME NEW i \in n..(S - 1), i < Reached
          PROVE  /\ tables'[as'[u]][SX(i)] # 0
                 /\ tables'[tables'[as'[u]][SX(i)]][PX(i)] = FrameOf(u, i)'
      <4>1. CASE i = n
        <5>1. SX(i) = sx /\ PX(i) = px
            BY <4>1 DEF sx, px
        <5>2. tables'[as'[u]][SX(i)] = pt /\ pt # 0 /\ tables'[pt][PX(i)] = p
            BY <5>1, <1>2, <1>3, <1>2e, <1>2f
        <5> QED BY <5>2, <4>1, <3>3
      <4>2. CASE i # n
        <5>1. i \in (n + 1)..(S - 1) /\ i \in Nat /\ SX(i) \in SXs /\ PX(i) \in PXs
            BY <4>2, <3>0, SlotType
        <5>2. as[u] # 0
          <6>1. L # 0
              BY <5>1, <3>0
          <6> QED BY <6>1 DEF L
        <5>3. /\ TableOf(u, SX(i)) # 0
              /\ tables[TableOf(u, SX(i))][PX(i)] = FrameOf(u, i)
            BY <5>1, <5>2, <3>2a, <3>5 DEF StorageInv, MappingInv
        <5>4. CASE SX(i) = sx
          <6>1. PX(i) # px
            <7>1. n \in Nat /\ i \in Nat /\ n < i
                BY <5>1, <3>0
            <7>2. Reached \in Nat
                BY TableAssumption DEF Reached
            <7>3. n < Reached
                BY <7>1, <7>2, <3>5
            <7> QED BY <7>1, <7>3, <5>4, <3>5, SlotsDistinct DEF sx, px
          <6>2. pt = TableOf(u, sx) /\ tables'[pt][PX(i)] = tables[pt][PX(i)]
              BY <6>1, <5>1, <5>2, <5>3, <5>4, <1>2b, <1>2f
          <6> QED BY <6>2, <5>1, <5>3, <5>4, <3>4, <1>2, <1>2e, <1>3
        <5>5. CASE SX(i) # sx
          <6>1. as'[u] # 0
              BY <2>2
          <6>2. /\ tables'[as'[u]][SX(i)] = TableOf(u, SX(i))
                /\ tables'[TableOf(u, SX(i))] = tables[TableOf(u, SX(i))]
              BY <6>1, <5>1, <5>2, <5>3, <5>5, <1>6
          <6> QED BY <6>2, <5>1, <5>3, <3>4
        <5> QED BY <5>4, <5>5
      <4> QED BY <4>1, <4>2
    <3>6. ASSUME NEW sy \in SXs, NEW py \in PXs,
                 tables'[as'[u]][sy] # 0, tables'[tables'[as'[u]][sy]][py] # 0
          PROVE  \E i \in n..(S - 1) : SX(i) = sy /\ PX(i) = py
      <4>1. CASE sy = sx /\ py = px
        <5>1. n \in n..(S - 1)
            BY <3>0, <1>8a
        <5> QED BY <5>1, <4>1 DEF sx, px
      <4>2. CASE ~(sy = sx /\ py = px)
        <5>1. as[u] # 0 /\ TableOf(u, sy) # 0 /\ tables[TableOf(u, sy)][py] # 0
          <6>1. CASE sy = sx
              BY <6>1, <4>2, <3>6, <1>2b, <1>2e, <1>2f, <1>3
          <6>2. CASE sy # sx
              BY <6>2, <3>6, <1>6, <2>2
          <6> QED BY <6>1, <6>2
        <5>2. \E i \in (n + 1)..(S - 1) : SX(i) = sy /\ PX(i) = py
          <6>1. MappingInv
              BY DEF StorageInv
          <6>2. \E i \in Present(u) : SX(i) = sy /\ PX(i) = py
              BY <6>1, <5>1 DEF MappingInv
          <6> QED BY <6>2, <3>2a
        <5> QED BY <5>2, <3>0
      <4> QED BY <4>1, <4>2
    <3> QED BY <2>2, <3>2a, <3>5, <3>6
  <2> QED BY <2>1, <2>2
<1> QED BY <1>9, <1>10, <1>11, <1>12 DEF StorageInv

-----------------------------------------------------------------------------
\* Where an address is found.

\* The least of a set of numbers, and the greatest.
LEMMA LeastOf ==
    ASSUME NEW S, S \subseteq Nat, S # {}
    PROVE  \E m \in S : \A k \in S : m <= k
<1> DEFINE R == OpToRel(<, Nat)
<1>1. IsWellFoundedOn(R, Nat)
    BY NatLessThanWellFounded
<1>2. \A x, y \in Nat : <<x, y>> \in R <=> x < y
    BY DEF OpToRel
<1> HIDE DEF R
<1>3. PICK m \in S : \A k \in S : ~(<<k, m>> \in R)
    BY <1>1, WFMin
<1>4. \A k \in S : m <= k
  <2> TAKE k \in S
  <2>1. k \in Nat /\ m \in Nat /\ ~(<<k, m>> \in R)
      BY <1>3
  <2>2. ~(k < m)
      BY <2>1, <1>2
  <2> QED BY <2>1, <2>2
<1> QED BY <1>4

LEMMA GreatestOf ==
    ASSUME NEW n \in Nat, NEW S, S \subseteq 1..n, S # {}
    PROVE  \E m \in S : \A k \in S : k <= m
<1> DEFINE T == {n - k : k \in S}
<1>1. T \subseteq Nat /\ T # {}
  <2>1. \A k \in S : n - k \in Nat
      OBVIOUS
  <2> QED BY <2>1
<1>2. PICK x \in T : \A y \in T : x <= y
    BY <1>1, LeastOf
<1>3. PICK m \in S : x = n - m
    OBVIOUS
<1>4. \A k \in S : k <= m
  <2> TAKE k \in S
  <2>1. n - k \in T /\ x <= n - k /\ k \in 1..n /\ m \in 1..n
      BY <1>2
  <2> QED BY <2>1, <1>3
<1> QED BY <1>4

\* Translation, for a user whose storage is complete: a page of the storage that
\* the tables reach is found in its frame, and nothing else is found.
LEMMA TranslateOwn ==
    ASSUME StorageInv, NEW u \in Users, as[u] # 0,
           Len(guest_pages[u]) = Directory[u].storage, NEW a \in Int
    PROVE  Translate(as[u], a) =
             IF a >= 0 /\ a \div PAGE < Len(guest_pages[u]) /\ a < LIMIT
             THEN guest_pages[u][a \div PAGE + 1] * PAGE + (a % PAGE)
             ELSE FAULT
<1>0. LIMIT \in Nat
    BY PageAssumption, TableAssumption DEF LIMIT
<1>1. CASE a < 0 \/ a >= LIMIT
  <2>1. Translate(as[u], a) = FAULT
      BY <1>1, Zenon DEF Translate
  <2>2. ~(a >= 0 /\ a < LIMIT)
      BY <1>0, <1>1
  <2> QED BY <2>1, <2>2, Zenon
<1>2. CASE a >= 0 /\ a < LIMIT
  <2> DEFINE i == a \div PAGE
             S == Directory[u].storage
             entry == tables[TableOf(u, SX(i))][PX(i)]
  <2>1. /\ i \in Nat /\ i < Reached /\ DAT_SX(a) = SX(i) /\ DAT_PX(a) = PX(i)
      BY <1>2, Indices
  <2>2. SX(i) \in SXs /\ PX(i) \in PXs
      BY <2>1, SlotType
  <2>3. S \in Nat /\ First(u) = 0 /\ Present(u) = 0..(S - 1)
      BY DirectoryAssumption DEF First, Present
  <2>4. Translate(as[u], a) =
          IF TableOf(u, SX(i)) = 0 \/ entry = 0 THEN FAULT ELSE entry * PAGE + (a % PAGE)
    <3>1. ~(a < 0) /\ ~(a >= LIMIT)
        BY <1>0, <1>2
    <3>2. Translate(as[u], a) =
            IF tables[as[u]][SX(i)] = 0 \/ tables[tables[as[u]][SX(i)]][PX(i)] = 0 THEN FAULT
            ELSE tables[tables[as[u]][SX(i)]][PX(i)] * PAGE + (a % PAGE)
        BY <3>1, <2>1, Zenon DEF Translate, DAT_BX
    <3> QED BY <3>2, Zenon DEF TableOf
  <2>5. MappingInv
      BY DEF StorageInv
  <2>6. CASE i < S
    <3>1. i \in Present(u)
        BY <2>1, <2>3, <2>6
    <3>2. TableOf(u, SX(i)) # 0 /\ entry = FrameOf(u, i)
        BY <3>1, <2>1, <2>5 DEF MappingInv
    <3>3. FrameOf(u, i) = guest_pages[u][i + 1]
        BY <2>1, <2>3 DEF FrameOf
    <3>4. guest_pages[u][i + 1] \in Frames
      <4>1. i + 1 \in 1..Len(guest_pages[u]) /\ guest_pages[u] \in Seq(Frames)
          BY <2>1, <2>3, <2>6 DEF StorageInv, StorageType
      <4> QED BY <4>1, ElementOfSeq
    <3>5. 0 \notin Frames
        BY FrameAssumption DEF Frames
    <3> QED BY <1>2, <2>4, <2>6, <3>2, <3>3, <3>4, <3>5
  <2>7. CASE ~(i < S)
    <3>1. ASSUME TableOf(u, SX(i)) # 0, entry # 0 PROVE FALSE
      <4>1. PICK j \in Present(u) : SX(j) = SX(i) /\ PX(j) = PX(i)
          BY <3>1, <2>2, <2>5 DEF MappingInv
      <4>2. Reached \in Nat
          BY TableAssumption DEF Reached
      <4>3. j \in Nat /\ j < i
          BY <2>1, <2>3, <2>7
      <4>4. j < Reached
          BY <4>2, <4>3, <2>1
      <4>5. j = i
          BY <4>1, <4>3, <4>4, <2>1, SlotsDistinct
      <4> QED BY <4>3, <4>5, <2>1
    <3> QED BY <3>1, <2>4, <2>7
  <2> QED BY <2>6, <2>7
<1>3. (a < 0 \/ a >= LIMIT) \/ (a >= 0 /\ a < LIMIT)
    BY <1>0
<1> QED BY <1>1, <1>2, <1>3, Zenon

\* The bytes of a frame, and whose they are.
LEMMA FrameBytes ==
    ASSUME NEW f \in Frames, NEW b \in 0..(PAGE - 1)
    PROVE  /\ f * PAGE + b \in Addresses
           /\ (f * PAGE + b) \div PAGE = f /\ (f * PAGE + b) % PAGE = b
<1>1. f \in Nat /\ f <= NFrames - 1 /\ b \in Nat /\ b < PAGE
    BY FrameAssumption, PageAssumption DEF Frames
<1>2. (f * PAGE + b) \div PAGE = f /\ (f * PAGE + b) % PAGE = b
    BY <1>1, DivModUnique, PageAssumption
<1>3. f * PAGE <= (NFrames - 1) * PAGE
    BY <1>1, FrameAssumption, PageAssumption
<1>4. (NFrames - 1) * PAGE = NFrames * PAGE - PAGE /\ f * PAGE \in Nat /\ NFrames * PAGE \in Nat
    BY <1>1, FrameAssumption, PageAssumption
<1>5. f * PAGE + b \in Addresses
    BY <1>1, <1>3, <1>4, PageAssumption DEF Addresses
<1> QED BY <1>2, <1>5

\* The bytes that a transfer reaches are all in the page it starts in.
LEMMA TargetInFrame ==
    ASSUME NEW f \in Frames, NEW b \in 0..(PAGE - 1), NEW i \in Nat \ {0}
    PROVE  \E c \in b..(PAGE - 1) :
             Target(f * PAGE + b, i) = f * PAGE + c /\ (i <= PAGE - b => c = b + i - 1)
<1>1. DAT_BX(f * PAGE + b) = b
    BY FrameBytes DEF DAT_BX
<1>2. PAGE - b \in Nat \ {0} /\ i - 1 \in Nat /\ b \in Nat
    BY PageAssumption
<1>3. (i - 1) % (PAGE - b) \in 0..((PAGE - b) - 1)
    BY <1>2, DivMod
<1>4. i <= PAGE - b => (i - 1) % (PAGE - b) = i - 1
    BY <1>2
<1> DEFINE c == b + ((i - 1) % (PAGE - b))
<1>5. c \in b..(PAGE - 1) /\ (i <= PAGE - b => c = b + i - 1)
    BY <1>2, <1>3, <1>4, PageAssumption
<1>6. Target(f * PAGE + b, i) = f * PAGE + c
  <2>1. f * PAGE \in Nat
      BY PageAssumption, FrameAssumption DEF Frames
  <2> QED BY <2>1, <1>1, <1>2, <1>3 DEF Target
<1> QED BY <1>5, <1>6

LEMMA CopiedBytes ==
    ASSUME mem \in [Addresses -> 0..255], NEW host, NEW data \in Seq(0..255)
    PROVE  /\ Copied(host, data) \in [Addresses -> 0..255]
           /\ \A a \in Addresses :
                (\A i \in 1..Len(data) : Target(host, i) # a) => Copied(host, data)[a] = mem[a]
           /\ \A a \in Addresses : \A i \in 1..Len(data) :
                (\A j \in 1..Len(data) : Target(host, j) = a <=> j = i)
                    => Copied(host, data)[a] = data[i]
<1> DEFINE Sources(a) == {i \in 1..Len(data) : Target(host, i) = a}
           pick(a) == CHOOSE i \in Sources(a) : \A j \in Sources(a) : j <= i
<1>1. Copied(host, data) = [a \in Addresses |-> IF Sources(a) = {} THEN mem[a] ELSE data[pick(a)]]
    BY DEF Copied
<1>2. Len(data) \in Nat /\ \A i \in 1..Len(data) : data[i] \in 0..255
    BY LenProperties, ElementOfSeq
<1>3. ASSUME NEW a \in Addresses, Sources(a) # {}
      PROVE  pick(a) \in Sources(a)
  <2>1. Sources(a) \subseteq 1..Len(data)
      OBVIOUS
  <2> HIDE DEF Sources
  <2>2. \E i \in Sources(a) : \A j \in Sources(a) : j <= i
      BY <2>1, <1>2, <1>3, GreatestOf
  <2> QED BY <2>2
<1>4. ASSUME NEW a \in Addresses
      PROVE  (IF Sources(a) = {} THEN mem[a] ELSE data[pick(a)]) \in 0..255
  <2>1. CASE Sources(a) = {}
      BY <2>1
  <2>2. CASE Sources(a) # {}
    <3>1. pick(a) \in 1..Len(data)
        BY <2>2, <1>3
    <3> HIDE DEF Sources, pick
    <3> QED BY <3>1, <2>2, <1>2
  <2> QED BY <2>1, <2>2
<1>5. ASSUME NEW a \in Addresses, \A i \in 1..Len(data) : Target(host, i) # a
      PROVE  Sources(a) = {}
    BY <1>5
<1>6. ASSUME NEW a \in Addresses, NEW i \in 1..Len(data),
             \A j \in 1..Len(data) : Target(host, j) = a <=> j = i
      PROVE  Sources(a) # {} /\ pick(a) = i
  <2>1. Sources(a) = {i}
      BY <1>6
  <2>2. pick(a) \in Sources(a)
      BY <2>1, <1>3
  <2> QED BY <2>1, <2>2
<1> HIDE DEF Sources, pick
<1>7. Copied(host, data) \in [Addresses -> 0..255]
    BY <1>1, <1>4
<1>8. ASSUME NEW a \in Addresses
      PROVE  Copied(host, data)[a] = IF Sources(a) = {} THEN mem[a] ELSE data[pick(a)]
    BY <1>1
<1>9. \A a \in Addresses :
        (\A i \in 1..Len(data) : Target(host, i) # a) => Copied(host, data)[a] = mem[a]
    BY <1>5, <1>8
<1>10. \A a \in Addresses : \A i \in 1..Len(data) :
         (\A j \in 1..Len(data) : Target(host, j) = a <=> j = i)
             => Copied(host, data)[a] = data[i]
    BY <1>6, <1>8
<1> QED BY <1>7, <1>9, <1>10

LEMMA ResetBytes ==
    ASSUME mem \in [Addresses -> 0..255], NEW u, ResetStorage(u)
    PROVE  /\ mem' \in [Addresses -> 0..255]
           /\ \A a \in Addresses :
                mem'[a] = IF \E i \in DOMAIN guest_pages[u] : guest_pages[u][i] = a \div PAGE
                          THEN 0 ELSE mem[a]
BY DEF ResetStorage

LEMMA TablesStay ==
    ASSUME TablesInv, free' \subseteq free, tables' = tables, as' = as
    PROVE  TablesInv'
<1>0. \A u, sx : TableOf(u, sx)' = TableOf(u, sx)
    BY DEF TableOf
<1>1. \A u \in Users : as'[u] # 0 => as'[u] \notin free' /\ tables'[as'[u]] \in SegmentTable
    BY DEF TablesInv
<1>2. \A u \in Users, sx \in SXs : as'[u] # 0 /\ TableOf(u, sx)' # 0 =>
         TableOf(u, sx)' \notin free' /\ tables'[TableOf(u, sx)'] \in PageTables
    BY <1>0 DEF TablesInv
<1>3. \A u, w \in Users : as'[u] # 0 /\ as'[u] = as'[w] => u = w
    BY DEF TablesInv
<1>4. \A u, w \in Users, sx \in SXs : as'[u] # 0 /\ as'[w] # 0 => TableOf(u, sx)' # as'[w]
    BY <1>0 DEF TablesInv
<1>5. \A u, w \in Users, sx, sy \in SXs :
         as'[u] # 0 /\ as'[w] # 0 /\ TableOf(u, sx)' # 0 /\ TableOf(u, sx)' = TableOf(w, sy)'
            => u = w /\ sx = sy
  <2>1. \A u, w \in Users, sx, sy \in SXs :
         as[u] # 0 /\ as[w] # 0 /\ TableOf(u, sx) # 0 /\ TableOf(u, sx) = TableOf(w, sy)
            => u = w /\ sx = sy
      BY Zenon DEF TablesInv
  <2> QED BY <1>0, <2>1
<1> QED BY <1>1, <1>2, <1>3, <1>4, <1>5, Zenon DEF TablesInv

\* A step that leaves the frames and the tables as they are.
Quiet == UNCHANGED <<free, tables, as, guest_pages>>

LEMMA QuietKeepsStorage ==
    ASSUME StorageInv, Quiet, mem' \in [Addresses -> 0..255], cr1' \in Frames \cup {0}
    PROVE  StorageInv'
<1>1. free' = free /\ tables' = tables /\ as' = as /\ guest_pages' = guest_pages
    BY DEF Quiet
<1>2. StorageType'
    BY <1>1 DEF StorageInv, StorageType
<1>4. TablesInv'
    BY <1>1, TablesStay DEF StorageInv
<1>5. FramesInv'
  <2>1. FramesInv
      BY DEF StorageInv
  <2> QED BY <1>1, <2>1 DEF FramesInv
<1>6. MappingInv'
  <2>1. MappingInv
      BY DEF StorageInv
  <2> QED BY <1>1, <2>1, Zenon DEF MappingInv, TableOf, Present, First, FrameOf
<1> QED BY <1>2, <1>4, <1>5, <1>6 DEF StorageInv

LEMMA GetPageKeepsStorage ==
    ASSUME StorageInv, GetPage
    PROVE  StorageInv'
<1>1. /\ free' \subseteq free /\ mem' = mem /\ cr1' = cr1
      /\ tables' = tables /\ as' = as /\ guest_pages' = guest_pages
    BY DEF GetPage
<1>2. StorageType'
    BY <1>1 DEF StorageInv, StorageType
<1>4. TablesInv'
    BY <1>1, TablesStay DEF StorageInv
<1>5. FramesInv'
  <2>1. FramesInv
      BY DEF StorageInv
  <2> QED BY <1>1, <2>1 DEF FramesInv
<1>6. MappingInv'
  <2>1. MappingInv
      BY DEF StorageInv
  <2> QED BY <1>1, <2>1, Zenon DEF MappingInv, TableOf, Present, First, FrameOf
<1> QED BY <1>2, <1>4, <1>5, <1>6 DEF StorageInv

-----------------------------------------------------------------------------
\* The blocks of a saved system.

Segment == [gaddr : Nat, data : Seq(0..255), memlen : Nat \ {0}]

LEMMA SegmentsOf ==
    ASSUME NEW nss \in DOMAIN Images
    PROVE  /\ Images[nss].segs \in Seq(Segment) /\ Len(Images[nss].segs) \in Nat
           /\ \A i \in 1..Len(Images[nss].segs) :
                /\ Images[nss].segs[i] \in Segment
                /\ Len(Images[nss].segs[i].data) <= Images[nss].segs[i].memlen
<1> DEFINE segs == Images[nss].segs
<1>1. segs \in Seq(Segment) /\ \A i \in DOMAIN segs : Len(segs[i].data) <= segs[i].memlen
    BY ImageAssumption DEF Segment
<1> HIDE DEF segs
<1>2. Len(segs) \in Nat /\ DOMAIN segs = 1..Len(segs) /\ \A i \in 1..Len(segs) : segs[i] \in Segment
    BY <1>1, LenProperties, ElementOfSeq
<1>3. /\ segs \in Seq(Segment) /\ Len(segs) \in Nat
      /\ \A i \in 1..Len(segs) : segs[i] \in Segment /\ Len(segs[i].data) <= segs[i].memlen
    BY <1>1, <1>2
<1> QED BY <1>3 DEF segs

LEMMA BlockType ==
    ASSUME NEW s \in Segment, Len(s.data) <= s.memlen, NEW off \in Nat, off < s.memlen
    PROVE  /\ BlockLen(s, off) \in Nat \ {0} /\ off + BlockLen(s, off) <= s.memlen
           /\ Block(s, off) \in Seq(0..255) /\ Len(Block(s, off)) = BlockLen(s, off)
           /\ DOMAIN Block(s, off) = 1..BlockLen(s, off)
           /\ off < Len(s.data) =>
                /\ BlockLen(s, off) <= PAGE - DAT_BX(s.gaddr + off)
                /\ off + BlockLen(s, off) <= Len(s.data)
           /\ off >= Len(s.data) => BlockLen(s, off) <= PAGE
<1> DEFINE n == BlockLen(s, off)
<1>1. /\ s.gaddr \in Nat /\ s.data \in Seq(0..255) /\ s.memlen \in Nat \ {0}
      /\ Len(s.data) \in Nat /\ \A i \in 1..Len(s.data) : s.data[i] \in 0..255
  <2>1. s.gaddr \in Nat /\ s.data \in Seq(0..255) /\ s.memlen \in Nat \ {0}
      BY DEF Segment
  <2> QED BY <2>1, LenProperties, ElementOfSeq
<1>2. DAT_BX(s.gaddr + off) \in 0..(PAGE - 1)
  <2>1. s.gaddr + off \in Nat
      BY <1>1
  <2> QED BY <2>1, Indices DEF DAT_BX
<1>3. /\ n \in Nat \ {0} /\ off + n <= s.memlen
      /\ off < Len(s.data) => n <= PAGE - DAT_BX(s.gaddr + off) /\ off + n <= Len(s.data)
      /\ off >= Len(s.data) => n <= PAGE
  <2> DEFINE x == DAT_BX(s.gaddr + off)
             l == Len(s.data)
             m == s.memlen
  <2>1. n = IF off < l THEN IF PAGE - x < l - off THEN PAGE - x ELSE l - off
            ELSE IF PAGE < m - off THEN PAGE ELSE m - off
      BY DEF BlockLen, Smaller
  <2>2. x \in 0..(PAGE - 1) /\ l \in Nat /\ m \in Nat /\ l <= m /\ off < m
      BY <1>1, <1>2
  <2> HIDE DEF x, l, m, n
  <2>3. /\ n \in Nat \ {0} /\ off + n <= m
        /\ off < l => n <= PAGE - x /\ off + n <= l
        /\ off >= l => n <= PAGE
      BY <2>1, <2>2, PageAssumption
  <2> QED BY <2>3 DEF x, l, m
<1>4. Block(s, off) = [i \in 1..n |-> IF off < Len(s.data) THEN s.data[off + i] ELSE 0]
    BY DEF Block
<1> HIDE DEF n
<1>5. \A i \in 1..n : (IF off < Len(s.data) THEN s.data[off + i] ELSE 0) \in 0..255
  <2> TAKE i \in 1..n
  <2>1. CASE off < Len(s.data)
    <3>1. off + i \in 1..Len(s.data)
        BY <2>1, <1>1, <1>3
    <3> QED BY <3>1, <2>1, <1>1
  <2>2. CASE ~(off < Len(s.data))
      BY <2>2
  <2> QED BY <2>1, <2>2
<1>6. Block(s, off) \in [1..n -> 0..255]
    BY <1>4, <1>5
<1>7. Block(s, off) \in Seq(0..255) /\ Len(Block(s, off)) = n
    BY <1>3, <1>6, SeqDef, LenProperties
<1> QED BY <1>3, <1>6, <1>7 DEF n

LEMMA FunctionIsSeq ==
    ASSUME NEW S, NEW n \in Nat, NEW f \in [1..n -> S]
    PROVE  f \in Seq(S) /\ Len(f) = n /\ DOMAIN f = 1..n
<1>1. f \in Seq(S)
    BY SeqDef
<1> QED BY <1>1, LenProperties

\* A word, as STORE and the guest store it.
LEMMA WordType ==
    ASSUME NEW o \in StoreOps
    PROVE  /\ o.addr \in Nat /\ o.word \in Seq(0..255) /\ Len(o.word) = 4
           /\ o.word \in [1..4 -> 0..255]
<1>1. o.addr \in Nat /\ o.word \in [1..4 -> 0..255]
    BY OpAssumption
<1>2. o.word \in Seq(0..255) /\ Len(o.word) = 4
  <2> DEFINE n == 4
  <2>1. n \in Nat /\ o.word \in [1..n -> 0..255]
      BY <1>1
  <2> HIDE DEF n
  <2>2. o.word \in Seq(0..255) /\ Len(o.word) = n
      BY <2>1, FunctionIsSeq
  <2> QED BY <2>2 DEF n
<1> QED BY <1>1, <1>2

-----------------------------------------------------------------------------
\* The tasks.

\* A user that is alive has its segment table and all of its storage.
LEMMA AliveUser ==
    ASSUME StorageInv, BootInv, NEW u \in Users, u \in alive
    PROVE  /\ as[u] # 0 /\ as[u] \in Frames
           /\ Len(guest_pages[u]) = Directory[u].storage
<1>1. /\ as[u] = 0 <=> Len(guest_pages[u]) = 0
      /\ Len(guest_pages[u]) = Directory[u].storage
    BY DEF BootInv
<1>2. as[u] # 0
    BY <1>1, DirectoryAssumption
<1> QED BY <1>1, <1>2, SegmentOf

LEMMA SameBoot ==
    ASSUME BootInv, UNCHANGED <<boot, alive, as, guest_pages, virt_devs>>
    PROVE  BootInv'
<1>1. /\ boot' = boot /\ alive' = alive /\ as' = as /\ guest_pages' = guest_pages
      /\ virt_devs' = virt_devs
    OBVIOUS
<1>2. \A u : Begun(u)' <=> Begun(u)
    BY <1>1 DEF Begun
<1>3. /\ boot'.step # "create" =>
           boot'.k <= Len(Logons) /\ boot'.user \in Logons[boot'.k]
      /\ boot'.step = "devices" => boot'.user \notin alive'
      /\ boot'.step \in {"ipl", "begin", "attach"} => boot'.user \in alive'
      /\ boot'.step = "create" => boot'.dev = 1
      /\ DOMAIN virt_devs' = Users
    BY <1>1 DEF BootInv
<1>4. \A u \in Users : Begun(u)' =>
        \E k \in 1..Len(Logons) :
           /\ u \in Logons[k] /\ k <= boot'.k
           /\ k = boot'.k => boot'.step # "create" /\ boot'.user = u
    BY <1>1, <1>2 DEF BootInv
<1>5. \A u \in Users :
        /\ Len(guest_pages'[u]) <= Directory[u].storage
        /\ as'[u] = 0 <=> Len(guest_pages'[u]) = 0
        /\ u \in alive' => Len(guest_pages'[u]) = Directory[u].storage
    BY <1>1 DEF BootInv
<1> QED BY <1>3, <1>4, <1>5 DEF BootInv

LEMMA SameCr ==
    ASSUME CrInv, UNCHANGED <<cur, cr1, saved, started, ipl>>,
           started \subseteq alive \cap Users,
           \A u \in alive \cap Users : as'[u] = as[u] /\ u \in alive',
           ipl[Boot].busy => boot' = boot
    PROVE  CrInv'
<1>1. cur' = cur /\ cr1' = cr1 /\ saved' = saved /\ started' = started /\ ipl' = ipl
    OBVIOUS
<1>2. ASSUME NEW t \in Tasks
      PROVE  CrOf(t)' = CrOf(t) /\ Segments(t)' = Segments(t)
    BY <1>1 DEF CrOf, Segments
<1>3. ASSUME NEW t \in Tasks, ipl'[t].busy PROVE BusyOK(t)'
  <2>1. BusyOK(t)
      BY <1>1, <1>3 DEF CrInv
  <2> QED BY <2>1, <1>1, <1>2 DEF BusyOK
<1>4. \A u \in started' : /\ CrOf(u)' = as'[u]
                          /\ ipl'[u].busy => ipl'[u].user = u /\ ipl'[u].saved = as'[u]
    BY <1>1, <1>2 DEF CrInv, Tasks
<1>5. \A u \in Users : ipl'[u].busy => u \in started'
    BY <1>1 DEF CrInv
<1>6. ipl'[Boot].busy => boot'.step = "begin" /\ boot'.user = ipl'[Boot].user
    BY <1>1 DEF CrInv
<1> QED BY <1>3, <1>4, <1>5, <1>6 DEF CrInv

\* __schedule: each task finds again the CR 1 it had.
LEMMA SwitchStep ==
    ASSUME IndInv, NEW t \in Tasks, Switch(t)
    PROVE  IndInv'
<1>1. /\ t \in alive /\ t # cur /\ cur' = t /\ alive' = alive /\ started' = started
      /\ saved' = [saved EXCEPT ![cur] = cr1] /\ ipl' = ipl /\ boot' = boot
      /\ cr1' = IF saved[t] = 0 THEN cr1 ELSE saved[t]
      /\ mem' = mem /\ as' = as /\ loaded' = loaded
    BY DEF Switch, load_pasce
<1>2. StorageInv /\ ControlType /\ BootInv /\ CrInv
    BY DEF IndInv
<1>3. cur \in Tasks /\ saved \in [Tasks -> Frames \cup {0}] /\ cr1 \in Frames \cup {0}
    BY <1>2 DEF ControlType, StorageInv, StorageType, Tasks
<1>4. StorageInv'
  <2>1. Quiet
      BY DEF Switch, Quiet
  <2> QED BY <1>1, <1>2, <1>3, <2>1, QuietKeepsStorage DEF StorageInv, StorageType
<1>5. ControlType'
    BY <1>1, <1>2, <1>3 DEF ControlType
<1>6. BootInv'
    BY <1>2, SameBoot DEF Switch, devices
<1>7. ASSUME NEW x \in Tasks, CrOf(x) # 0
      PROVE  CrOf(x)' = CrOf(x)
    BY <1>1, <1>3, <1>7 DEF CrOf
<1>8. ASSUME NEW x \in Tasks PROVE Segments(x)' = Segments(x)
    BY <1>1 DEF Segments
<1>9. \A u \in alive \cap Users : as[u] # 0
    BY <1>2, AliveUser
<1>10. ASSUME NEW x \in Tasks, ipl'[x].busy PROVE BusyOK(x)'
  <2>1. BusyOK(x)
      BY <1>1, <1>2, <1>10 DEF CrInv
  <2>2. CrOf(x) # 0
      BY <2>1, <1>9 DEF BusyOK
  <2> QED BY <2>1, <2>2, <1>1, <1>7, <1>8 DEF BusyOK
<1>11. \A u \in started' : /\ CrOf(u)' = as'[u]
                           /\ ipl'[u].busy => ipl'[u].user = u /\ ipl'[u].saved = as'[u]
  <2>1. started \subseteq alive \cap Users
      BY <1>2 DEF ControlType
  <2> QED BY <2>1, <1>1, <1>2, <1>7, <1>9, ZenonT(60) DEF CrInv, Tasks
<1>12. /\ \A u \in Users : ipl'[u].busy => u \in started'
       /\ ipl'[Boot].busy => boot'.step = "begin" /\ boot'.user = ipl'[Boot].user
    BY <1>1, <1>2 DEF CrInv
<1>13. CrInv'
    BY <1>10, <1>11, <1>12 DEF CrInv
<1> QED BY <1>4, <1>5, <1>6, <1>13 DEF IndInv

\* guest_ipl_nss up to load_as, by the task that brings up the user or by the
\* task of the user.
LEMMA IplStartStep ==
    ASSUME IndInv, NEW t \in Tasks, NEW u \in Users, NEW nss, IplStart(t, u, nss),
           cur = t, u \in alive, t # Boot => t = u /\ u \in started,
           t = Boot => boot'.step = "begin" /\ boot'.user = u,
           t # Boot => boot' = boot
    PROVE  /\ StorageInv' /\ CrInv' /\ cr1' \in Frames \cup {0}
           /\ UNCHANGED <<cur, alive, saved, started, as, guest_pages, virt_devs>>
           /\ ipl' \in [Tasks -> Cursor]
           /\ loaded' \in [Users -> DOMAIN Images \cup {"none"}]
<1>1. StorageInv /\ ControlType /\ BootInv /\ CrInv
    BY DEF IndInv
<1>2. /\ ~ipl[t].busy /\ cur' = cur /\ alive' = alive /\ saved' = saved /\ started' = started
      /\ as' = as /\ guest_pages' = guest_pages /\ virt_devs' = virt_devs /\ Quiet
    BY DEF IplStart, devices, Quiet
<1>3. /\ as[u] \in Frames /\ as[u] # 0 /\ cr1 \in Frames \cup {0}
      /\ mem \in [Addresses -> 0..255]
    BY <1>1, AliveUser DEF StorageInv, StorageType
<1>4. /\ ipl \in [Tasks -> Cursor]
      /\ loaded \in [Users -> DOMAIN Images \cup {"none"}]
      /\ started \subseteq alive \cap Users
    BY <1>1 DEF ControlType
<1>5. CASE Loadable(nss)
  <2> DEFINE cursor == [busy |-> TRUE, user |-> u, saved |-> cr1, nss |-> nss,
                        seg |-> 1, off |-> 0]
  <2>1. /\ ipl' = [ipl EXCEPT ![t] = cursor] /\ cr1' = as[u] /\ ResetStorage(u)
        /\ loaded' = [loaded EXCEPT ![u] = IF Loading(u) THEN "none" ELSE nss]
      BY <1>5 DEF IplStart, ClearReset, load_as
  <2>2. nss \in DOMAIN Images
      BY <1>5 DEF Loadable
  <2>3. mem' \in [Addresses -> 0..255]
      BY <2>1, <1>3, ResetBytes
  <2>4. StorageInv'
      BY <2>1, <2>3, <1>1, <1>2, <1>3, QuietKeepsStorage
  <2>5. /\ ipl'[t] = cursor /\ \A x \in Tasks \ {t} : ipl'[x] = ipl[x]
      BY <2>1, <1>4
  <2>6. CrOf(t)' = as[u] /\ \A x \in Tasks \ {t} : CrOf(x)' = CrOf(x)
      BY <2>1, <1>2 DEF CrOf
  <2>7. Segments(t)' = Images[nss].segs /\ \A x \in Tasks \ {t} : Segments(x)' = Segments(x)
      BY <2>5 DEF Segments
  <2>8. 1 <= Len(Images[nss].segs) => 0 < Images[nss].segs[1].memlen
    <3>1. ASSUME 1 <= Len(Images[nss].segs) PROVE 0 < Images[nss].segs[1].memlen
      <4>1. Len(Images[nss].segs) \in Nat
          BY <2>2, SegmentsOf
      <4>2. 1 \in 1..Len(Images[nss].segs)
          BY <3>1, <4>1
      <4>3. Images[nss].segs[1] \in Segment
          BY <4>2, <2>2, SegmentsOf
      <4> QED BY <4>3 DEF Segment
    <3> QED BY <3>1
  <2>9. ASSUME NEW x \in Tasks, ipl'[x].busy
        PROVE  BusyOK(x)'
    <3>1. CASE x = t
        BY <3>1, <2>2, <2>5, <2>6, <2>7, <2>8, <1>2 DEF BusyOK
    <3>2. CASE x # t
      <4>1. BusyOK(x)
          BY <3>2, <2>5, <2>9, <1>1 DEF CrInv
      <4> QED BY <4>1, <3>2, <2>5, <2>6, <2>7, <1>2 DEF BusyOK
    <3> QED BY <3>1, <3>2
  <2>10. ASSUME NEW x \in started'
         PROVE  /\ CrOf(x)' = as'[x]
                /\ ipl'[x].busy => ipl'[x].user = x /\ ipl'[x].saved = as'[x]
    <3>0. x \in started /\ x \in Users /\ x \in Tasks /\ x # Boot
        BY <1>2, <1>4, UserAssumption DEF Tasks
    <3>1. CASE x = t
      <4>1. t = u /\ CrOf(t) = as[u] /\ cr1 = as[u]
          BY <3>0, <3>1, <1>1 DEF CrInv, CrOf
      <4> QED BY <4>1, <3>1, <2>5, <2>6, <1>2
    <3>2. CASE x # t
        BY <3>0, <3>2, <2>5, <2>6, <1>1, <1>2 DEF CrInv
    <3> QED BY <3>1, <3>2
  <2>11. \A x \in Users : ipl'[x].busy => x \in started'
      BY <2>5, <1>1, <1>2, UserAssumption DEF CrInv, Tasks
  <2>12. ipl'[Boot].busy => boot'.step = "begin" /\ boot'.user = ipl'[Boot].user
    <3>1. CASE t = Boot
        BY <3>1, <2>5
    <3>2. CASE t # Boot
        BY <3>2, <2>5, <1>1 DEF CrInv, Tasks
    <3> QED BY <3>1, <3>2
  <2>13. CrInv'
      BY <2>9, <2>10, <2>11, <2>12 DEF CrInv
  <2>14. cursor \in Cursor
      BY <2>2, <1>3 DEF Cursor
  <2> HIDE DEF cursor
  <2> QED BY <2>1, <2>2, <2>4, <2>13, <2>14, <1>2, <1>3, <1>4
<1>6. CASE ~Loadable(nss)
  <2>1. /\ ipl' = ipl /\ cr1' = cr1 /\ loaded' = loaded /\ mem' = mem
      BY <1>6 DEF IplStart, SetState
  <2>2. StorageInv'
      BY <2>1, <1>1, <1>2, <1>3, QuietKeepsStorage
  <2>3. ipl[Boot].busy => boot' = boot
      BY <1>2
  <2>4. CrInv'
      BY <2>1, <2>3, <1>1, <1>2, <1>4, SameCr
  <2> QED BY <2>1, <2>2, <2>4, <1>2, <1>3, <1>4
<1> QED BY <1>5, <1>6

\* A block of a saved system is copied, or the storage of the user ends.
LEMMA IplCopyStep ==
    ASSUME IndInv, NEW t \in Tasks, IplCopy(t)
    PROVE  IndInv'
<1>1. StorageInv /\ ControlType /\ BootInv /\ CrInv
    BY DEF IndInv
<1> DEFINE s == Segments(t)[ipl[t].seg]
           off == ipl[t].off
           end == off + BlockLen(s, off)
           next == IF end < s.memlen THEN ipl[t].seg ELSE ipl[t].seg + 1
           noff == IF end < s.memlen THEN end ELSE 0
<1>2. /\ cur = t /\ ipl[t].busy /\ ipl[t].seg <= Len(Segments(t)) /\ Quiet /\ cr1' = cr1
      /\ cur' = cur /\ alive' = alive /\ saved' = saved /\ started' = started /\ boot' = boot
      /\ as' = as
    BY DEF IplCopy, Quiet
<1>3. BootInv'
    BY <1>1, SameBoot DEF IplCopy, devices
<1>4. /\ ipl \in [Tasks -> Cursor]
      /\ loaded \in [Users -> DOMAIN Images \cup {"none"}]
      /\ started \subseteq alive \cap Users
    BY <1>1 DEF ControlType
<1>5. /\ ipl[t].seg \in Nat \ {0} /\ off \in Nat /\ ipl[t].nss \in DOMAIN Images
      /\ off < s.memlen
  <2>1. BusyOK(t)
      BY <1>1, <1>2 DEF CrInv
  <2> QED BY <2>1, <1>2, <1>4 DEF BusyOK, Cursor
<1>6. /\ Len(Segments(t)) \in Nat /\ ipl[t].seg \in 1..Len(Segments(t))
      /\ s \in Segment /\ Len(s.data) <= s.memlen
      /\ \A i \in 1..Len(Segments(t)) : Segments(t)[i].memlen \in Nat \ {0}
  <2>1. Len(Segments(t)) \in Nat
      BY <1>5, SegmentsOf DEF Segments
  <2>2. ipl[t].seg \in 1..Len(Segments(t))
      BY <2>1, <1>2, <1>5
  <2>3. \A i \in 1..Len(Segments(t)) : Segments(t)[i] \in Segment
                                       /\ Len(Segments(t)[i].data) <= Segments(t)[i].memlen
      BY <1>5, SegmentsOf DEF Segments
  <2> QED BY <2>1, <2>2, <2>3 DEF Segment
<1>7. mem \in [Addresses -> 0..255] /\ cr1 \in Frames \cup {0}
    BY <1>1 DEF StorageInv, StorageType
<1> HIDE DEF s, off
<1>8. CASE /\ memcpy_to_guest(s.gaddr + off, Block(s, off))
           /\ ipl' = [ipl EXCEPT ![t].seg = IF end < s.memlen THEN @ ELSE @ + 1,
                                 ![t].off = IF end < s.memlen THEN end ELSE 0]
           /\ loaded' = loaded
  <2>1. /\ BlockLen(s, off) \in Nat \ {0} /\ Block(s, off) \in Seq(0..255)
      BY <1>5, <1>6, BlockType
  <2>2. mem' \in [Addresses -> 0..255]
      BY <2>1, <1>7, <1>8, CopiedBytes DEF memcpy_to_guest
  <2>3. StorageInv'
      BY <2>2, <1>1, <1>2, <1>7, QuietKeepsStorage
  <2>4. next \in Nat \ {0} /\ noff \in Nat
      BY <2>1, <1>5, SMTT(40)
  <2>5. /\ ipl' = [ipl EXCEPT ![t] = [ipl[t] EXCEPT !.seg = next, !.off = noff]]
      BY <1>8, <1>4
  <2>6. next <= Len(Segments(t)) => noff < Segments(t)[next].memlen
    <3>1. CASE end < s.memlen
        BY <3>1 DEF s
    <3>2. CASE ~(end < s.memlen)
      <4>1. next <= Len(Segments(t)) => next \in 1..Len(Segments(t))
          BY <2>4, <1>6
      <4> QED BY <4>1, <3>2, <1>6
    <3> QED BY <3>1, <3>2
  <2> HIDE DEF next, noff
  <2>7. /\ ipl' \in [Tasks -> Cursor]
        /\ ipl'[t].seg = next /\ ipl'[t].off = noff
        /\ \A x \in Tasks : /\ ipl'[x].busy = ipl[x].busy /\ ipl'[x].user = ipl[x].user
                            /\ ipl'[x].saved = ipl[x].saved /\ ipl'[x].nss = ipl[x].nss
        /\ \A x \in Tasks \ {t} : ipl'[x] = ipl[x]
      BY <2>4, <2>5, <1>4, ZenonT(60) DEF Cursor
  <2>8. ControlType'
      BY <2>7, <1>1, <1>2, <1>8 DEF ControlType
  <2>9. \A x \in Tasks : Segments(x)' = Segments(x) /\ CrOf(x)' = CrOf(x)
      BY <2>7, <1>2 DEF Segments, CrOf
  <2>10. ASSUME NEW x \in Tasks, ipl'[x].busy
        PROVE  BusyOK(x)'
    <3>1. BusyOK(x)
        BY <2>7, <2>10, <1>1 DEF CrInv
    <3>2. CASE x = t
        BY <3>1, <3>2, <2>6, <2>7, <2>9, <1>2 DEF BusyOK
    <3>3. CASE x # t
        BY <3>1, <3>3, <2>7, <2>9, <1>2 DEF BusyOK
    <3> QED BY <3>2, <3>3
  <2>11. \A x \in started' : /\ CrOf(x)' = as'[x]
                             /\ ipl'[x].busy => ipl'[x].user = x /\ ipl'[x].saved = as'[x]
      BY <2>7, <2>9, <1>1, <1>2, <1>4, ZenonT(60) DEF CrInv, Tasks
  <2>12. CrInv'
      BY <2>7, <2>10, <2>11, <1>1, <1>2 DEF CrInv, Tasks
  <2> QED BY <2>3, <2>8, <2>12, <1>3 DEF IndInv
<1>9. CASE /\ loaded' = [loaded EXCEPT ![ipl[t].user] = "none"]
           /\ ipl' = [ipl EXCEPT ![t] = NoIpl] /\ mem' = mem
  <2>1. StorageInv'
      BY <1>1, <1>2, <1>7, <1>9, QuietKeepsStorage
  <2>2. NoIpl \in Cursor
      BY DEF NoIpl, Cursor
  <2>3. ~ipl'[t].busy /\ \A x \in Tasks \ {t} : ipl'[x] = ipl[x]
      BY <1>4, <1>9 DEF NoIpl
  <2>4. ControlType'
      BY <2>2, <1>1, <1>2, <1>4, <1>9 DEF ControlType
  <2>5. \A x \in Tasks : CrOf(x)' = CrOf(x)
      BY <1>2 DEF CrOf
  <2>6. \A x \in Tasks \ {t} : Segments(x)' = Segments(x)
      BY <2>3 DEF Segments
  <2>7. ASSUME NEW x \in Tasks, ipl'[x].busy PROVE BusyOK(x)'
    <3>1. x # t
        BY <2>3, <2>7
    <3>2. BusyOK(x)
        BY <3>1, <2>3, <2>7, <1>1 DEF CrInv
    <3> QED BY <3>1, <3>2, <2>3, <2>5, <2>6, <1>2 DEF BusyOK
  <2>8. \A x \in started' : /\ CrOf(x)' = as'[x]
                            /\ ipl'[x].busy => ipl'[x].user = x /\ ipl'[x].saved = as'[x]
      BY <2>3, <2>5, <1>1, <1>2, <1>4 DEF CrInv, Tasks
  <2>9. /\ \A x \in Users : ipl'[x].busy => x \in started'
        /\ ipl'[Boot].busy => boot'.step = "begin" /\ boot'.user = ipl'[Boot].user
      BY <2>3, <1>1, <1>2 DEF CrInv, Tasks
  <2>10. CrInv'
      BY <2>7, <2>8, <2>9 DEF CrInv
  <2> QED BY <2>1, <2>4, <2>10, <1>3 DEF IndInv
<1> QED BY <1>8, <1>9 DEF IplCopy, s, off

\* The PASCE that guest_ipl_nss saved is restored: that of the task's own user,
\* if it has one.
LEMMA IplEndStep ==
    ASSUME IndInv, NEW t \in Tasks, IplEnd(t)
    PROVE  IndInv'
<1>1. StorageInv /\ ControlType /\ BootInv /\ CrInv
    BY DEF IndInv
<1>2. /\ cur = t /\ ipl[t].busy /\ Quiet /\ mem' = mem /\ ipl' = [ipl EXCEPT ![t] = NoIpl]
      /\ cr1' = IF ipl[t].saved = 0 THEN cr1 ELSE ipl[t].saved
      /\ cur' = cur /\ alive' = alive /\ saved' = saved /\ started' = started /\ boot' = boot
      /\ as' = as /\ loaded' = loaded
    BY DEF IplEnd, Quiet, load_pasce
<1>3. BootInv'
    BY <1>1, SameBoot DEF IplEnd, devices
<1>4. ipl \in [Tasks -> Cursor] /\ started \subseteq alive \cap Users
    BY <1>1 DEF ControlType
<1>5. mem \in [Addresses -> 0..255] /\ cr1 \in Frames \cup {0}
    BY <1>1 DEF StorageInv, StorageType
<1>6. ipl[t].saved \in Frames \cup {0}
    BY <1>4 DEF Cursor
<1>7. StorageInv'
    BY <1>1, <1>2, <1>5, <1>6, QuietKeepsStorage
<1>8. NoIpl \in Cursor
    BY DEF NoIpl, Cursor
<1>9. ~ipl'[t].busy /\ \A x \in Tasks \ {t} : ipl'[x] = ipl[x]
    BY <1>2, <1>4 DEF NoIpl
<1>10. ControlType'
    BY <1>8, <1>1, <1>2, <1>4 DEF ControlType
<1>11. \A x \in Tasks \ {t} : CrOf(x)' = CrOf(x) /\ Segments(x)' = Segments(x)
    BY <1>2, <1>9 DEF CrOf, Segments
<1>12. ASSUME NEW x \in Tasks, ipl'[x].busy PROVE BusyOK(x)'
  <2>1. x # t
      BY <1>9, <1>12
  <2>2. BusyOK(x)
      BY <2>1, <1>9, <1>12, <1>1 DEF CrInv
  <2> QED BY <2>1, <2>2, <1>2, <1>9, <1>11 DEF BusyOK
<1>13. ASSUME NEW x \in started'
       PROVE  /\ CrOf(x)' = as'[x]
              /\ ipl'[x].busy => ipl'[x].user = x /\ ipl'[x].saved = as'[x]
  <2>1. x \in started /\ x \in Tasks /\ x \in alive /\ x \in Users
      BY <1>2, <1>4 DEF Tasks
  <2>2. CASE x = t
    <3>1. ipl[t].saved = as[x] /\ as[x] # 0
        BY <2>1, <2>2, <1>1, <1>2, AliveUser DEF CrInv
    <3> QED BY <3>1, <2>2, <1>2, <1>9 DEF CrOf
  <2>3. CASE x # t
      BY <2>1, <2>3, <1>1, <1>2, <1>9, <1>11 DEF CrInv
  <2> QED BY <2>2, <2>3
<1>14. /\ \A x \in Users : ipl'[x].busy => x \in started'
       /\ ipl'[Boot].busy => boot'.step = "begin" /\ boot'.user = ipl'[Boot].user
    BY <1>1, <1>2, <1>9 DEF CrInv, Tasks
<1>15. CrInv'
    BY <1>12, <1>13, <1>14 DEF CrInv
<1> QED BY <1>3, <1>7, <1>10, <1>15 DEF IndInv

\* The start of shell_start: the task of the user loads its address space.
LEMMA ShellStep ==
    ASSUME IndInv, NEW u \in Users, ShellStart(u)
    PROVE  IndInv'
<1>1. StorageInv /\ ControlType /\ BootInv /\ CrInv
    BY DEF IndInv
<1>2. /\ cur = u /\ u \notin started /\ cr1' = as[u] /\ started' = started \cup {u} /\ Quiet
      /\ mem' = mem /\ cur' = cur /\ alive' = alive /\ saved' = saved /\ boot' = boot
      /\ ipl' = ipl /\ as' = as /\ loaded' = loaded
    BY DEF ShellStart, load_as, Quiet
<1>3. BootInv'
    BY <1>1, SameBoot DEF ShellStart, devices
<1>4. /\ ipl \in [Tasks -> Cursor] /\ started \subseteq alive \cap Users /\ u \in alive
      /\ u \in Tasks /\ u # Boot
    BY <1>1, <1>2, UserAssumption DEF ControlType, Tasks
<1>5. mem \in [Addresses -> 0..255] /\ as[u] \in Frames
    BY <1>1, <1>4, AliveUser DEF StorageInv, StorageType
<1>6. StorageInv'
    BY <1>1, <1>2, <1>5, QuietKeepsStorage
<1>7. ControlType'
    BY <1>1, <1>2, <1>4 DEF ControlType
<1>8. ~ipl[u].busy
    BY <1>1, <1>2 DEF CrInv
<1>9. /\ CrOf(u)' = as[u] /\ \A x \in Tasks \ {u} : CrOf(x)' = CrOf(x)
      /\ \A x \in Tasks : Segments(x)' = Segments(x)
    BY <1>2 DEF CrOf, Segments
<1>10. ASSUME NEW x \in Tasks, ipl'[x].busy PROVE BusyOK(x)'
  <2>1. x # u
      BY <1>2, <1>8, <1>10
  <2>2. BusyOK(x)
      BY <1>1, <1>2, <1>10 DEF CrInv
  <2> QED BY <2>1, <2>2, <1>2, <1>9 DEF BusyOK
<1>11. ASSUME NEW x \in started'
       PROVE  /\ CrOf(x)' = as'[x]
              /\ ipl'[x].busy => ipl'[x].user = x /\ ipl'[x].saved = as'[x]
  <2>1. CASE x = u
      BY <2>1, <1>2, <1>8, <1>9
  <2>2. CASE x # u
    <3>1. x \in started /\ x \in Tasks
        BY <2>2, <1>2, <1>4 DEF Tasks
    <3> QED BY <3>1, <2>2, <1>1, <1>2, <1>9 DEF CrInv
  <2> QED BY <2>1, <2>2
<1>12. /\ \A x \in Users : ipl'[x].busy => x \in started'
       /\ ipl'[Boot].busy => boot'.step = "begin" /\ boot'.user = ipl'[Boot].user
    BY <1>1, <1>2 DEF CrInv
<1>13. CrInv'
    BY <1>10, <1>11, <1>12 DEF CrInv
<1> QED BY <1>3, <1>6, <1>7, <1>13 DEF IndInv

\* A step that leaves alone whatever IndInv speaks of but the bytes.
LEMMA OtherStep ==
    ASSUME IndInv, Quiet, mem' \in [Addresses -> 0..255],
           UNCHANGED <<cr1, virt_devs, cur, alive, saved, started, boot, ipl>>,
           loaded' \in [Users -> DOMAIN Images \cup {"none"}]
    PROVE  IndInv'
<1>1. StorageInv /\ ControlType /\ BootInv /\ CrInv
    BY DEF IndInv
<1>2. /\ as' = as /\ guest_pages' = guest_pages /\ cr1' = cr1 /\ virt_devs' = virt_devs
      /\ cur' = cur /\ alive' = alive /\ saved' = saved /\ started' = started
      /\ boot' = boot /\ ipl' = ipl
    BY DEF Quiet
<1>3. StorageInv'
  <2>1. cr1' \in Frames \cup {0}
      BY <1>1, <1>2 DEF StorageInv, StorageType
  <2> QED BY <1>1, <2>1, QuietKeepsStorage
<1>4. ControlType'
    BY <1>1, <1>2 DEF ControlType
<1>5. BootInv'
    BY <1>1, <1>2, SameBoot
<1>6. CrInv'
  <2>1. started \subseteq alive \cap Users
      BY <1>1, SMTT(40) DEF ControlType
  <2> QED BY <2>1, <1>1, <1>2, SameCr
<1> QED BY <1>3, <1>4, <1>5, <1>6 DEF IndInv

\* What the commands do to the bytes.
LEMMA CommandBytes ==
    ASSUME mem \in [Addresses -> 0..255], NEW u \in Users, Command(u)
    PROVE  /\ mem' \in [Addresses -> 0..255]
           /\ \/ mem' = mem
              \/ ResetStorage(u) /\ shown' = Nothing
              \/ \E o \in StoreOps :
                   LET host == virt2phy_current(RoundDown(o.addr))
                   IN  /\ host # FAULT /\ mem' = Copied(host, o.word)
                       /\ shown' = [Nothing EXCEPT !.op = "store", !.user = u,
                                                   !.addr = RoundDown(o.addr), !.out = o.word]
<1>1. CASE ResetStorage(u) /\ shown' = Nothing
    BY <1>1, ResetBytes
<1>2. CASE mem' = mem
    BY <1>2, SMTT(40)
<1>3. ASSUME NEW o \in StoreOps, virt2phy_current(RoundDown(o.addr)) # FAULT,
             mem' = Copied(virt2phy_current(RoundDown(o.addr)), o.word),
             shown' = [Nothing EXCEPT !.op = "store", !.user = u,
                                      !.addr = RoundDown(o.addr), !.out = o.word]
      PROVE  mem' \in [Addresses -> 0..255]
    BY <1>3, WordType, CopiedBytes
<1>4. Alters(u) \/ Sets(u)
    BY DEF Command
<1>5. CASE Sets(u)
  <2>1. mem' = mem
      BY <1>5, ZenonT(60) DEF Sets, cmd_store_psw, cmd_store_gpr, cmd_store_fpr, cmd_store_ar,
             cmd_store_cr, StoreRegister, cmd_store_fpcr, system_reset, cmd_stop, SetState,
             guest_begin
  <2> QED BY <2>1, <1>2
<1>6. CASE Alters(u)
  <2>1. CASE \E o \in StoreOps : cmd_store_storage(u, o.addr, o.word)
      BY <2>1, <1>3, ZenonT(60) DEF cmd_store_storage
  <2>2. CASE \E o \in StoreOps : GuestRuns(u, RoundDown(o.addr), o.word)
      BY <2>2, <1>3 DEF GuestRuns
  <2>3. CASE system_clear(u)
      BY <2>3, <1>1 DEF system_clear, ClearReset
  <2> QED BY <2>1, <2>2, <2>3, <1>6, ZenonT(60) DEF Alters
<1> QED BY <1>4, <1>5, <1>6

-----------------------------------------------------------------------------
\* __finish_loading.

Progress == [k : Nat \ {0}, user : Users \cup {"none"}, step : BootSteps, dev : Nat \ {0}]

\* The user that is brought up is none of those before it.
BegunAt(u) ==
    \E k \in 1..Len(Logons) :
        /\ u \in Logons[k] /\ k <= boot.k
        /\ k = boot.k => boot.step # "create" /\ boot.user = u

LEMMA BootUser ==
    ASSUME ControlType, BootInv, boot.k <= Len(Logons)
    PROVE  /\ Logons[boot.k] \subseteq Users /\ boot \in Progress
           /\ boot.step # "create" => boot.user \in Logons[boot.k] /\ boot.user \in Users
           /\ boot.step = "create" => \A u \in Logons[boot.k] : ~Begun(u)
<1>1. boot \in Progress
    BY DEF ControlType, Progress
<1>2. Logons \in Seq(SUBSET Users) /\ Len(Logons) \in Nat
    BY LogonAssumption, LenProperties
<1>3. boot.k \in 1..Len(Logons)
    BY <1>1, <1>2 DEF Progress
<1>4. \A k \in 1..Len(Logons) : Logons[k] \in SUBSET Users
    BY <1>2, ElementOfSeq
<1>5. ASSUME boot.step = "create", NEW u \in Logons[boot.k], Begun(u)
      PROVE  FALSE
  <2>1. u \in Users
      BY <1>3, <1>4
  <2>2. PICK k \in 1..Len(Logons) :
           /\ u \in Logons[k] /\ k <= boot.k
           /\ k = boot.k => boot.step # "create" /\ boot.user = u
      BY <2>1, <1>5 DEF BootInv
  <2>3. k # boot.k
      BY <2>2, <1>5
  <2>4. DOMAIN Logons = 1..Len(Logons)
      BY <1>2, LenProperties
  <2>5. Logons[k] \cap Logons[boot.k] = {}
      BY <2>3, <2>4, <1>3, LogonAssumption
  <2> QED BY <2>2, <2>5
<1>6. boot.step # "create" => boot.user \in Logons[boot.k]
    BY DEF BootInv
<1> QED BY <1>1, <1>3, <1>4, <1>5, <1>6

\* What BootInv says of each user.
UserOK(u) ==
    /\ Begun(u) => BegunAt(u)
    /\ Len(guest_pages[u]) <= Directory[u].storage
    /\ as[u] = 0 <=> Len(guest_pages[u]) = 0
    /\ u \in alive => Len(guest_pages[u]) = Directory[u].storage

LEMMA BootInvParts ==
    BootInv <=>
        /\ boot.step # "create" =>
             boot.k <= Len(Logons) /\ boot.user \in Logons[boot.k]
        /\ boot.step = "devices" => boot.user \notin alive
        /\ boot.step \in {"ipl", "begin", "attach"} => boot.user \in alive
        /\ boot.step = "create" => boot.dev = 1
        /\ DOMAIN virt_devs = Users
        /\ \A u \in Users : UserOK(u)
BY Zenon DEF BootInv, UserOK, BegunAt

LEMMA NextBootInv ==
    ASSUME boot'.step # "create" => boot'.k <= Len(Logons) /\ boot'.user \in Logons[boot'.k],
           boot'.step = "devices" => boot'.user \notin alive',
           boot'.step \in {"ipl", "begin", "attach"} => boot'.user \in alive',
           boot'.step = "create" => boot'.dev = 1,
           DOMAIN virt_devs' = Users,
           \A u \in Users : UserOK(u)'
    PROVE  BootInv'
BY Zenon DEF BootInv, UserOK, BegunAt

\* A step of __finish_loading for the user u0, which leaves alone the others.
LEMMA UserStep ==
    ASSUME ControlType, BootInv, NEW u0 \in Users,
           boot.k <= Len(Logons), u0 \in Logons[boot.k],
           boot.step = "create" \/ boot.user = u0,
           boot'.k = boot.k, boot'.step # "create", boot'.user = u0,
           \A u \in Users \ {u0} : /\ as'[u] = as[u] /\ guest_pages'[u] = guest_pages[u]
                                   /\ virt_devs'[u] = virt_devs[u]
                                   /\ u \in alive' <=> u \in alive
    PROVE  /\ \A u \in Users \ {u0} : UserOK(u)'
           /\ BegunAt(u0)'
<1>1. Len(Logons) \in Nat /\ boot.k \in 1..Len(Logons)
  <2>1. boot.k \in Nat \ {0} /\ Len(Logons) \in Nat
      BY LogonAssumption, LenProperties DEF ControlType
  <2> QED BY <2>1
<1>2. BegunAt(u0)'
    BY <1>1 DEF BegunAt
<1>3. ASSUME NEW u \in Users \ {u0} PROVE UserOK(u)'
  <2>1. UserOK(u)
      BY BootInvParts
  <2>2. Begun(u)' <=> Begun(u)
      BY DEF Begun
  <2>3. BegunAt(u) => BegunAt(u)'
    <3>1. ASSUME BegunAt(u) PROVE BegunAt(u)'
      <4>1. PICK k \in 1..Len(Logons) :
               /\ u \in Logons[k] /\ k <= boot.k
               /\ k = boot.k => boot.step # "create" /\ boot.user = u
          BY <3>1 DEF BegunAt
      <4>2. k # boot.k
          BY <4>1
      <4> QED BY <4>1, <4>2 DEF BegunAt
    <3> QED BY <3>1
  <2>4. as'[u] = as[u] /\ guest_pages'[u] = guest_pages[u] /\ (u \in alive' <=> u \in alive)
      OBVIOUS
  <2> QED BY <2>1, <2>2, <2>3, <2>4 DEF UserOK
<1> QED BY <1>2, <1>3

LEMMA CreateStep ==
    ASSUME IndInv, Create
    PROVE  IndInv'
<1>1. StorageInv /\ ControlType /\ BootInv /\ CrInv
    BY DEF IndInv
<1>2. PICK u0 \in Logons[boot.k] : boot' = [boot EXCEPT !.user = u0, !.step = "devices"]
    BY DEF Create
<1>3. /\ boot.k <= Len(Logons) /\ boot.step = "create" /\ GetPage
      /\ cur' = cur /\ alive' = alive /\ saved' = saved /\ started' = started /\ ipl' = ipl
      /\ loaded' = loaded /\ virt_devs' = virt_devs /\ as' = as /\ guest_pages' = guest_pages
      /\ cr1' = cr1
    BY DEF Create, Booting, GetPage, devices
<1>4. u0 \in Users /\ ~Begun(u0) /\ boot \in Progress
    BY <1>1, <1>3, BootUser
<1>5. /\ boot'.k = boot.k /\ boot'.user = u0 /\ boot'.step = "devices" /\ boot'.dev = boot.dev
      /\ boot' \in Progress
    BY <1>2, <1>4 DEF Progress, BootSteps
<1>6. ControlType'
    BY <1>1, <1>3, <1>5 DEF ControlType, Progress
<1>7. (\A u \in Users \ {u0} : UserOK(u)') /\ BegunAt(u0)'
    BY <1>1, <1>3, <1>4, <1>5, UserStep
<1>8. UserOK(u0)'
  <2>1. UserOK(u0)
      BY <1>1, <1>4, BootInvParts
  <2> QED BY <2>1, <1>3, <1>7 DEF UserOK
<1>9. u0 \notin alive
    BY <1>4 DEF Begun
<1>10. BootInv'
  <2>1. \A u \in Users : UserOK(u)'
      BY <1>7, <1>8
  <2>2. boot'.k <= Len(Logons) /\ boot'.user \in Logons[boot'.k] /\ boot'.user \notin alive'
      BY <1>2, <1>3, <1>5, <1>9
  <2>3. DOMAIN virt_devs' = Users
      BY <1>1, <1>3 DEF BootInv
  <2> QED BY <2>1, <2>2, <2>3, <1>5, NextBootInv
<1>11. CrInv'
  <2>1. started \subseteq alive \cap Users
      BY <1>1 DEF ControlType
  <2>2. ~ipl[Boot].busy
      BY <1>1, <1>3 DEF CrInv
  <2> QED BY <2>1, <2>2, <1>1, <1>3, SameCr
<1> QED BY <1>1, <1>3, <1>6, <1>10, <1>11, GetPageKeepsStorage DEF IndInv

LEMMA DeviceStep ==
    ASSUME IndInv, CreateDevice
    PROVE  IndInv'
<1>1. StorageInv /\ ControlType /\ BootInv /\ CrInv
    BY DEF IndInv
<1>2. /\ boot.k <= Len(Logons) /\ boot.step = "devices" /\ boot' = [boot EXCEPT !.dev = @ + 1]
      /\ alloc_guest_devices(boot.user, boot.dev)
      /\ cur' = cur /\ alive' = alive /\ saved' = saved /\ started' = started /\ ipl' = ipl
      /\ loaded' = loaded /\ as' = as /\ guest_pages' = guest_pages
      /\ cr1' = cr1 /\ mem' = mem /\ Quiet
    BY DEF CreateDevice, Booting, storage, Quiet, User
<1>3. boot.user \in Users /\ boot.user \in Logons[boot.k] /\ boot \in Progress
    BY <1>1, <1>2, BootUser
<1>4. PICK u0 \in Users : u0 = boot.user
    BY <1>3
<1>5. DOMAIN virt_devs = Users
    BY <1>1, SMTT(40) DEF BootInv
<1>6. DOMAIN virt_devs' = Users /\ \A u \in Users \ {u0} : virt_devs'[u] = virt_devs[u]
    BY <1>2, <1>4, <1>5 DEF alloc_guest_devices, alloc_virt_dev, devices
<1>7. boot'.k = boot.k /\ boot'.user = u0 /\ boot'.step = "devices" /\ boot' \in Progress
    BY <1>2, <1>3, <1>4 DEF Progress
<1>8. ControlType'
    BY <1>1, <1>2, <1>7 DEF ControlType, Progress
<1>9. (\A u \in Users \ {u0} : UserOK(u)') /\ BegunAt(u0)'
    BY <1>1, <1>2, <1>3, <1>4, <1>6, <1>7, UserStep
<1>10. UserOK(u0)'
  <2>1. UserOK(u0)
      BY <1>1, BootInvParts
  <2> QED BY <2>1, <1>2, <1>9 DEF UserOK
<1>11. BootInv'
  <2>1. \A u \in Users : UserOK(u)'
      BY <1>9, <1>10
  <2>2. boot'.k <= Len(Logons) /\ boot'.user \in Logons[boot'.k] /\ boot'.user \notin alive'
      BY <1>1, <1>2, <1>3, <1>4, <1>7 DEF BootInv
  <2> QED BY <2>1, <2>2, <1>6, <1>7, NextBootInv
<1>12. CrInv'
  <2>1. started \subseteq alive \cap Users
      BY <1>1 DEF ControlType
  <2>2. ~ipl[Boot].busy
      BY <1>1, <1>2 DEF CrInv
  <2> QED BY <2>1, <2>2, <1>1, <1>2, SameCr
<1>13. StorageInv'
    BY <1>1, <1>2, QuietKeepsStorage DEF StorageInv, StorageType
<1> QED BY <1>8, <1>11, <1>12, <1>13 DEF IndInv

LEMMA PageStep ==
    ASSUME IndInv, CreatePage
    PROVE  IndInv'
<1>1. StorageInv /\ ControlType /\ BootInv /\ CrInv
    BY DEF IndInv
<1>2. /\ boot.k <= Len(Logons) /\ boot.step = "devices" /\ ~HasStorage
      /\ alloc_guest_storage(boot.user)
      /\ cur' = cur /\ alive' = alive /\ saved' = saved /\ started' = started /\ ipl' = ipl
      /\ loaded' = loaded /\ boot' = boot /\ virt_devs' = virt_devs
    BY DEF CreatePage, Booting, devices, control, User
<1>3. boot.user \in Users /\ boot.user \in Logons[boot.k] /\ boot \in Progress
    BY <1>1, <1>2, BootUser
<1>4. PICK u0 \in Users : u0 = boot.user
    BY <1>3
<1>5. UserOK(u0)
    BY <1>1, BootInvParts
<1>6. Len(guest_pages[u0]) \in Nat /\ Len(guest_pages[u0]) < Directory[u0].storage
  <2>1. guest_pages[u0] \in Seq(Frames)
      BY <1>1 DEF StorageInv, StorageType
  <2>2. Len(guest_pages[u0]) \in Nat
      BY <2>1, LenProperties
  <2>3. Len(guest_pages[u0]) # Directory[u0].storage
      BY <1>2, <1>4 DEF HasStorage, User
  <2> QED BY <2>2, <2>3, <1>5, DirectoryAssumption DEF UserOK
<1>7. NextPage(u0) \in Nat
    BY <1>6, DirectoryAssumption DEF NextPage
<1>8. PICK p, seg, pt : Inserted(u0, p, seg, pt)
    BY <1>1, <1>2, <1>4, <1>7, InsertEffect
<1>9. mem' = mem /\ cr1' = cr1
    BY <1>2 DEF alloc_guest_storage
<1>10. StorageInv'
    BY <1>1, <1>5, <1>7, <1>8, <1>9, InsertKeepsStorage DEF UserOK
<1>11. /\ as' = [as EXCEPT ![u0] = seg] /\ seg \in Frames
       /\ guest_pages' = [guest_pages EXCEPT ![u0] = <<p>> \o @] /\ p \in free
    BY <1>8 DEF Inserted
<1>12. /\ as'[u0] = seg /\ guest_pages'[u0] = <<p>> \o guest_pages[u0]
       /\ \A u \in Users \ {u0} : as'[u] = as[u] /\ guest_pages'[u] = guest_pages[u]
    BY <1>1, <1>11 DEF StorageInv, StorageType
<1>13. Len(guest_pages'[u0]) = Len(guest_pages[u0]) + 1 /\ as'[u0] # 0
  <2>1. guest_pages[u0] \in Seq(Frames) /\ <<p>> \in Seq(Frames) /\ Len(<<p>>) = 1
      BY <1>1, <1>11 DEF StorageInv, StorageType
  <2>2. Len(<<p>> \o guest_pages[u0]) = 1 + Len(guest_pages[u0])
      BY <2>1, ConcatProperties
  <2>3. 0 \notin Frames
      BY FrameAssumption DEF Frames
  <2>4. Len(guest_pages'[u0]) = 1 + Len(guest_pages[u0])
      BY <2>2, <1>12, Zenon
  <2>5. as'[u0] # 0
      BY <2>3, <1>11, <1>12, Zenon
  <2> QED BY <2>4, <2>5, <1>6
<1>14. ControlType'
    BY <1>1, <1>2 DEF ControlType
<1>15. u0 \notin alive
    BY <1>1, <1>2, <1>4 DEF BootInv
<1>16. (\A u \in Users \ {u0} : UserOK(u)') /\ BegunAt(u0)'
    BY <1>1, <1>2, <1>3, <1>4, <1>12, UserStep
<1>17. UserOK(u0)'
    BY <1>2, <1>6, <1>13, <1>15, <1>16, DirectoryAssumption DEF UserOK
<1>18. BootInv'
  <2>1. \A u \in Users : UserOK(u)'
      BY <1>16, <1>17
  <2>2. boot'.k <= Len(Logons) /\ boot'.user \in Logons[boot'.k] /\ boot'.user \notin alive'
      BY <1>2, <1>3, <1>4, <1>15
  <2>3. DOMAIN virt_devs' = Users
      BY <1>1, <1>2 DEF BootInv
  <2> QED BY <2>1, <2>2, <2>3, <1>2, NextBootInv
<1>19. CrInv'
  <2>1. started \subseteq alive \cap Users
      BY <1>1 DEF ControlType
  <2>2. \A u \in alive \cap Users : as'[u] = as[u]
      BY <1>12, <1>15
  <2> QED BY <2>1, <2>2, <1>1, <1>2, <1>9, SameCr
<1> QED BY <1>10, <1>14, <1>18, <1>19 DEF IndInv

LEMMA TaskStep ==
    ASSUME IndInv, CreateTask
    PROVE  IndInv'
<1>1. StorageInv /\ ControlType /\ BootInv /\ CrInv
    BY DEF IndInv
<1>2. /\ boot.k <= Len(Logons) /\ boot.step = "devices" /\ HasStorage /\ GetPage
      /\ boot' = [boot EXCEPT !.step = "ipl"] /\ alive' = alive \cup {boot.user}
      /\ cur' = cur /\ saved' = saved /\ started' = started /\ ipl' = ipl
      /\ loaded' = loaded /\ virt_devs' = virt_devs /\ as' = as /\ guest_pages' = guest_pages
      /\ cr1' = cr1
    BY DEF CreateTask, Booting, devices, User, GetPage
<1>3. boot.user \in Users /\ boot.user \in Logons[boot.k] /\ boot \in Progress
    BY <1>1, <1>2, BootUser
<1>4. PICK u0 \in Users : u0 = boot.user
    BY <1>3
<1>5. boot'.k = boot.k /\ boot'.user = u0 /\ boot'.step = "ipl" /\ boot' \in Progress
    BY <1>2, <1>3, <1>4 DEF Progress, BootSteps
<1>6. ControlType'
    BY <1>1, <1>2, <1>3, <1>5 DEF ControlType, Progress, Tasks
<1>7. (\A u \in Users \ {u0} : UserOK(u)') /\ BegunAt(u0)'
    BY <1>1, <1>2, <1>3, <1>4, <1>5, UserStep
<1>8. UserOK(u0)'
  <2>1. UserOK(u0)
      BY <1>1, BootInvParts
  <2>2. Len(guest_pages[u0]) = Directory[u0].storage
      BY <1>2, <1>4 DEF HasStorage, User
  <2> QED BY <2>1, <2>2, <1>2, <1>7 DEF UserOK
<1>9. BootInv'
  <2>1. \A u \in Users : UserOK(u)'
      BY <1>7, <1>8
  <2>2. boot'.k <= Len(Logons) /\ boot'.user \in Logons[boot'.k] /\ boot'.user \in alive'
      BY <1>2, <1>3, <1>4, <1>5
  <2>3. DOMAIN virt_devs' = Users
      BY <1>1, <1>2 DEF BootInv
  <2> QED BY <2>1, <2>2, <2>3, <1>5, NextBootInv
<1>10. CrInv'
  <2>1. started \subseteq alive \cap Users
      BY <1>1 DEF ControlType
  <2>2. ~ipl[Boot].busy
      BY <1>1, <1>2 DEF CrInv
  <2> QED BY <2>1, <2>2, <1>1, <1>2, SameCr
<1> QED BY <1>1, <1>2, <1>6, <1>9, <1>10, GetPageKeepsStorage DEF IndInv

\* The steps after guest_create, which only go on to the next.
LEMMA LaterStep ==
    ASSUME ControlType, BootInv, UNCHANGED <<alive, as, guest_pages, virt_devs>>,
           boot.k <= Len(Logons), boot.step \in {"ipl", "begin"},
           NEW s \in {"begin", "attach"}, boot' = [boot EXCEPT !.step = s]
    PROVE  BootInv' /\ boot' \in Progress /\ boot'.step = s /\ boot'.user = boot.user
<1>1. /\ alive' = alive /\ as' = as /\ guest_pages' = guest_pages /\ virt_devs' = virt_devs
    OBVIOUS
<1>2. /\ boot.user \in Users /\ boot.user \in Logons[boot.k] /\ boot.user \in alive
      /\ boot \in Progress
    BY BootUser DEF BootInv
<1>3. PICK u0 \in Users : u0 = boot.user
    BY <1>2
<1>4. boot'.k = boot.k /\ boot'.user = u0 /\ boot'.step = s /\ boot' \in Progress
    BY <1>2, <1>3 DEF Progress, BootSteps
<1>5. (\A u \in Users \ {u0} : UserOK(u)') /\ BegunAt(u0)'
    BY <1>1, <1>2, <1>3, <1>4, UserStep
<1>6. UserOK(u0)'
  <2>1. UserOK(u0)
      BY BootInvParts
  <2> QED BY <2>1, <1>1, <1>5 DEF UserOK
<1>7. BootInv'
  <2>1. \A u \in Users : UserOK(u)'
      BY <1>5, <1>6
  <2>2. boot'.k <= Len(Logons) /\ boot'.user \in Logons[boot'.k] /\ boot'.user \in alive'
      BY <1>1, <1>2, <1>3, <1>4
  <2>3. DOMAIN virt_devs' = Users
      BY <1>1 DEF BootInv
  <2> QED BY <2>1, <2>2, <2>3, <1>4, NextBootInv
<1> QED BY <1>3, <1>4, <1>7

LEMMA LoadStep ==
    ASSUME IndInv, Load
    PROVE  IndInv'
<1>1. StorageInv /\ ControlType /\ BootInv /\ CrInv
    BY DEF IndInv
<1>2. /\ boot.k <= Len(Logons) /\ boot.step = "ipl" /\ cur = Boot
      /\ IplStart(Boot, boot.user, Directory[boot.user].nss)
      /\ boot' = [boot EXCEPT !.step = "begin"]
    BY DEF Load, Booting, User
<1>3. UNCHANGED <<alive, as, guest_pages, virt_devs>>
    BY <1>2 DEF IplStart, devices
<1>4. BootInv' /\ boot' \in Progress /\ boot'.step = "begin" /\ boot'.user = boot.user
    BY <1>1, <1>2, <1>3, LaterStep
<1>5. boot.user \in Users /\ boot.user \in alive
    BY <1>1, <1>2, BootUser DEF BootInv
<1>6. PICK u0 \in Users : u0 = boot.user
    BY <1>5
<1>7. PICK nss : nss = Directory[boot.user].nss
    OBVIOUS
<1>8. Boot \in Tasks
    BY DEF Tasks
<1>9. /\ StorageInv' /\ CrInv' /\ UNCHANGED <<cur, alive, saved, started>>
      /\ ipl' \in [Tasks -> Cursor] /\ loaded' \in [Users -> DOMAIN Images \cup {"none"}]
    BY <1>2, <1>4, <1>5, <1>6, <1>7, <1>8, IplStartStep
<1>10. ControlType'
    BY <1>1, <1>4, <1>9 DEF ControlType, Progress
<1> QED BY <1>4, <1>9, <1>10 DEF IndInv

LEMMA BeginStep ==
    ASSUME IndInv, Begin
    PROVE  IndInv'
<1>1. StorageInv /\ ControlType /\ BootInv /\ CrInv
    BY DEF IndInv
<1>2. /\ boot.k <= Len(Logons) /\ boot.step = "begin" /\ ~ipl[Boot].busy
      /\ boot' = [boot EXCEPT !.step = "attach"] /\ mem' = mem
      /\ alive' = alive /\ as' = as /\ guest_pages' = guest_pages /\ virt_devs' = virt_devs
      /\ cur' = cur /\ saved' = saved /\ started' = started /\ ipl' = ipl
      /\ loaded' = loaded /\ cr1' = cr1 /\ Quiet
    BY DEF Begin, Booting, Quiet, devices, guest_begin, SetState
<1>3. BootInv' /\ boot' \in Progress
    BY <1>1, <1>2, LaterStep
<1>4. ControlType'
    BY <1>1, <1>2, <1>3 DEF ControlType, Progress
<1>5. CrInv'
  <2>1. started \subseteq alive \cap Users
      BY <1>1 DEF ControlType
  <2> QED BY <2>1, <1>1, <1>2, SameCr
<1>6. StorageInv'
    BY <1>1, <1>2, QuietKeepsStorage DEF StorageInv, StorageType
<1> QED BY <1>3, <1>4, <1>5, <1>6 DEF IndInv

LEMMA AttachStep ==
    ASSUME IndInv, Attach
    PROVE  IndInv'
<1>1. StorageInv /\ ControlType /\ BootInv /\ CrInv
    BY DEF IndInv
<1>2. /\ boot.k <= Len(Logons) /\ boot.step = "attach" /\ cur = Boot
      /\ guest_attach(boot.user, Directory[boot.user].console)
      /\ boot' = NoBoot(boot.k + 1) /\ mem' = mem
      /\ alive' = (IF boot.k = Len(Logons) THEN alive \ {Boot} ELSE alive)
      /\ as' = as /\ guest_pages' = guest_pages
      /\ cur' = cur /\ saved' = saved /\ started' = started /\ ipl' = ipl
      /\ loaded' = loaded /\ cr1' = cr1 /\ Quiet
    BY DEF Attach, Booting, Quiet, User, storage
<1>3. /\ boot.user \in Users /\ boot.user \in Logons[boot.k] /\ boot \in Progress
      /\ boot.k \in 1..Len(Logons)
  <2>1. Len(Logons) \in Nat
      BY LogonAssumption, LenProperties
  <2> QED BY <2>1, <1>1, <1>2, BootUser DEF Progress
<1>4. PICK u0 \in Users : u0 = boot.user
    BY <1>3
<1>5. DOMAIN virt_devs = Users
    BY <1>1 DEF BootInv
<1>6. DOMAIN virt_devs' = Users /\ \A u \in Users \ {u0} : virt_devs'[u] = virt_devs[u]
    BY <1>2, <1>4, <1>5 DEF guest_attach, alloc_virt_dev, devices
<1>7. /\ boot'.k = boot.k + 1 /\ boot'.step = "create" /\ boot'.dev = 1 /\ boot' \in Progress
    BY <1>2, <1>3 DEF Progress, NoBoot, BootSteps
<1>8. \A u \in Users : u \in alive' <=> u \in alive
    BY <1>2, UserAssumption
<1>9. ControlType'
  <2>1. cur' \in alive' \cup {Boot} /\ alive' \subseteq Tasks /\ started' \subseteq alive' \cap Users
      BY <1>1, <1>2, <1>8 DEF ControlType
  <2> QED BY <2>1, <1>1, <1>2, <1>7 DEF ControlType, Progress
<1>10. ASSUME NEW u \in Users PROVE UserOK(u)'
  <2>1. UserOK(u)
      BY <1>1, BootInvParts
  <2>2. BegunAt(u) \/ u = u0 => BegunAt(u)'
    <3>1. ASSUME NEW k \in 1..Len(Logons), u \in Logons[k], k <= boot.k
          PROVE  BegunAt(u)'
      <4>1. k <= boot.k + 1 /\ k # boot.k + 1
          BY <3>1, <1>3
      <4> QED BY <4>1, <3>1, <1>7 DEF BegunAt
    <3>2. BegunAt(u) \/ u = u0 => \E k \in 1..Len(Logons) : u \in Logons[k] /\ k <= boot.k
        BY <1>3, <1>4 DEF BegunAt
    <3> QED BY <3>1, <3>2
  <2>3. Begun(u)' => Begun(u) \/ u = u0
      BY <1>2, <1>6, <1>8 DEF Begun
  <2> QED BY <2>1, <2>2, <2>3, <1>2, <1>8 DEF UserOK
<1>11. BootInv'
    BY <1>6, <1>7, <1>10, NextBootInv
<1>12. CrInv'
  <2>1. started \subseteq alive \cap Users
      BY <1>1 DEF ControlType
  <2>2. ~ipl[Boot].busy
      BY <1>1, <1>2 DEF CrInv
  <2> QED BY <2>1, <2>2, <1>1, <1>2, <1>8, SameCr
<1>13. StorageInv'
    BY <1>1, <1>2, QuietKeepsStorage DEF StorageInv, StorageType
<1> QED BY <1>9, <1>11, <1>12, <1>13 DEF IndInv

-----------------------------------------------------------------------------
\* The invariant.

LEMMA InitInv == Init => IndInv
<1> SUFFICES ASSUME Init PROVE IndInv
    OBVIOUS
<1>1. /\ free = Frames /\ mem = [a \in Addresses |-> 255] /\ tables = [f \in Frames |-> NoTable]
      /\ as = [u \in Users |-> 0] /\ guest_pages = [u \in Users |-> <<>>] /\ cr1 = 0
      /\ virt_devs = [u \in Users |-> <<>>] /\ cur = Boot /\ alive = {Boot}
      /\ saved = [t \in Tasks |-> 0] /\ started = {} /\ boot = NoBoot(1)
      /\ ipl = [t \in Tasks |-> NoIpl] /\ loaded = [u \in Users |-> "none"]
    BY DEF Init, StorageInit, DevicesInit
<1>2. \A u \in Users : /\ as[u] = 0 /\ Len(guest_pages[u]) = 0 /\ guest_pages[u] = <<>>
                       /\ virt_devs[u] = <<>> /\ u \notin alive
    BY <1>1, UserAssumption
<1>3. StorageInv
  <2>1. StorageType
      BY <1>1 DEF StorageType
  <2>2. TablesInv
      BY <1>2 DEF TablesInv
  <2>3. FramesInv
      BY <1>1, <1>2 DEF FramesInv
  <2>4. MappingInv
    <3>1. \A u \in Users : as[u] = 0
        BY <1>2
    <3> QED BY <3>1 DEF MappingInv
  <2> QED BY <2>1, <2>2, <2>3, <2>4 DEF StorageInv
<1>4. /\ boot.k = 1 /\ boot.user = "none" /\ boot.step = "create" /\ boot.dev = 1
      /\ boot \in Progress
    BY <1>1 DEF NoBoot, Progress, BootSteps
<1>5. NoIpl \in Cursor /\ NoIpl.busy = FALSE
    BY DEF NoIpl, Cursor
<1>6. ControlType
    BY <1>1, <1>4, <1>5 DEF ControlType, Progress, Tasks
<1>7. BootInv
  <2>1. \A u \in Users : ~Begun(u)
      BY <1>2 DEF Begun
  <2>2. \A u \in Users : UserOK(u)
    <3> TAKE u \in Users
    <3>1. ~Begun(u) /\ as[u] = 0 /\ Len(guest_pages[u]) = 0 /\ u \notin alive
        BY <2>1, <1>2, Zenon
    <3> QED BY <3>1, DirectoryAssumption DEF UserOK
  <2> QED BY <2>2, <1>1, <1>4, BootInvParts
<1>8. CrInv
  <2>1. \A t \in Tasks : ~ipl[t].busy
      BY <1>1, <1>5
  <2> QED BY <2>1, <1>1 DEF CrInv, Tasks
<1> QED BY <1>3, <1>6, <1>7, <1>8 DEF IndInv

LEMMA NextInv == IndInv /\ [Next]_vars => IndInv'
<1> SUFFICES ASSUME IndInv, [Next]_vars PROVE IndInv'
    OBVIOUS
<1>0. /\ mem \in [Addresses -> 0..255] /\ loaded \in [Users -> DOMAIN Images \cup {"none"}]
    BY DEF IndInv, StorageInv, StorageType, ControlType
<1>1. CASE UNCHANGED vars
  <2>1. /\ Quiet /\ mem' = mem /\ loaded' = loaded
        /\ UNCHANGED <<cr1, virt_devs, cur, alive, saved, started, boot, ipl>>
      BY <1>1 DEF vars, storage, devices, control, Quiet
  <2> QED BY <2>1, <1>0, OtherStep
<1>2. CASE \E t \in Tasks : Switch(t) \/ IplCopy(t) \/ IplEnd(t)
    BY <1>2, SwitchStep, IplCopyStep, IplEndStep
<1>3. CASE Create \/ CreateDevice \/ CreatePage \/ CreateTask \/ Load \/ Begin \/ Attach
    BY <1>3, CreateStep, DeviceStep, PageStep, TaskStep, LoadStep, BeginStep, AttachStep
<1>4. CASE Dies
  <2>1. /\ Quiet /\ mem' = mem /\ loaded' = loaded
        /\ UNCHANGED <<cr1, virt_devs, cur, alive, saved, started, boot, ipl>>
      BY <1>4 DEF Dies, storage, devices, Quiet
  <2> QED BY <2>1, <1>0, OtherStep
<1>5. ASSUME NEW u \in Users, ShellStart(u) PROVE IndInv'
    BY <1>5, ShellStep
<1>6. ASSUME NEW u \in Users, Command(u) PROVE IndInv'
  <2>1. mem' \in [Addresses -> 0..255]
      BY <1>0, <1>6, CommandBytes
  <2>2. /\ Quiet /\ UNCHANGED <<cr1, virt_devs, cur, alive, saved, started, boot, ipl>>
      BY <1>6 DEF Command, devices, Quiet
  <2>3. loaded' \in [Users -> DOMAIN Images \cup {"none"}]
    <3>1. loaded' = loaded \/ loaded' = [loaded EXCEPT ![u] = "none"]
        BY <1>6 DEF Command, Alters, Sets
    <3> QED BY <3>1, <1>0
  <2> QED BY <2>1, <2>2, <2>3, OtherStep
<1>7. ASSUME NEW u \in Users, Display(u) PROVE IndInv'
  <2>1. /\ Quiet /\ mem' = mem /\ loaded' = loaded
        /\ UNCHANGED <<cr1, virt_devs, cur, alive, saved, started, boot, ipl>>
      BY <1>7 DEF Display, cmd_display_storage, devices, control, Quiet
  <2> QED BY <2>1, <1>0, OtherStep
<1>8. ASSUME NEW u \in Users, Channel(u) PROVE IndInv'
  <2>1. /\ Quiet /\ mem' = mem /\ loaded' = loaded
        /\ UNCHANGED <<cr1, virt_devs, cur, alive, saved, started, boot, ipl>>
      BY <1>8 DEF Channel, ExecCcw, storage, devices, control, Quiet
  <2> QED BY <2>1, <1>0, OtherStep
<1>9. ASSUME NEW u \in Users, NEW nss, cmd_ipl(u, nss) PROVE IndInv'
  <2>1. /\ cur = u /\ u \in started /\ IplStart(u, u, nss) /\ boot' = boot
      BY <1>9 DEF cmd_ipl, Free
  <2>2. StorageInv /\ ControlType /\ BootInv /\ CrInv
      BY DEF IndInv
  <2>3. u \in Tasks /\ u # Boot /\ u \in alive
      BY <2>1, <2>2, UserAssumption DEF Tasks, ControlType
  <2>4. /\ StorageInv' /\ CrInv' /\ ipl' \in [Tasks -> Cursor]
        /\ UNCHANGED <<cur, alive, saved, started, as, guest_pages, virt_devs>>
        /\ loaded' \in [Users -> DOMAIN Images \cup {"none"}]
      BY <2>1, <2>3, IplStartStep
  <2>5. ControlType'
      BY <2>1, <2>2, <2>4 DEF ControlType
  <2>6. BootInv'
      BY <2>1, <2>2, <2>4, SameBoot
  <2> QED BY <2>4, <2>5, <2>6 DEF IndInv
<1>10. ASSUME NEW u \in Users, NEW p, Ssch(u, p) PROVE IndInv'
  <2>1. /\ Quiet /\ mem' = mem /\ loaded' = loaded
        /\ UNCHANGED <<cr1, virt_devs, cur, alive, saved, started, boot, ipl>>
      BY <1>10 DEF Ssch, storage, devices, Quiet
  <2> QED BY <2>1, <1>0, OtherStep
<1> QED BY <1>1, <1>2, <1>3, <1>4, <1>5, <1>6, <1>7, <1>8, <1>9, <1>10 DEF Next

\* Whatever the tasks do and wherever they are preempted, the tables of each user
\* lead to the frames that were obtained for it, and a task finds in CR 1 the
\* address space it works on (__schedule, load_as, guest_ipl_nss).
THEOREM Invariance == Spec => []IndInv
<1> QED BY InitInv, NextInv, PTL DEF Spec

-----------------------------------------------------------------------------
\* Isolation.

LEMMA OwnFrames ==
    ASSUME StorageInv, NEW u \in Users
    PROVE  /\ guest_pages[u] \in Seq(Frames) /\ Len(guest_pages[u]) \in Nat
           /\ DOMAIN guest_pages[u] = 1..Len(guest_pages[u])
           /\ \A f : f \in FramesOf(u) <=> \E i \in 1..Len(guest_pages[u]) : f = guest_pages[u][i]
           /\ \A f \in FramesOf(u) : f \in Frames /\ f \notin free /\ tables[f] = NoTable
           /\ \A w \in Users : \A f \in FramesOf(u) : f \in FramesOf(w) => u = w
<1>1. guest_pages[u] \in Seq(Frames) /\ \A w \in Users : guest_pages[w] \in Seq(Frames)
    BY DEF StorageInv, StorageType
<1>2. \A w \in Users : Len(guest_pages[w]) \in Nat /\ DOMAIN guest_pages[w] = 1..Len(guest_pages[w])
    BY <1>1, LenProperties
<1>3. \A w \in Users : \A f :
        f \in FramesOf(w) <=> \E i \in 1..Len(guest_pages[w]) : f = guest_pages[w][i]
    BY <1>2 DEF FramesOf, Range
<1>4. \A f \in FramesOf(u) : f \in Frames /\ f \notin free /\ tables[f] = NoTable
    BY <1>3, PagesApart
<1>5. ASSUME NEW w \in Users, NEW f \in FramesOf(u), f \in FramesOf(w)
      PROVE  u = w
  <2>1. PICK i \in 1..Len(guest_pages[u]) : f = guest_pages[u][i]
      BY <1>3
  <2>2. PICK j \in 1..Len(guest_pages[w]) : f = guest_pages[w][j]
      BY <1>3, <1>5
  <2>3. guest_pages[u][i] = guest_pages[w][j]
      BY <2>1, <2>2
  <2> QED BY ONLY StorageInv, u \in Users, w \in Users, i \in 1..Len(guest_pages[u]),
                  j \in 1..Len(guest_pages[w]), <2>3, PagesApart
<1> QED BY <1>1, <1>2, <1>3, <1>4, <1>5

\* The host address that a user's tables give for an address of the user.
LEMMA HostAddress ==
    ASSUME StorageInv, BootInv, NEW u \in Users, u \in alive, NEW a \in Int,
           Translate(as[u], a) # FAULT
    PROVE  /\ a \in Nat /\ a \div PAGE + 1 \in 1..Len(guest_pages[u])
           /\ a < LIMIT /\ a % PAGE \in 0..(PAGE - 1)
           /\ guest_pages[u][a \div PAGE + 1] \in FramesOf(u)
           /\ Translate(as[u], a) = guest_pages[u][a \div PAGE + 1] * PAGE + (a % PAGE)
<1>1. as[u] # 0 /\ Len(guest_pages[u]) = Directory[u].storage
    BY AliveUser
<1>2. /\ a >= 0 /\ a \div PAGE < Len(guest_pages[u]) /\ a < LIMIT
      /\ Translate(as[u], a) = guest_pages[u][a \div PAGE + 1] * PAGE + (a % PAGE)
    BY <1>1, TranslateOwn, Zenon
<1>3. a \in Nat
    BY <1>2
<1>4. a \div PAGE \in Nat /\ a % PAGE \in 0..(PAGE - 1)
    BY <1>3, Indices
<1>5. Len(guest_pages[u]) \in Nat
    BY OwnFrames
<1>6. a \div PAGE + 1 \in 1..Len(guest_pages[u])
    BY <1>2, <1>4, <1>5
<1> QED BY <1>2, <1>3, <1>4, <1>6, OwnFrames

\* What is copied through a user's tables does not reach any other user.
LEMMA CopyIsolated ==
    ASSUME StorageInv, BootInv, NEW u \in Users, u \in alive, NEW a \in Int,
           Translate(as[u], a) # FAULT, NEW data \in Seq(0..255),
           NEW w \in Users, w # u, NEW f \in FramesOf(w), NEW i \in 0..(PAGE - 1)
    PROVE  Copied(Translate(as[u], a), data)[f * PAGE + i] = mem[f * PAGE + i]
<1> DEFINE g == guest_pages[u][a \div PAGE + 1]
           b == a % PAGE
<1>1. g \in FramesOf(u) /\ b \in 0..(PAGE - 1) /\ Translate(as[u], a) = g * PAGE + b
    BY HostAddress
<1> HIDE DEF g, b
<1>2. g \in Frames /\ f \in Frames /\ g # f
    BY <1>1, OwnFrames
<1>3. f * PAGE + i \in Addresses /\ (f * PAGE + i) \div PAGE = f
    BY <1>2, FrameBytes
<1>4. ASSUME NEW k \in 1..Len(data) PROVE Target(g * PAGE + b, k) # f * PAGE + i
  <2>1. k \in Nat \ {0}
      BY LenProperties
  <2>2. PICK c \in b..(PAGE - 1) : Target(g * PAGE + b, k) = g * PAGE + c
      BY <2>1, <1>1, <1>2, TargetInFrame
  <2>3. c \in 0..(PAGE - 1)
      BY <1>1, PageAssumption
  <2>4. (g * PAGE + c) \div PAGE = g
      BY <2>3, <1>2, FrameBytes
  <2> QED BY <2>2, <2>4, <1>2, <1>3
<1>5. mem \in [Addresses -> 0..255]
    BY DEF StorageInv, StorageType
<1> DEFINE host == g * PAGE + b
           x == f * PAGE + i
<1>6. \A k \in 1..Len(data) : Target(host, k) # x
    BY <1>4
<1>7. x \in Addresses /\ Translate(as[u], a) = host
    BY <1>1, <1>3
<1> HIDE DEF host, x
<1>8. Copied(host, data)[x] = mem[x]
    BY <1>5, <1>6, <1>7, CopiedBytes, ZenonT(60)
<1> QED BY <1>7, <1>8 DEF x

LEMMA ResetIsolated ==
    ASSUME StorageInv, NEW u \in Users, ResetStorage(u),
           NEW w \in Users, w # u, NEW f \in FramesOf(w), NEW i \in 0..(PAGE - 1)
    PROVE  mem'[f * PAGE + i] = mem[f * PAGE + i]
<1>1. f \in Frames /\ f \notin FramesOf(u)
    BY OwnFrames
<1>2. f * PAGE + i \in Addresses /\ (f * PAGE + i) \div PAGE = f
    BY <1>1, FrameBytes
<1>3. mem \in [Addresses -> 0..255]
    BY DEF StorageInv, StorageType
<1>4. ~ \E k \in DOMAIN guest_pages[u] : guest_pages[u][k] = f
    BY <1>1, OwnFrames
<1> QED BY <1>2, <1>3, <1>4, ResetBytes

\* Who changes the bytes: a step that does works for one user, the user of the
\* task or the one that is brought up.
LEMMA WhoWrites ==
    ASSUME IndInv, [Next]_vars, mem' # mem
    PROVE  \E u \in Users \cap alive :
             /\ cur = u \/ (cur = Boot /\ User = u)
             /\ \/ ResetStorage(u)
                \/ \E a \in Int, data \in Seq(0..255) :
                     /\ Translate(as[u], a) # FAULT
                     /\ mem' = Copied(Translate(as[u], a), data)
<1>1. StorageInv /\ ControlType /\ BootInv /\ CrInv
    BY DEF IndInv
<1>2. mem \in [Addresses -> 0..255]
    BY <1>1 DEF StorageInv, StorageType
<1>3. ASSUME NEW t \in Tasks, IplCopy(t)
      PROVE  \E u \in Users \cap alive :
             /\ cur = u \/ (cur = Boot /\ User = u)
             /\ \E a \in Int, data \in Seq(0..255) :
                  Translate(as[u], a) # FAULT /\ mem' = Copied(Translate(as[u], a), data)
  <2> DEFINE s == Segments(t)[ipl[t].seg]
             off == ipl[t].off
             u == ipl[t].user
  <2>1. /\ cur = t /\ ipl[t].busy /\ memcpy_to_guest(s.gaddr + off, Block(s, off))
        /\ ipl[t].seg <= Len(Segments(t))
      BY <1>3 DEF IplCopy
  <2>2. BusyOK(t) /\ ipl \in [Tasks -> Cursor]
      BY <2>1, <1>1 DEF CrInv, ControlType
  <2>3. /\ u \in Users \cap alive /\ cr1 = as[u] /\ ipl[t].nss \in DOMAIN Images
        /\ off \in Nat /\ ipl[t].seg \in Nat \ {0} /\ off < s.memlen
      BY <2>1, <2>2 DEF BusyOK, CrOf, Cursor
  <2>4. cur = u \/ (cur = Boot /\ User = u)
    <3>1. CASE t = Boot
        BY <3>1, <2>1, <1>1 DEF CrInv, User
    <3>2. CASE t # Boot
      <4>1. t \in Users /\ t \in started
          BY <3>2, <2>1, <1>1 DEF CrInv, Tasks
      <4> QED BY <4>1, <2>1, <1>1 DEF CrInv
    <3> QED BY <3>1, <3>2
  <2>5. s \in Segment /\ Len(s.data) <= s.memlen
    <3>1. Len(Segments(t)) \in Nat
        BY <2>3, SegmentsOf DEF Segments
    <3>2. ipl[t].seg \in 1..Len(Segments(t))
        BY <3>1, <2>1, <2>3
    <3> QED BY <3>2, <2>3, SegmentsOf DEF Segments
  <2> HIDE DEF s, off, u
  <2>6. Block(s, off) \in Seq(0..255) /\ s.gaddr + off \in Int
      BY <2>3, <2>5, BlockType DEF Segment
  <2>7. Translate(as[u], s.gaddr + off) # FAULT /\ mem' = Copied(Translate(as[u], s.gaddr + off), Block(s, off))
      BY <2>1, <2>3 DEF memcpy_to_guest, virt2phy_current
  <2>8. \E a \in Int, data \in Seq(0..255) :
          Translate(as[u], a) # FAULT /\ mem' = Copied(Translate(as[u], a), data)
      BY <2>6, <2>7
  <2> QED BY <2>3, <2>4, <2>8
<1>4. ASSUME NEW u \in Users, Command(u)
      PROVE  /\ u \in alive /\ cur = u
             /\ \/ ResetStorage(u)
                \/ \E a \in Int, data \in Seq(0..255) :
                     /\ Translate(as[u], a) # FAULT
                     /\ mem' = Copied(Translate(as[u], a), data)
  <2>1. cur = u /\ u \in started
      BY <1>4 DEF Command, Free
  <2>2. u \in alive /\ cr1 = as[u]
      BY <2>1, <1>1 DEF ControlType, CrInv, CrOf
  <2>3. CASE ResetStorage(u)
      BY <2>1, <2>2, <2>3
  <2>4. CASE \E o \in StoreOps : /\ virt2phy_current(RoundDown(o.addr)) # FAULT
                                 /\ mem' = Copied(virt2phy_current(RoundDown(o.addr)), o.word)
    <3>1. PICK o \in StoreOps : /\ virt2phy_current(RoundDown(o.addr)) # FAULT
                                /\ mem' = Copied(virt2phy_current(RoundDown(o.addr)), o.word)
        BY <2>4
    <3>2. RoundDown(o.addr) \in Int /\ o.word \in Seq(0..255)
        BY WordType DEF RoundDown
    <3>3. \E a \in Int, data \in Seq(0..255) :
             Translate(as[u], a) # FAULT /\ mem' = Copied(Translate(as[u], a), data)
        BY <3>1, <3>2, <2>2 DEF virt2phy_current
    <3> QED BY <2>1, <2>2, <3>3
  <2> QED BY <2>3, <2>4, <1>2, <1>4, CommandBytes
<1>5. ASSUME NEW t, NEW u \in Users, NEW nss, IplStart(t, u, nss)
      PROVE  ResetStorage(u)
    BY <1>5 DEF IplStart, ClearReset, SetState
<1>6. CASE Load
  <2>1. /\ cur = Boot /\ boot.step = "ipl" /\ boot.k <= Len(Logons)
        /\ IplStart(Boot, User, Directory[User].nss)
      BY <1>6 DEF Load, Booting
  <2>2. User \in Users /\ User \in alive
      BY <2>1, <1>1, BootUser DEF BootInv, User
  <2> QED BY <2>1, <2>2, <1>5
<1>7. ASSUME NEW u \in Users, NEW nss, cmd_ipl(u, nss)
      PROVE  cur = u /\ u \in alive /\ ResetStorage(u)
    BY <1>1, <1>5, <1>7 DEF cmd_ipl, Free, ControlType
<1>8. \/ Load \/ (\E t \in Tasks : IplCopy(t)) \/ (\E u \in Users : Command(u))
      \/ (\E u \in Users : \E nss \in IplOps : cmd_ipl(u, nss))
  <2>1. ASSUME UNCHANGED vars PROVE FALSE
      BY <2>1 DEF vars, storage
  <2>2. ASSUME NEW t \in Tasks, Switch(t) \/ IplEnd(t) PROVE FALSE
      BY <2>2 DEF Switch, IplEnd
  <2>3. ASSUME Create \/ CreateDevice \/ CreatePage \/ CreateTask \/ Begin \/ Attach \/ Dies
        PROVE  FALSE
      BY <2>3 DEF Create, CreateDevice, CreatePage, CreateTask, Begin, Attach, Dies, GetPage,
                  alloc_guest_storage, guest_begin, SetState, storage
  <2>4. ASSUME NEW u \in Users, ShellStart(u) \/ Display(u) \/ Channel(u) PROVE FALSE
      BY <2>4 DEF ShellStart, Display, Channel, cmd_display_storage, ExecCcw, storage
  <2>5. ASSUME NEW u \in Users, NEW p, Ssch(u, p) PROVE FALSE
      BY <2>5 DEF Ssch, storage
  <2> QED BY <2>1, <2>2, <2>3, <2>4, <2>5 DEF Next
<1> QED BY <1>3, <1>4, <1>6, <1>7, <1>8, ZenonT(60)

\* Each virtual machine has storage of its own, and its tables lead to it and to
\* nothing else (alloc_guest_storage, dat_insert_page), for every size of the
\* storage, also above what the tables reach.
THEOREM StorageIsPrivate == Spec => []PagesPrivate
<1>1. ASSUME IndInv PROVE PagesPrivate
  <2>0. StorageInv /\ BootInv
      BY <1>1 DEF IndInv
  <2>1. ASSUME NEW u \in Users, u \in alive, NEW i \in 0..(Len(guest_pages[u]) + NPX)
        PROVE  Translate(as[u], i * PAGE) =
                 IF i < Len(guest_pages[u]) /\ i * PAGE < LIMIT
                 THEN guest_pages[u][i + 1] * PAGE ELSE FAULT
    <3>1. as[u] # 0 /\ Len(guest_pages[u]) = Directory[u].storage
        BY <2>0, <2>1, AliveUser
    <3>2. i \in Nat /\ i * PAGE \in Nat
        BY PageAssumption
    <3>3. (i * PAGE) \div PAGE = i /\ (i * PAGE) % PAGE = 0
        BY <3>2, PageStart
    <3>4. Translate(as[u], i * PAGE) =
             IF i * PAGE >= 0 /\ i < Len(guest_pages[u]) /\ i * PAGE < LIMIT
             THEN guest_pages[u][i + 1] * PAGE + 0 ELSE FAULT
      <4> DEFINE a == i * PAGE
      <4>1. a \in Int /\ a \div PAGE = i /\ a % PAGE = 0
          BY <3>2, <3>3
      <4> HIDE DEF a
      <4>2. Translate(as[u], a) =
             IF a >= 0 /\ a \div PAGE < Len(guest_pages[u]) /\ a < LIMIT
             THEN guest_pages[u][a \div PAGE + 1] * PAGE + (a % PAGE)
             ELSE FAULT
          BY <2>0, <3>1, <4>1, TranslateOwn
      <4>3. Translate(as[u], a) =
             IF a >= 0 /\ i < Len(guest_pages[u]) /\ a < LIMIT
             THEN guest_pages[u][i + 1] * PAGE + 0
             ELSE FAULT
          BY <4>1, <4>2, Zenon
      <4> QED BY <4>3 DEF a
    <3>5. i < Len(guest_pages[u]) => guest_pages[u][i + 1] * PAGE + 0 = guest_pages[u][i + 1] * PAGE
      <4>1. ASSUME i < Len(guest_pages[u]) PROVE guest_pages[u][i + 1] \in Nat
        <5>1. Len(guest_pages[u]) \in Nat /\ guest_pages[u] \in Seq(Frames)
            BY <2>0, OwnFrames
        <5>2. i + 1 \in 1..Len(guest_pages[u])
            BY <5>1, <4>1, <3>2
        <5>3. guest_pages[u][i + 1] \in Frames
            BY <5>1, <5>2, ElementOfSeq
        <5> QED BY <5>3, FrameAssumption DEF Frames
      <4> QED BY <4>1, PageAssumption
    <3>6. i * PAGE >= 0
        BY <3>2
    <3> QED BY <3>4, <3>5, <3>6, Zenon
  <2>2. ASSUME NEW u \in Users, NEW f \in FramesOf(u)
        PROVE  f \notin free /\ tables[f] = NoTable
      BY <2>0, OwnFrames
  <2>3. ASSUME NEW u \in Users, NEW w \in Users \ {u}
        PROVE  FramesOf(u) \cap FramesOf(w) = {}
      BY <2>0, OwnFrames
  <2> QED BY <2>1, <2>2, <2>3 DEF PagesPrivate
<1> QED BY <1>1, Invariance, PTL

\* No task reaches the storage of a virtual machine that is not its own
\* (__schedule, load_as, guest_ipl_nss, memcpy_to_guest).
THEOREM MachinesAreIsolated == Spec => Isolation
<1> DEFINE Touched(u) == \E f \in FramesOf(u), i \in 0..(PAGE - 1) :
                            mem'[f * PAGE + i] # mem[f * PAGE + i]
<1>1. ASSUME IndInv, [Next]_vars, mem' # mem, NEW w \in Users, Touched(w)
      PROVE  cur = w \/ (cur = Boot /\ User = w)
  <2>1. PICK u \in Users \cap alive :
             /\ cur = u \/ (cur = Boot /\ User = u)
             /\ \/ ResetStorage(u)
                \/ \E a \in Int, data \in Seq(0..255) :
                     /\ Translate(as[u], a) # FAULT
                     /\ mem' = Copied(Translate(as[u], a), data)
      BY <1>1, WhoWrites
  <2>2. StorageInv /\ BootInv
      BY <1>1 DEF IndInv
  <2>3. PICK f \in FramesOf(w), i \in 0..(PAGE - 1) : mem'[f * PAGE + i] # mem[f * PAGE + i]
      BY <1>1
  <2>4. w = u
    <3>1. CASE ResetStorage(u)
        BY <3>1, <2>2, <2>3, ResetIsolated
    <3>2. CASE \E a \in Int, data \in Seq(0..255) :
                 Translate(as[u], a) # FAULT /\ mem' = Copied(Translate(as[u], a), data)
      <4>1. PICK a \in Int, data \in Seq(0..255) :
                 Translate(as[u], a) # FAULT /\ mem' = Copied(Translate(as[u], a), data)
          BY <3>2
      <4>2. mem'[f * PAGE + i] = Copied(Translate(as[u], a), data)[f * PAGE + i]
          BY <4>1
      <4>3. w # u => Copied(Translate(as[u], a), data)[f * PAGE + i] = mem[f * PAGE + i]
          BY <4>1, <2>1, <2>2, CopyIsolated, ZenonT(60)
      <4> QED BY <4>2, <4>3, <2>3
    <3> QED BY <2>1, <3>1, <3>2
  <2> QED BY <2>1, <2>4
<1>2. IndInv /\ [Next]_vars =>
        [mem' # mem => \A u \in Users :
           (\E f \in FramesOf(u), i \in 0..(PAGE - 1) : mem'[f * PAGE + i] # mem[f * PAGE + i])
              => \/ cur = u
                 \/ cur = Boot /\ User = u]_vars
    BY <1>1
<1> QED BY <1>2, Invariance, PTL DEF Spec, Isolation

-----------------------------------------------------------------------------
\* Registers and the PSW.

RegFile == [Regs -> Int]
RegSet == [gpr : RegFile, fpr : RegFile, ar : RegFile, cr : RegFile, fpcr : Int, gg : RegFile]
ArchSet == [gpr : RegFile, fpr : RegFile, ar : RegFile, cr : RegFile, fpcr : Int]
PSW == [1..4 -> Int]

\* CP's copy x of the registers against the registers y of the guest.
Agree(x, y) ==
    /\ \A r \in Regs : r <= 13 => x.gpr[r] = y.gpr[r]
    /\ x.fpr = y.fpr /\ x.ar = y.ar /\ x.cr = y.cr /\ x.fpcr = y.fpcr

RegInv ==
    /\ regs \in [Users -> RegSet] /\ arch \in [Users -> ArchSet]
    /\ \A u \in Users : Agree(regs[u], arch[u])

PswInv ==
    /\ psw \in [Users -> PSW] /\ zarch \in [Users -> BOOLEAN]
    /\ shown.op = "psw" => shown.user \in Users
    /\ PswIsShown

CpuInv == RegInv /\ PswInv

LEMMA OneSet ==
    ASSUME RegInv, NEW u \in Users, NEW x \in RegSet, NEW y \in ArchSet, Agree(x, y),
           regs' = [regs EXCEPT ![u] = x], arch' = [arch EXCEPT ![u] = y]
    PROVE  RegInv'
<1>1. regs' \in [Users -> RegSet] /\ arch' \in [Users -> ArchSet]
    BY DEF RegInv
<1>2. ASSUME NEW w \in Users PROVE Agree(regs'[w], arch'[w])
  <2>1. CASE w = u
      BY <2>1 DEF RegInv
  <2>2. CASE w # u
      BY <2>2 DEF RegInv
  <2> QED BY <2>1, <2>2
<1> QED BY <1>1, <1>2 DEF RegInv

LEMMA Constants == Zero \in RegFile /\ ResetCR \in RegFile
BY DEF Zero, ResetCR, RegFile, CR0, CR14

LEMMA StoreRegStep ==
    ASSUME RegInv, NEW u \in Users, NEW r, NEW val \in Int,
           NEW file \in {"gpr", "fpr", "ar", "cr"}, StoreRegister(u, file, r, val)
    PROVE  RegInv'
<1>1. regs[u] \in RegSet /\ arch[u] \in ArchSet /\ Agree(regs[u], arch[u])
    BY DEF RegInv
<1>2. /\ regs' = [regs EXCEPT ![u][file][r] = val] /\ arch' = [arch EXCEPT ![u][file][r] = val]
    BY DEF StoreRegister
<1> DEFINE New(f) == [f EXCEPT ![r] = val]
<1>3. \A f \in RegFile : New(f) \in RegFile /\ \A q \in Regs : New(f)[q] = IF q = r THEN val ELSE f[q]
    BY DEF RegFile
<1>4. CASE file = "gpr"
  <2> DEFINE x == [regs[u] EXCEPT !.gpr = New(regs[u].gpr)]
             y == [arch[u] EXCEPT !.gpr = New(arch[u].gpr)]
  <2>1. regs' = [regs EXCEPT ![u] = x] /\ arch' = [arch EXCEPT ![u] = y]
      BY <1>2, <1>4 DEF RegInv
  <2> HIDE DEF New
  <2>2. regs[u].gpr \in RegFile /\ arch[u].gpr \in RegFile
      BY <1>1 DEF RegSet, ArchSet
  <2>3. x \in RegSet /\ y \in ArchSet /\ x.gpr = New(regs[u].gpr) /\ y.gpr = New(arch[u].gpr)
        /\ x.fpr = regs[u].fpr /\ x.ar = regs[u].ar /\ x.cr = regs[u].cr /\ x.fpcr = regs[u].fpcr
        /\ y.fpr = arch[u].fpr /\ y.ar = arch[u].ar /\ y.cr = arch[u].cr /\ y.fpcr = arch[u].fpcr
      BY <1>1, <1>3, <2>2 DEF RegSet, ArchSet
  <2> HIDE DEF x, y
  <2>4. Agree(x, y)
      BY <1>1, <1>3, <2>2, <2>3 DEF Agree
  <2> QED BY <2>1, <2>3, <2>4, OneSet
<1>5. CASE file = "fpr"
  <2> DEFINE x == [regs[u] EXCEPT !.fpr = New(regs[u].fpr)]
             y == [arch[u] EXCEPT !.fpr = New(arch[u].fpr)]
  <2>1. regs' = [regs EXCEPT ![u] = x] /\ arch' = [arch EXCEPT ![u] = y]
      BY <1>2, <1>5 DEF RegInv
  <2> HIDE DEF New
  <2>2. x \in RegSet /\ y \in ArchSet /\ Agree(x, y)
      BY <1>1, <1>3 DEF RegSet, ArchSet, Agree
  <2> QED BY <2>1, <2>2, OneSet
<1>6. CASE file = "ar"
  <2> DEFINE x == [regs[u] EXCEPT !.ar = New(regs[u].ar)]
             y == [arch[u] EXCEPT !.ar = New(arch[u].ar)]
  <2>1. regs' = [regs EXCEPT ![u] = x] /\ arch' = [arch EXCEPT ![u] = y]
      BY <1>2, <1>6 DEF RegInv
  <2> HIDE DEF New
  <2>2. x \in RegSet /\ y \in ArchSet /\ Agree(x, y)
      BY <1>1, <1>3 DEF RegSet, ArchSet, Agree
  <2> QED BY <2>1, <2>2, OneSet
<1>7. CASE file = "cr"
  <2> DEFINE x == [regs[u] EXCEPT !.cr = New(regs[u].cr)]
             y == [arch[u] EXCEPT !.cr = New(arch[u].cr)]
  <2>1. regs' = [regs EXCEPT ![u] = x] /\ arch' = [arch EXCEPT ![u] = y]
      BY <1>2, <1>7 DEF RegInv
  <2> HIDE DEF New
  <2>2. x \in RegSet /\ y \in ArchSet /\ Agree(x, y)
      BY <1>1, <1>3 DEF RegSet, ArchSet, Agree
  <2> QED BY <2>1, <2>2, OneSet
<1> QED BY <1>4, <1>5, <1>6, <1>7

LEMMA StoreFpcrStep ==
    ASSUME RegInv, NEW u \in Users, NEW val \in Int, cmd_store_fpcr(u, val)
    PROVE  RegInv'
<1>1. regs[u] \in RegSet /\ arch[u] \in ArchSet /\ Agree(regs[u], arch[u])
    BY DEF RegInv
<1> DEFINE x == [regs[u] EXCEPT !.fpcr = val]
           y == [arch[u] EXCEPT !.fpcr = val]
<1>2. regs' = [regs EXCEPT ![u] = x] /\ arch' = [arch EXCEPT ![u] = y]
    BY DEF cmd_store_fpcr, RegInv
<1>3. x \in RegSet /\ y \in ArchSet /\ Agree(x, y)
    BY <1>1 DEF RegSet, ArchSet, Agree
<1> QED BY <1>2, <1>3, OneSet

LEMMA ResetRegStep ==
    ASSUME RegInv, NEW u \in Users, NEW s, ClearReset(u, s)
    PROVE  RegInv'
<1>1. regs[u] \in RegSet
    BY DEF RegInv
<1> DEFINE x == ClearedRegs(u)
           y == [gpr |-> Zero, fpr |-> Zero, ar |-> Zero, cr |-> ResetCR, fpcr |-> 0]
<1>2. regs' = [regs EXCEPT ![u] = x] /\ arch' = [arch EXCEPT ![u] = y]
    BY DEF ClearReset
<1>3. /\ x = [gpr |-> Zero, fpr |-> Zero, ar |-> Zero, cr |-> ResetCR, fpcr |-> 0,
                gg |-> regs[u].gg]
      /\ regs[u].gg \in RegFile
  <2> DEFINE r1 == [regs[u] EXCEPT !.gpr = Zero]
             r2 == [r1 EXCEPT !.fpr = Zero]
             r3 == [r2 EXCEPT !.ar = Zero]
             r4 == [r3 EXCEPT !.cr = ResetCR]
             r5 == [r4 EXCEPT !.fpcr = 0]
  <2>1. regs[u] = [gpr |-> regs[u].gpr, fpr |-> regs[u].fpr, ar |-> regs[u].ar,
                   cr |-> regs[u].cr, fpcr |-> regs[u].fpcr, gg |-> regs[u].gg]
        /\ regs[u].gg \in RegFile
      BY <1>1 DEF RegSet
  <2>2. x = r5
      BY Zenon DEF ClearedRegs
  <2>3. r1 = [gpr |-> Zero, fpr |-> regs[u].fpr, ar |-> regs[u].ar, cr |-> regs[u].cr, fpcr |-> regs[u].fpcr, gg |-> regs[u].gg]
      BY <2>1
  <2> HIDE DEF r1
  <2>4. r2 = [gpr |-> Zero, fpr |-> Zero, ar |-> regs[u].ar, cr |-> regs[u].cr, fpcr |-> regs[u].fpcr, gg |-> regs[u].gg]
      BY <2>3
  <2> HIDE DEF r2
  <2>5. r3 = [gpr |-> Zero, fpr |-> Zero, ar |-> Zero, cr |-> regs[u].cr, fpcr |-> regs[u].fpcr, gg |-> regs[u].gg]
      BY <2>4
  <2> HIDE DEF r3
  <2>6. r4 = [gpr |-> Zero, fpr |-> Zero, ar |-> Zero, cr |-> ResetCR, fpcr |-> regs[u].fpcr, gg |-> regs[u].gg]
      BY <2>5
  <2> HIDE DEF r4
  <2>7. r5 = [gpr |-> Zero, fpr |-> Zero, ar |-> Zero, cr |-> ResetCR, fpcr |-> 0, gg |-> regs[u].gg]
      BY <2>6
  <2> QED BY <2>1, <2>2, <2>7
<1>4. /\ x.gpr = Zero /\ x.fpr = Zero /\ x.ar = Zero /\ x.cr = ResetCR /\ x.fpcr = 0
      /\ y.gpr = Zero /\ y.fpr = Zero /\ y.ar = Zero /\ y.cr = ResetCR /\ y.fpcr = 0
    BY <1>3
<1>5. x \in RegSet /\ y \in ArchSet
    BY <1>3, Constants DEF RegSet, ArchSet
<1> HIDE DEF x, y
<1>6. Agree(x, y)
    BY <1>4 DEF Agree
<1> QED BY <1>2, <1>5, <1>6, OneSet

LEMMA RunRegStep ==
    ASSUME RegInv, NEW u \in Users, NEW addr, NEW word, GuestRuns(u, addr, word)
    PROVE  RegInv'
<1>1. regs[u] \in RegSet /\ arch[u] \in ArchSet /\ Agree(regs[u], arch[u])
    BY DEF RegInv
<1> DEFINE gpr == [r \in Regs |-> (Entry(u)[r] + 1) % 4]
           g1 == [r \in Regs |-> IF Saved(r) THEN gpr[r] ELSE regs[u].gpr[r]]
           g2 == [r \in Regs |-> IF Saved(r) THEN regs[u].gg[r] ELSE gpr[r]]
           x == [regs[u] EXCEPT !.gpr = g1, !.gg = g2]
           y == [arch[u] EXCEPT !.gpr = gpr]
<1>2. regs[u].gpr \in RegFile /\ regs[u].gg \in RegFile
    BY <1>1 DEF RegSet
<1>3. gpr \in RegFile
    BY <1>2 DEF RegFile, Entry
<1>4. regs' = [regs EXCEPT ![u] = x] /\ arch' = [arch EXCEPT ![u] = y]
    BY DEF GuestRuns, RegInv
<1> HIDE DEF gpr
<1>5. g1 \in RegFile /\ g2 \in RegFile /\ \A r \in Regs : r <= 13 => g1[r] = gpr[r]
    BY <1>2, <1>3 DEF RegFile, Saved
<1> HIDE DEF g1, g2
<1>6. x \in RegSet /\ y \in ArchSet /\ Agree(x, y)
    BY <1>1, <1>3, <1>5 DEF RegSet, ArchSet, Agree
<1> QED BY <1>4, <1>6, OneSet

\* STORE PSW: the words of the PSW that DISPLAY PSW shows.
LEMMA PswWords ==
    ASSUME NEW old \in PSW, NEW words \in Seq(Int), NEW z \in BOOLEAN,
           Len(words) \in 1..4, z \/ Len(words) <= 2
    PROVE  LET n == IF z THEN Len(words) ELSE Len(words) + 2
               Seen(p) == IF z THEN p ELSE SubSeq(p, 1, 2)
               new == NewPsw(old, words, n)
           IN  /\ new \in PSW
               /\ Seen(new) = SubSeq(Seen(old), 1, Len(Seen(old)) - Len(words)) \o words
<1> DEFINE n == IF z THEN Len(words) ELSE Len(words) + 2
           Seen(p) == IF z THEN p ELSE SubSeq(p, 1, 2)
           new == NewPsw(old, words, n)
           w(i) == IF i <= Len(words) THEN words[i] ELSE 0
           k == IF z THEN 4 ELSE 2
           kept == k - Len(words)
<1>1. \A i \in 1..4 : w(i) \in Int
    BY ElementOfSeq
<1>2. new = [i \in 1..4 |-> IF i + n > 4 THEN w(i + n - 4) ELSE old[i]]
    BY DEF NewPsw
<1>3. /\ n \in 1..4 /\ k \in 2..4 /\ kept \in 0..3 /\ kept <= k /\ kept + Len(words) = k
      /\ kept = 4 - n
  <2>1. \/ n = Len(words) /\ k = 4
        \/ n = Len(words) + 2 /\ k = 2 /\ Len(words) <= 2
      BY Zenon
  <2>2. kept = k - Len(words)
      OBVIOUS
  <2>3. PICK m \in 1..4 : m = Len(words)
      OBVIOUS
  <2>4. \A a, b : (a = m /\ b = 4) \/ (a = m + 2 /\ b = 2 /\ m <= 2) =>
          /\ a \in 1..4 /\ b \in 2..4 /\ b - m \in 0..3 /\ b - m <= b /\ (b - m) + m = b
          /\ b - m = 4 - a
      BY ONLY m \in 1..4
  <2>5. (n = m /\ k = 4) \/ (n = m + 2 /\ k = 2 /\ m <= 2)
      BY <2>1, <2>3, Zenon
  <2>6. kept = k - m
      BY <2>3, Zenon
  <2> HIDE DEF n, k, kept
  <2> QED BY <2>3, <2>4, <2>5, <2>6, Zenon
<1>4. new \in PSW
  <2> HIDE DEF w, n, k, kept
  <2>1. \A i \in 1..4 : i + n > 4 => i + n - 4 \in 1..4
      BY <1>3
  <2>2. \A i \in 1..4 : old[i] \in Int
      BY DEF PSW
  <2> QED BY <1>1, <1>2, <2>1, <2>2 DEF PSW
<1> HIDE DEF new
<1>5. ASSUME NEW p \in PSW
      PROVE  Seen(p) \in Seq(Int) /\ Len(Seen(p)) = k /\ \A i \in 1..k : Seen(p)[i] = p[i]
  <2>1. p \in Seq(Int) /\ Len(p) = 4
      BY FunctionIsSeq DEF PSW
  <2>2. CASE z
      BY <2>1, <2>2
  <2>3. CASE ~z
      BY <2>1, <2>3, SMTT(40)
  <2> QED BY <2>2, <2>3
<1>6. SubSeq(Seen(old), 1, kept) \in Seq(Int) /\ Len(SubSeq(Seen(old), 1, kept)) = kept
      /\ \A i \in 1..kept : SubSeq(Seen(old), 1, kept)[i] = old[i]
  <2>1. Seen(old) \in Seq(Int) /\ Len(Seen(old)) = k /\ \A i \in 1..k : Seen(old)[i] = old[i]
      BY <1>5
  <2> HIDE DEF Seen, k, kept, n
  <2>2. k \in Int /\ kept \in Int /\ 0 <= kept /\ kept <= k
      BY <1>3
  <2> QED BY <2>1, <2>2, SubSeqProperties
<1> DEFINE right == SubSeq(Seen(old), 1, kept) \o words
<1>7. /\ right \in Seq(Int) /\ Len(right) = k
      /\ \A i \in 1..k : right[i] = IF i <= kept THEN old[i] ELSE words[i - kept]
  <2> DEFINE s == SubSeq(Seen(old), 1, kept)
  <2>1. s \in Seq(Int) /\ Len(s) = kept /\ \A i \in 1..kept : s[i] = old[i]
      BY <1>6
  <2> HIDE DEF s, k, kept
  <2>2. /\ Len(s \o words) = kept + Len(words)
        /\ \A i \in 1..(kept + Len(words)) :
             (s \o words)[i] = IF i <= kept THEN s[i] ELSE words[i - kept]
        /\ s \o words \in Seq(Int)
      BY <2>1, ConcatProperties
  <2>3. right = s \o words
      BY DEF s
  <2>4. \A i \in 1..k : i \in 1..(kept + Len(words)) /\ (i <= kept => i \in 1..kept)
      BY <1>3
  <2> HIDE DEF right
  <2>5. right \in Seq(Int) /\ Len(right) = k
      BY <2>2, <2>3, <1>3
  <2> QED BY <2>1, <2>2, <2>3, <2>4, <2>5
<1> HIDE DEF right
<1>8. \A i \in 1..k : new[i] = IF i <= kept THEN old[i] ELSE words[i - kept]
  <2> SUFFICES ASSUME NEW i \in 1..k
               PROVE  new[i] = IF i <= kept THEN old[i] ELSE words[i - kept]
      OBVIOUS
  <2> HIDE DEF k, kept, n
  <2>1. i \in 1..4 /\ ((i + n > 4) <=> ~(i <= kept)) /\ i + n - 4 = i - kept
      BY <1>3
  <2>2. ~(i <= kept) => i - kept <= Len(words)
      BY <1>3
  <2>3. new[i] = IF i + n > 4 THEN w(i + n - 4) ELSE old[i]
      BY <2>1, <1>2
  <2> QED BY <2>1, <2>2, <2>3
<1>9. Seen(new) = right
  <2>1. Seen(new) \in Seq(Int) /\ Len(Seen(new)) = k /\ \A i \in 1..k : Seen(new)[i] = new[i]
      BY <1>4, <1>5
  <2> HIDE DEF Seen, k, kept
  <2> QED BY <2>1, <1>7, <1>8, <1>3, SeqEqual, ZenonT(60)
<1>10. Len(Seen(old)) = k
    BY <1>5
<1> QED BY <1>4, <1>9, <1>10 DEF right, new

LEMMA StorePswStep ==
    ASSUME CpuInv, NEW u \in Users, NEW words \in Seq(Int), cmd_store_psw(u, words)
    PROVE  CpuInv'
<1>1. /\ psw \in [Users -> PSW] /\ zarch \in [Users -> BOOLEAN] /\ RegInv
    BY DEF CpuInv, PswInv
<1>2. /\ Len(words) \in 1..4 /\ (zarch[u] \/ Len(words) <= 2)
      /\ psw' = [psw EXCEPT ![u] = NewPsw(@, words, Count(u, words))]
      /\ shown' = [Nothing EXCEPT !.op = "psw", !.user = u, !.out = words,
                                  !.old = cmd_display_psw(u)]
      /\ zarch' = zarch /\ regs' = regs /\ arch' = arch
    BY DEF cmd_store_psw
<1> DEFINE n == IF zarch[u] THEN Len(words) ELSE Len(words) + 2
           Seen(p) == IF zarch[u] THEN p ELSE SubSeq(p, 1, 2)
           new == NewPsw(psw[u], words, n)
<1>3. /\ new \in PSW
      /\ Seen(new) = SubSeq(Seen(psw[u]), 1, Len(Seen(psw[u])) - Len(words)) \o words
  <2>1. psw[u] \in PSW /\ zarch[u] \in BOOLEAN
      BY <1>1
  <2> QED BY <2>1, <1>2, PswWords
<1>4. psw'[u] = new /\ psw' \in [Users -> PSW]
    BY <1>1, <1>2, <1>3 DEF Count
<1>5. shown'.op = "psw" /\ shown'.user = u /\ shown'.out = words /\ shown'.old = Seen(psw[u])
    BY <1>2 DEF Nothing, cmd_display_psw
<1>6. cmd_display_psw(u)' = Seen(new)
    BY <1>2, <1>4 DEF cmd_display_psw
<1> HIDE DEF Seen, new, n
<1>7. PswIsShown'
    BY <1>3, <1>5, <1>6 DEF PswIsShown, cmd_display_psw
<1>8. RegInv'
    BY <1>1, <1>2 DEF RegInv
<1> QED BY <1>1, <1>2, <1>4, <1>5, <1>7, <1>8 DEF CpuInv, PswInv

\* A step that leaves the CPUs alone, and is no STORE PSW.
LEMMA QuietCpu ==
    ASSUME CpuInv, UNCHANGED <<psw, zarch, regs, arch>>, shown' = shown \/ shown'.op # "psw"
    PROVE  CpuInv'
<1>1. RegInv'
    BY DEF CpuInv, RegInv
<1>2. PswIsShown' /\ (shown'.op = "psw" => shown'.user \in Users)
    BY DEF CpuInv, PswInv, PswIsShown, cmd_display_psw
<1> QED BY <1>1, <1>2 DEF CpuInv, PswInv

\* A step that changes one PSW, and its mode, and is no STORE PSW.
LEMMA SetPsw ==
    ASSUME CpuInv, RegInv', NEW u, NEW p \in PSW, NEW z \in [Users -> BOOLEAN],
           psw' = [psw EXCEPT ![u] = p], zarch' = z, shown' = Nothing
    PROVE  CpuInv'
<1>1. psw' \in [Users -> PSW]
    BY DEF CpuInv, PswInv
<1>2. shown'.op # "psw"
    BY DEF Nothing
<1> QED BY <1>1, <1>2 DEF CpuInv, PswInv, PswIsShown

LEMMA TupleIsPsw ==
    ASSUME NEW a \in Int, NEW b \in Int, NEW c \in Int, NEW d \in Int
    PROVE  <<a, b, c, d>> \in PSW
<1>1. /\ <<a, b, c, d>> \in Seq(Int) /\ Len(<<a, b, c, d>>) = 4
    OBVIOUS
<1>2. DOMAIN <<a, b, c, d>> = 1..4
    BY <1>1, LenProperties
<1> QED BY <1>1, <1>2, SeqDef DEF PSW

LEMMA ClearCpu ==
    ASSUME CpuInv, NEW u \in Users, NEW s, ClearReset(u, s)
    PROVE  CpuInv'
<1>1. RegInv'
    BY ResetRegStep DEF CpuInv
<1>2. /\ psw' = [psw EXCEPT ![u] = <<0, 0, 0, 0>>] /\ zarch' = zarch /\ shown' = Nothing
    BY DEF ClearReset
<1>3. <<0, 0, 0, 0>> \in PSW /\ zarch \in [Users -> BOOLEAN]
    BY TupleIsPsw DEF CpuInv, PswInv
<1> QED BY <1>1, <1>2, <1>3, SetPsw

LEMMA IplStartCpu ==
    ASSUME CpuInv, NEW t, NEW u \in Users, NEW nss, IplStart(t, u, nss)
    PROVE  CpuInv'
<1>1. CASE ClearReset(u, "LOAD")
    BY <1>1, ClearCpu
<1>2. CASE SetState(u, "CHECKSTOP")
  <2>1. UNCHANGED <<psw, zarch, regs, arch>> /\ shown'.op # "psw"
      BY <1>2 DEF SetState, Nothing
  <2> QED BY <2>1, QuietCpu
<1> QED BY <1>1, <1>2 DEF IplStart

LEMMA IplEndCpu ==
    ASSUME IndInv, CpuInv, NEW t \in Tasks, IplEnd(t)
    PROVE  CpuInv'
<1>1. CrInv /\ RegInv /\ zarch \in [Users -> BOOLEAN]
    BY DEF IndInv, CpuInv, PswInv
<1>2. ipl[t].busy
    BY DEF IplEnd
<1>3. ipl[t].nss \in DOMAIN Images
    BY <1>1, <1>2 DEF CrInv, BusyOK
<1>4. Images[ipl[t].nss].entry \in Nat
    BY <1>3, ImageAssumption
<1> DEFINE u == ipl[t].user
           nss == Images[ipl[t].nss]
           p == IF nss.z THEN <<1, BA, 0, nss.entry>> ELSE <<8, BA + nss.entry, 0, 0>>
<1>5. p \in PSW
  <2>1. <<1, BA, 0, nss.entry>> \in PSW
      BY <1>4, TupleIsPsw DEF BA
  <2>2. <<8, BA + nss.entry, 0, 0>> \in PSW
      BY <1>4, TupleIsPsw DEF BA
  <2> QED BY <2>1, <2>2, Zenon
<1>6. /\ psw' = [psw EXCEPT ![u] = p] /\ shown' = Nothing /\ regs' = regs /\ arch' = arch
      /\ zarch' = [zarch EXCEPT ![u] = @ \/ nss.z]
    BY DEF IplEnd
<1>7. zarch' \in [Users -> BOOLEAN]
  <2>1. \A b : (zarch[u] \/ b) \in BOOLEAN
      OBVIOUS
  <2> QED BY <1>1, <1>6, <2>1
<1>8. RegInv'
    BY <1>1, <1>6 DEF RegInv
<1> HIDE DEF p, u, nss
<1> QED BY <1>5, <1>6, <1>7, <1>8, SetPsw

LEMMA CommandCpu ==
    ASSUME CpuInv, NEW u \in Users, Command(u)
    PROVE  CpuInv'
<1>0. RegInv
    BY DEF CpuInv
<1>1. CASE \E o \in StoreOps : cmd_store_storage(u, o.addr, o.word)
  <2>1. UNCHANGED <<psw, zarch, regs, arch>> /\ shown'.op # "psw"
      BY <1>1 DEF cmd_store_storage, cpu, Nothing
  <2> QED BY <2>1, QuietCpu
<1>2. ASSUME NEW o \in StoreOps, GuestRuns(u, RoundDown(o.addr), o.word) PROVE CpuInv'
  <2>1. RegInv'
      BY <1>0, <1>2, RunRegStep
  <2>2. psw' = psw /\ zarch' = zarch /\ shown'.op # "psw"
      BY <1>2 DEF GuestRuns, Nothing
  <2> QED BY <2>1, <2>2 DEF CpuInv, PswInv, PswIsShown
<1>3. CASE system_clear(u)
    BY <1>3, ClearCpu DEF system_clear
<1>4. ASSUME NEW w \in PswOps, cmd_store_psw(u, w) PROVE CpuInv'
  <2>1. w \in Seq(Nat)
      BY OpAssumption
  <2>2. w \in Seq(Int)
      BY <2>1
  <2> QED BY <2>2, <1>4, StorePswStep
<1>5. ASSUME RegInv', psw' = psw, zarch' = zarch, shown' = Nothing PROVE CpuInv'
    BY <1>5 DEF CpuInv, PswInv, PswIsShown, Nothing
<1>6. ASSUME NEW o \in RegOps,
             \/ cmd_store_gpr(u, o.r, 3) \/ cmd_store_fpr(u, o.r, 3)
             \/ cmd_store_ar(u, o.r, 3) \/ cmd_store_cr(u, o.r, 3)
      PROVE  CpuInv'
  <2>1. PICK file \in {"gpr", "fpr", "ar", "cr"} : StoreRegister(u, file, o.r, 3)
      BY <1>6 DEF cmd_store_gpr, cmd_store_fpr, cmd_store_ar, cmd_store_cr
  <2>2. RegInv'
      BY <2>1, <1>0, StoreRegStep
  <2> QED BY <2>1, <2>2, <1>5 DEF StoreRegister
<1>7. CASE cmd_store_fpcr(u, 3)
  <2>1. RegInv'
      BY <1>0, <1>7, StoreFpcrStep
  <2> QED BY <2>1, <1>5, <1>7 DEF cmd_store_fpcr
<1>8. CASE system_reset(u) \/ cmd_stop(u) \/ guest_begin(u)
  <2>1. UNCHANGED <<psw, zarch, regs, arch>> /\ shown' = Nothing
      BY <1>8 DEF system_reset, cmd_stop, guest_begin, SetState
  <2> QED BY <2>1, QuietCpu DEF Nothing
<1>9. CASE Alters(u)
    BY <1>9, <1>1, <1>2, <1>3 DEF Alters
<1>10. CASE Sets(u)
    BY <1>10, <1>4, <1>6, <1>7, <1>8 DEF Sets
<1> QED BY <1>9, <1>10 DEF Command

LEMMA NextCpu == IndInv /\ CpuInv /\ [Next]_vars => CpuInv'
<1> SUFFICES ASSUME IndInv, CpuInv, [Next]_vars PROVE CpuInv'
    OBVIOUS
<1>0. Nothing.op # "psw"
    BY DEF Nothing
<1>1. CASE UNCHANGED vars
    BY <1>1, QuietCpu DEF vars, cpu
<1>2. ASSUME NEW t \in Tasks, Switch(t) \/ IplCopy(t) PROVE CpuInv'
  <2>1. UNCHANGED <<psw, zarch, regs, arch>> /\ shown' = Nothing
      BY <1>2 DEF Switch, IplCopy, cpu
  <2> QED BY <2>1, <1>0, QuietCpu
<1>3. ASSUME NEW t \in Tasks, IplEnd(t) PROVE CpuInv'
    BY <1>3, IplEndCpu
<1>4. CASE Create \/ CreateDevice \/ CreatePage \/ CreateTask \/ Attach \/ Dies
  <2>1. UNCHANGED <<psw, zarch, regs, arch, shown>>
      BY <1>4 DEF Create, CreateDevice, CreatePage, CreateTask, Attach, Dies, cpu
  <2> QED BY <2>1, QuietCpu
<1>5. CASE Load
  <2>1. IplStart(Boot, boot.user, Directory[boot.user].nss) /\ boot.k <= Len(Logons)
        /\ boot.step = "ipl"
      BY <1>5 DEF Load, User, Booting
  <2>2. boot.user \in Users
      BY <2>1, BootUser DEF IndInv
  <2>3. PICK u0 \in Users : u0 = boot.user
      BY <2>2
  <2>4. IplStart(Boot, u0, Directory[u0].nss)
      BY <2>1, <2>3
  <2> QED BY <2>4, IplStartCpu
<1>6. CASE Begin
  <2>1. UNCHANGED <<psw, zarch, regs, arch>> /\ shown' = Nothing
      BY <1>6 DEF Begin, guest_begin, SetState
  <2> QED BY <2>1, <1>0, QuietCpu
<1>7. ASSUME NEW u \in Users, ShellStart(u) PROVE CpuInv'
  <2>1. UNCHANGED <<psw, zarch, regs, arch, shown>>
      BY <1>7 DEF ShellStart, cpu
  <2> QED BY <2>1, QuietCpu
<1>8. ASSUME NEW u \in Users, Command(u) PROVE CpuInv'
    BY <1>8, CommandCpu
<1>9. ASSUME NEW u \in Users, Display(u) PROVE CpuInv'
  <2>1. UNCHANGED <<psw, zarch, regs, arch>> /\ shown'.op # "psw"
      BY <1>9 DEF Display, cmd_display_storage, display_storage_numeric, cpu, Nothing
  <2> QED BY <2>1, QuietCpu
<1>10. ASSUME NEW u \in Users, Channel(u) \/ \E p : Ssch(u, p) PROVE CpuInv'
  <2>1. UNCHANGED <<psw, zarch, regs, arch>> /\ shown' = Nothing
      BY <1>10 DEF Channel, Ssch, cpu
  <2> QED BY <2>1, <1>0, QuietCpu
<1>11. ASSUME NEW u \in Users, NEW nss, cmd_ipl(u, nss) PROVE CpuInv'
    BY <1>11, IplStartCpu DEF cmd_ipl
<1> QED BY <1>1, <1>2, <1>3, <1>4, <1>5, <1>6, <1>7, <1>8, <1>9, <1>10, <1>11 DEF Next

\* DISPLAY shows of the PSW and of the registers what STORE, the guest and the
\* resets left in them, in both architecture modes (cmd_store.c, cmd_display.c,
\* run_guest), whatever the tasks do in between.
THEOREM RegistersAreShown == Spec => []DisplayAgreesWithStore
<1>1. Init => CpuInv
  <2> SUFFICES ASSUME Init PROVE CpuInv
      OBVIOUS
  <2> DEFINE x == [gpr |-> Zero, fpr |-> Zero, ar |-> Zero, cr |-> Zero, fpcr |-> 0,
                   gg |-> Zero]
             y == [gpr |-> Zero, fpr |-> Zero, ar |-> Zero, cr |-> Zero, fpcr |-> 0]
  <2>1. /\ psw = [u \in Users |-> <<0, 0, 0, 0>>] /\ zarch = [u \in Users |-> FALSE]
        /\ regs = [u \in Users |-> x] /\ arch = [u \in Users |-> y] /\ shown = Nothing
      BY DEF Init, CommandsInit
  <2>2. x \in RegSet /\ y \in ArchSet /\ Agree(x, y)
      BY Constants DEF RegSet, ArchSet, Agree
  <2> HIDE DEF x, y
  <2>3. RegInv
      BY <2>1, <2>2 DEF RegInv
  <2>4. <<0, 0, 0, 0>> \in PSW
      BY TupleIsPsw
  <2>5. PswInv
      BY <2>1, <2>4 DEF PswInv, PswIsShown, Nothing
  <2> QED BY <2>3, <2>5 DEF CpuInv
<1>2. CpuInv => DisplayAgreesWithStore
    BY DEF CpuInv, RegInv, PswInv, Agree, DisplayAgreesWithStore, cmd_display_gpr,
           cmd_display_fpr, cmd_display_ar, cmd_display_cr, cmd_display_fpcr
<1> QED BY <1>1, <1>2, NextCpu, Invariance, PTL DEF Spec

-----------------------------------------------------------------------------
\* Virtual devices.

Numbers == 0..MaxDev
RealNumbers == Nat \cup {Directory[u].console : u \in Users}
DevTypes == STRING \cup {"DED"}
VirtDev == [sch : Numbers, dev_num : Numbers, type : DevTypes, rdev : RealNumbers]

DevType == virt_devs \in [Users -> Seq(VirtDev)]
Dedicated ==
    \A u \in Users : \A i \in DOMAIN virt_devs[u] :
        virt_devs[u][i].type = "DED" => virt_devs[u][i].rdev \in in_use

\* While the devices of a user are made: each has the numbers of an entry of the
\* directory that was looked at.
Numbered(u, n) ==
    \A i \in DOMAIN virt_devs[u] :
        \E m \in DOMAIN Directory[u].devices :
            /\ m < n /\ virt_devs[u][i].sch = m - 1
            /\ virt_devs[u][i].dev_num = Directory[u].devices[m].vdev

DevInv ==
    /\ DevType /\ Dedicated
    /\ boot.step = "devices" => Numbered(boot.user, boot.dev)
    /\ DevicesDistinct

LEMMA DeviceAppended ==
    ASSUME DevType, NEW u \in Users, NEW d \in VirtDev,
           virt_devs' = [virt_devs EXCEPT ![u] = Append(@, d)]
    PROVE  /\ DevType'
           /\ \A w \in Users \ {u} : virt_devs'[w] = virt_devs[w]
           /\ DOMAIN virt_devs'[u] = DOMAIN virt_devs[u] \cup {Len(virt_devs[u]) + 1}
           /\ virt_devs'[u][Len(virt_devs[u]) + 1] = d
           /\ \A i \in DOMAIN virt_devs[u] :
                i # Len(virt_devs[u]) + 1 /\ virt_devs'[u][i] = virt_devs[u][i]
<1> DEFINE s == virt_devs[u]
           n == Len(s)
<1>1. s \in Seq(VirtDev)
    BY DEF DevType
<1>2. virt_devs'[u] = Append(s, d) /\ \A w \in Users \ {u} : virt_devs'[w] = virt_devs[w]
    BY DEF DevType
<1>3. n \in Nat /\ DOMAIN s = 1..n
    BY <1>1, LenProperties
<1>4. /\ Append(s, d) \in Seq(VirtDev) /\ Len(Append(s, d)) = n + 1
      /\ \A i \in 1..n : Append(s, d)[i] = s[i]
      /\ Append(s, d)[n + 1] = d
    BY <1>1, AppendProperties
<1>5. DOMAIN Append(s, d) = 1..(n + 1)
    BY <1>4, LenProperties
<1>6. DevType'
    BY <1>4 DEF DevType
<1> HIDE DEF s, n
<1>7. 1..(n + 1) = 1..n \cup {n + 1} /\ \A i \in 1..n : i # n + 1
    BY <1>3
<1> QED BY <1>2, <1>3, <1>4, <1>5, <1>6, <1>7 DEF s, n

\* A device that is new in its numbers, and in the real device it takes, is
\* told from the others.
LEMMA AddDevice ==
    ASSUME DevType, Dedicated, DevicesDistinct, NEW u \in Users, NEW d \in VirtDev,
           \A i \in DOMAIN virt_devs[u] :
              virt_devs[u][i].sch # d.sch /\ virt_devs[u][i].dev_num # d.dev_num,
           d.type = "DED" => d.rdev \notin in_use,
           virt_devs' = [virt_devs EXCEPT ![u] = Append(@, d)],
           in_use' = IF d.type = "DED" THEN in_use \cup {d.rdev} ELSE in_use
    PROVE  DevType' /\ Dedicated' /\ DevicesDistinct'
<1> DEFINE n == Len(virt_devs[u]) + 1
           Old(w, i) == w \in Users /\ i \in DOMAIN virt_devs[w]
           New(w, i) == w = u /\ i = n
<1>1. /\ DevType'
      /\ \A w \in Users \ {u} : virt_devs'[w] = virt_devs[w]
      /\ DOMAIN virt_devs'[u] = DOMAIN virt_devs[u] \cup {n}
      /\ virt_devs'[u][n] = d
      /\ \A i \in DOMAIN virt_devs[u] : i # n /\ virt_devs'[u][i] = virt_devs[u][i]
    BY DeviceAppended
<1> HIDE DEF n
<1>2. ASSUME NEW w \in Users, NEW i \in DOMAIN virt_devs'[w]
      PROVE  \/ New(w, i) /\ virt_devs'[w][i] = d
             \/ Old(w, i) /\ ~New(w, i) /\ virt_devs'[w][i] = virt_devs[w][i]
    BY <1>1, <1>2
<1>3. ASSUME NEW w \in Users, NEW i \in DOMAIN virt_devs'[w], virt_devs'[w][i].type = "DED"
      PROVE  virt_devs'[w][i].rdev \in in_use'
  <2>1. CASE New(w, i) /\ virt_devs'[w][i] = d
      BY <2>1, <1>3
  <2>2. CASE Old(w, i) /\ virt_devs'[w][i] = virt_devs[w][i]
      BY <2>2, <1>3 DEF Dedicated
  <2> QED BY <1>2, <2>1, <2>2
<1> DEFINE Apart(v, w, x, y) ==
               /\ v = w => x.sch # y.sch /\ x.dev_num # y.dev_num
               /\ x.type = "DED" /\ y.type = "DED" => x.rdev # y.rdev
<1>4. ASSUME NEW v, NEW i, Old(v, i)
      PROVE  Apart(v, u, virt_devs[v][i], d) /\ Apart(u, v, d, virt_devs[v][i])
    BY <1>4 DEF Dedicated
<1>5. ASSUME NEW v, NEW i, NEW w, NEW j, Old(v, i), Old(w, j), <<v, i>> # <<w, j>>
      PROVE  Apart(v, w, virt_devs[v][i], virt_devs[w][j])
    BY <1>5 DEF DevicesDistinct
<1> HIDE DEF Apart
<1>6. ASSUME NEW v \in Users, NEW w \in Users, NEW i \in DOMAIN virt_devs'[v],
             NEW j \in DOMAIN virt_devs'[w], <<v, i>> # <<w, j>>
      PROVE  Apart(v, w, virt_devs'[v][i], virt_devs'[w][j])
  <2>1. ~(New(v, i) /\ New(w, j))
      BY <1>6
  <2>2. CASE New(v, i) /\ virt_devs'[v][i] = d /\ Old(w, j) /\ virt_devs'[w][j] = virt_devs[w][j]
      BY <2>2, <1>4
  <2>3. CASE Old(v, i) /\ virt_devs'[v][i] = virt_devs[v][i] /\ New(w, j) /\ virt_devs'[w][j] = d
      BY <2>3, <1>4
  <2>4. CASE Old(v, i) /\ virt_devs'[v][i] = virt_devs[v][i]
             /\ Old(w, j) /\ virt_devs'[w][j] = virt_devs[w][j]
      BY <2>4, <1>5, <1>6
  <2> HIDE DEF New, Old
  <2> QED BY <1>2, <2>1, <2>2, <2>3, <2>4
<1>7. DevicesDistinct'
    BY <1>6, Zenon DEF DevicesDistinct, Apart
<1> QED BY <1>1, <1>3, <1>7 DEF Dedicated

\* The number that guest_attach picks is none of those that are taken.
LEMMA FirstFreeIsFree ==
    ASSUME NEW taken, taken \subseteq Numbers
    PROVE  FirstFree(taken) \in 0..(MaxDev + 1) /\ FirstFree(taken) \notin taken
<1>1. MaxDev \in Nat
    BY DeviceAssumption
<1> DEFINE S == {n \in 0..(MaxDev + 1) : n \notin taken}
<1>2. MaxDev + 1 \in S /\ S \subseteq Nat
    BY <1>1 DEF Numbers
<1>3. PICK m \in S : \A k \in S : m <= k
    BY <1>2, LeastOf
<1>4. m \in 0..(MaxDev + 1) /\ m \notin taken /\ \A k \in 0..(m - 1) : k \in taken
  <2>1. m \in 0..(MaxDev + 1) /\ m \notin taken
      OBVIOUS
  <2>2. ASSUME NEW k \in 0..(m - 1), k \notin taken PROVE FALSE
    <3>1. k \in S /\ k < m /\ k \in Nat /\ m \in Nat
        BY <2>1, <2>2, <1>1
    <3> QED BY <3>1, <1>3
  <2> QED BY <2>1, <2>2
<1> QED BY <1>4, Zenon DEF FirstFree

LEMMA QuietDevices ==
    ASSUME DevInv, UNCHANGED <<virt_devs, in_use>>,
           boot'.step = "devices" => boot.step = "devices" /\ boot' = boot
    PROVE  DevInv'
BY DEF DevInv, DevType, Dedicated, Numbered, DevicesDistinct

\* A turn of alloc_guest_devices.
LEMMA CreateDeviceDevs ==
    ASSUME IndInv, DevInv, CreateDevice
    PROVE  DevInv'
<1>1. ControlType /\ BootInv /\ DevType /\ Dedicated /\ DevicesDistinct
    BY DEF IndInv, DevInv
<1>2. /\ boot.k <= Len(Logons) /\ boot.step = "devices" /\ boot' = [boot EXCEPT !.dev = @ + 1]
      /\ alloc_guest_devices(boot.user, boot.dev)
      /\ ~(boot.dev > Len(Directory[boot.user].devices))
    BY DEF CreateDevice, Booting, User, HasDevices
<1>3. boot.user \in Users /\ boot \in Progress
    BY <1>1, <1>2, BootUser
<1>4. PICK u \in Users : u = boot.user
    BY <1>3
<1>5. PICK n \in Nat \ {0} : n = boot.dev
    BY <1>3 DEF Progress
<1>6. boot'.user = u /\ boot'.dev = n + 1
    BY <1>2, <1>3, <1>4, <1>5 DEF Progress
<1> DEFINE devs == Directory[u].devices
           dir == devs[n]
           d == [sch |-> n - 1, dev_num |-> dir.vdev, type |-> dir.type, rdev |-> dir.rdev]
<1>7. /\ devs \in Seq([type : STRING, vdev : 0..MaxDev, rdev : Nat])
      /\ Len(devs) <= MaxDev + 1 /\ MaxDev \in Nat
      /\ \A i, j \in DOMAIN devs : devs[i].vdev = devs[j].vdev => i = j
    BY DeviceAssumption
<1>8. DOMAIN devs = 1..Len(devs) /\ Len(devs) \in Nat
    BY <1>7, LenProperties
<1>9. n \in DOMAIN devs
    BY <1>2, <1>4, <1>5, <1>8
<1>10. dir \in [type : STRING, vdev : 0..MaxDev, rdev : Nat]
    BY <1>7, <1>8, <1>9, ElementOfSeq
<1> HIDE DEF devs, dir
<1>11. n - 1 \in Numbers
    BY <1>7, <1>8, <1>9 DEF Numbers
<1>12. d \in VirtDev
    BY <1>10, <1>11 DEF VirtDev, Numbers, RealNumbers, DevTypes
<1>13. Numbered(u, n)
    BY <1>2, <1>4, <1>5 DEF DevInv
<1>14. ASSUME NEW i \in DOMAIN virt_devs[u]
       PROVE  virt_devs[u][i].sch # d.sch /\ virt_devs[u][i].dev_num # d.dev_num
  <2>1. PICK m \in DOMAIN devs : /\ m < n /\ virt_devs[u][i].sch = m - 1
                                 /\ virt_devs[u][i].dev_num = devs[m].vdev
      BY <1>13 DEF Numbered, devs
  <2>2. m \in Int /\ m # n
      BY <2>1, <1>8
  <2>3. devs[m].vdev # dir.vdev
      BY <2>2, <1>7, <1>9 DEF dir
  <2>4. d.sch = n - 1 /\ d.dev_num = dir.vdev
      OBVIOUS
  <2>5. m - 1 # n - 1
      BY <2>2
  <2> HIDE DEF d
  <2> QED BY <2>1, <2>3, <2>4, <2>5
<1>15. alloc_virt_dev(u, dir, n - 1)
    BY <1>2, <1>4, <1>5 DEF alloc_guest_devices, dir, devs
<1>16. CASE UNCHANGED devices
  <2>1. virt_devs' = virt_devs /\ in_use' = in_use
      BY <1>16 DEF devices
  <2>2. Numbered(u, n + 1)'
    <3>1. \A m \in DOMAIN devs : m < n => m < n + 1
        BY <1>8
    <3> QED BY <3>1, <2>1, <1>13 DEF Numbered, devs
  <2> QED BY <2>1, <2>2, <1>1, <1>6 DEF DevInv, DevType, Dedicated, DevicesDistinct
<1>17. CASE ~Refuses(dir) /\ virt_devs' = [virt_devs EXCEPT ![u] = Append(@, d)]
            /\ in_use' = IF dir.type = "DED" THEN in_use \cup {dir.rdev} ELSE in_use
  <2>1. d.type = dir.type /\ d.rdev = dir.rdev /\ d.sch = n - 1 /\ d.dev_num = dir.vdev
      OBVIOUS
  <2> HIDE DEF d
  <2>2. d.type = "DED" => d.rdev \notin in_use
      BY <1>17, <2>1 DEF Refuses, CannotDedicate
  <2>3. DevType' /\ Dedicated' /\ DevicesDistinct'
      BY <2>1, <2>2, <1>1, <1>12, <1>14, <1>17, AddDevice
  <2>4. /\ DOMAIN virt_devs'[u] = DOMAIN virt_devs[u] \cup {Len(virt_devs[u]) + 1}
        /\ virt_devs'[u][Len(virt_devs[u]) + 1] = d
        /\ \A i \in DOMAIN virt_devs[u] : virt_devs'[u][i] = virt_devs[u][i]
      BY <1>1, <1>12, <1>17, DeviceAppended
  <2>5. ASSUME NEW i \in DOMAIN virt_devs'[u]
        PROVE  \E m \in DOMAIN devs : /\ m < n + 1 /\ virt_devs'[u][i].sch = m - 1
                                      /\ virt_devs'[u][i].dev_num = devs[m].vdev
    <3>1. CASE virt_devs'[u][i] = d
      <4>1. n < n + 1
          OBVIOUS
      <4> QED BY <3>1, <4>1, <2>1, <1>9 DEF dir
    <3>2. CASE i \in DOMAIN virt_devs[u] /\ virt_devs'[u][i] = virt_devs[u][i]
      <4>1. \A m \in DOMAIN devs : m < n => m < n + 1
          BY <1>8
      <4> QED BY <3>2, <4>1, <1>13 DEF Numbered, devs
    <3> QED BY <2>4, <2>5, <3>1, <3>2
  <2>6. Numbered(u, n + 1)'
      BY <2>5 DEF Numbered, devs
  <2> QED BY <2>3, <2>6, <1>6 DEF DevInv
<1> QED BY <1>15, <1>16, <1>17 DEF alloc_virt_dev

\* guest_attach picks numbers that no device of the user has.
LEMMA AttachDevs ==
    ASSUME IndInv, DevInv, Attach
    PROVE  DevInv'
<1>1. ControlType /\ BootInv /\ DevType /\ Dedicated /\ DevicesDistinct
    BY DEF IndInv, DevInv
<1>2. /\ boot.k <= Len(Logons) /\ boot.step = "attach" /\ boot' = NoBoot(boot.k + 1)
      /\ guest_attach(boot.user, Directory[boot.user].console)
    BY DEF Attach, Booting, User
<1>3. boot.user \in Users
    BY <1>1, <1>2, BootUser
<1>4. PICK u \in Users : u = boot.user
    BY <1>3
<1>5. boot'.step # "devices"
    BY <1>2 DEF NoBoot
<1> DEFINE dir == [type |-> "DED", vdev |-> FreeDev(u), rdev |-> Directory[u].console]
           d == [sch |-> FreeSch(u), dev_num |-> FreeDev(u), type |-> "DED",
                 rdev |-> Directory[u].console]
<1>6. /\ FreeDev(u) <= MaxDev /\ FreeSch(u) <= MaxDev /\ alloc_virt_dev(u, dir, FreeSch(u))
    BY <1>2, <1>4 DEF guest_attach, CanAttach
<1>7. Field(u, "dev_num") \subseteq Numbers /\ Field(u, "sch") \subseteq Numbers
  <2>1. \A i \in DOMAIN virt_devs[u] : virt_devs[u][i] \in VirtDev
      BY <1>1, ElementOfSeq, LenProperties DEF DevType
  <2>2. \A x \in VirtDev : x["dev_num"] \in Numbers /\ x["sch"] \in Numbers
      BY DEF VirtDev
  <2> QED BY <2>1, <2>2 DEF Field
<1>8. /\ FreeDev(u) \in 0..(MaxDev + 1) /\ FreeDev(u) \notin Field(u, "dev_num")
      /\ FreeSch(u) \in 0..(MaxDev + 1) /\ FreeSch(u) \notin Field(u, "sch")
    BY <1>7, FirstFreeIsFree DEF FreeDev, FreeSch
<1>9. FreeDev(u) \in Numbers /\ FreeSch(u) \in Numbers
    BY <1>6, <1>8, DeviceAssumption DEF Numbers
<1>10. d \in VirtDev
  <2>1. Directory[u].console \in RealNumbers
      BY DEF RealNumbers
  <2>2. \A a, b \in Numbers, t \in DevTypes, c \in RealNumbers :
          [sch |-> a, dev_num |-> b, type |-> t, rdev |-> c] \in VirtDev
      BY DEF VirtDev
  <2>3. "DED" \in DevTypes
      BY DEF DevTypes
  <2> QED BY <2>1, <2>2, <2>3, <1>9, Zenon
<1>11. \A i \in DOMAIN virt_devs[u] :
          virt_devs[u][i].sch # d.sch /\ virt_devs[u][i].dev_num # d.dev_num
    BY <1>8 DEF Field
<1>12. CASE UNCHANGED devices
    BY <1>12, <1>5, QuietDevices DEF devices
<1>13. CASE ~Refuses(dir) /\ virt_devs' = [virt_devs EXCEPT ![u] = Append(@, d)]
            /\ in_use' = in_use \cup {Directory[u].console}
  <2>1. Directory[u].console \notin in_use
      BY <1>13 DEF Refuses, CannotDedicate
  <2>2. d.type = "DED" /\ d.rdev = Directory[u].console
      OBVIOUS
  <2> HIDE DEF d
  <2>3. DevType' /\ Dedicated' /\ DevicesDistinct'
      BY <2>1, <2>2, <1>1, <1>10, <1>11, <1>13, AddDevice
  <2> QED BY <2>3, <1>5 DEF DevInv
<1>14. \/ UNCHANGED devices
       \/ ~Refuses(dir) /\ virt_devs' = [virt_devs EXCEPT ![u] = Append(@, d)]
            /\ in_use' = in_use \cup {Directory[u].console}
    BY <1>6 DEF alloc_virt_dev
<1> QED BY <1>12, <1>13, <1>14

LEMMA NextDevs == IndInv /\ DevInv /\ [Next]_vars => DevInv'
<1> SUFFICES ASSUME IndInv, DevInv, [Next]_vars PROVE DevInv'
    OBVIOUS
<1>1. CASE /\ UNCHANGED <<virt_devs, in_use>>
           /\ boot'.step = "devices" => boot.step = "devices" /\ boot' = boot
    BY <1>1, QuietDevices
<1>2. CASE UNCHANGED vars
    BY <1>1, <1>2 DEF vars, devices, control
<1>3. ASSUME NEW t \in Tasks, Switch(t) \/ IplCopy(t) \/ IplEnd(t) PROVE DevInv'
    BY <1>1, <1>3 DEF Switch, IplCopy, IplEnd, devices
<1>4. CASE Create
  <2>1. ControlType /\ BootInv /\ boot.k <= Len(Logons) /\ boot.step = "create"
      BY <1>4 DEF Create, Booting, IndInv
  <2>2. PICK u \in Logons[boot.k] : boot' = [boot EXCEPT !.user = u, !.step = "devices"]
      BY <1>4 DEF Create
  <2>3. u \in Users /\ virt_devs[u] = <<>> /\ boot \in Progress
      BY <2>1, <2>2, BootUser DEF Begun
  <2>4. boot'.user = u
      BY <2>2, <2>3 DEF Progress
  <2>5. virt_devs' = virt_devs /\ in_use' = in_use
      BY <1>4 DEF Create, devices
  <2>6. Numbered(boot.user, boot.dev)'
      BY <2>3, <2>4, <2>5 DEF Numbered
  <2> QED BY <2>5, <2>6 DEF DevInv, DevType, Dedicated, DevicesDistinct
<1>5. CASE CreatePage \/ Dies
    BY <1>1, <1>5 DEF CreatePage, Dies, devices, control
<1>6. CASE CreateTask \/ Load \/ Begin
  <2>1. UNCHANGED <<virt_devs, in_use>>
      BY <1>6 DEF CreateTask, Load, Begin, IplStart, devices
  <2>2. boot \in Progress
      BY DEF IndInv, ControlType, Progress
  <2>3. boot'.step \in {"ipl", "begin", "attach"}
      BY <2>2, <1>6 DEF CreateTask, Load, Begin, Progress
  <2> QED BY <2>1, <2>3, <1>1
<1>7. ASSUME NEW u \in Users,
             \/ ShellStart(u) \/ Command(u) \/ Display(u) \/ Channel(u)
             \/ \E nss : cmd_ipl(u, nss)
             \/ \E p : Ssch(u, p)
      PROVE  DevInv'
  <2>1. CASE ShellStart(u) \/ Command(u) \/ Display(u) \/ Channel(u)
      BY <2>1, <1>1 DEF ShellStart, Command, Display, Channel, devices, control
  <2>2. CASE \E nss : cmd_ipl(u, nss)
      BY <2>2, <1>1 DEF cmd_ipl, IplStart, devices
  <2>3. CASE \E p : Ssch(u, p)
      BY <2>3, <1>1 DEF Ssch, devices
  <2> QED BY <1>7, <2>1, <2>2, <2>3
<1> QED BY <1>2, <1>3, <1>4, <1>5, <1>6, <1>7, CreateDeviceDevs, AttachDevs DEF Next

\* A subchannel number finds one device of a user, and a real device is dedicated
\* to one virtual device of one user, for every directory: the numbers
\* guest_attach finds are free although alloc_guest_devices leaves gaps.
THEOREM DevicesAreTold == Spec => []DevicesDistinct
<1>1. Init => DevInv
  <2> SUFFICES ASSUME Init PROVE DevInv
      OBVIOUS
  <2>1. virt_devs = [u \in Users |-> <<>>] /\ boot.step = "create"
      BY DEF Init, DevicesInit, NoBoot
  <2> QED BY <2>1 DEF DevInv, DevType, Dedicated, DevicesDistinct
<1>2. DevInv => DevicesDistinct
    BY DEF DevInv
<1> QED BY <1>1, <1>2, NextDevs, Invariance, PTL DEF Spec

-----------------------------------------------------------------------------
\* Bytes of a guest.

LEMMA SamePage ==
    ASSUME NEW a \in Nat, NEW i \in Nat, (a % PAGE) + i < PAGE
    PROVE  (a + i) \div PAGE = a \div PAGE /\ (a + i) % PAGE = (a % PAGE) + i
<1>1. PAGE \in Nat \ {0}
    BY PageAssumption
<1>2. PICK q \in Nat, r \in 0..(PAGE - 1) : q = a \div PAGE /\ r = a % PAGE /\ a = q * PAGE + r
    BY Indices
<1>3. r + i \in 0..(PAGE - 1)
    BY <1>1, <1>2
<1>4. q * PAGE \in Nat
    BY <1>1
<1>5. a + i = q * PAGE + (r + i)
    BY <1>2, <1>4
<1>6. (q * PAGE + (r + i)) \div PAGE = q /\ (q * PAGE + (r + i)) % PAGE = r + i
    BY <1>1, <1>3, DivModUnique
<1> QED BY <1>2, <1>5, <1>6, Zenon

LEMMA GuestBytes ==
    ASSUME StorageInv, NEW u \in Users, NEW a \in Nat
    PROVE  /\ InStorage(u, a) <=> a \div PAGE < Len(guest_pages[u])
           /\ InStorage(u, a) => /\ a \div PAGE + 1 \in 1..Len(guest_pages[u])
                                 /\ guest_pages[u][a \div PAGE + 1] \in Frames
                                 /\ GuestByte(u, a) \in 0..255
<1>1. PAGE \in Nat \ {0}
    BY PageAssumption
<1>2. PICK n \in Nat : n = Len(guest_pages[u])
    BY OwnFrames
<1>3. PICK q \in Nat, r \in 0..(PAGE - 1) : q = a \div PAGE /\ r = a % PAGE /\ a = q * PAGE + r
    BY Indices
<1>4. a < PAGE * n <=> q < n
  <2>1. CASE q < n
    <3>1. (q + 1) * PAGE <= n * PAGE
        BY <2>1, <1>1
    <3> QED BY <2>1, <3>1, <1>1, <1>3
  <2>2. CASE ~(q < n)
    <3>1. n * PAGE <= q * PAGE
        BY <2>2, <1>1, SMTT(40)
    <3> QED BY <2>2, <3>1, <1>1, <1>3
  <2> QED BY <2>1, <2>2
<1>5. ASSUME q < n
      PROVE  q + 1 \in 1..n /\ guest_pages[u][q + 1] \in Frames /\ GuestByte(u, a) \in 0..255
  <2>1. q + 1 \in 1..n
      BY <1>5
  <2>2. guest_pages[u][q + 1] \in Frames
      BY <2>1, <1>2, OwnFrames, ElementOfSeq
  <2>3. guest_pages[u][q + 1] * PAGE + r \in Addresses
      BY <2>2, <1>3, FrameBytes
  <2>4. mem \in [Addresses -> 0..255]
      BY DEF StorageInv, StorageType
  <2> QED BY <2>1, <2>2, <2>3, <2>4, <1>3 DEF GuestByte, DAT_BX
<1> QED BY <1>2, <1>3, <1>4, <1>5 DEF InStorage

\* What CP fetches from the address space of the user is the user's, up to the
\* end of the page.
LEMMA Fetch ==
    ASSUME StorageInv, BootInv, NEW u \in Users, u \in alive, cr1 = as[u],
           NEW a \in Int, NEW n \in Nat \ {0}
    PROVE  LET r == memcpy_from_guest(a, n)
           IN  /\ r.data \in Seq(0..255)
               /\ r.ret = 0 =>
                    /\ Len(r.data) = n /\ a \in Nat /\ InStorage(u, a)
                    /\ (a % PAGE) + n <= PAGE => \A i \in 1..n :
                         InStorage(u, a + i - 1) /\ r.data[i] = GuestByte(u, a + i - 1)
<1> DEFINE r == memcpy_from_guest(a, n)
           host == Translate(as[u], a)
           bytes == [i \in 1..n |-> mem[Target(host, i)]]
<1>1. CASE host = FAULT
  <2>1. r = [ret |-> FAULT, data |-> <<>>]
      BY <1>1 DEF memcpy_from_guest, virt2phy_current
  <2> QED BY <2>1 DEF FAULT
<1>2. CASE host # FAULT
  <2>1. r = [ret |-> 0, data |-> bytes]
      BY <1>2 DEF memcpy_from_guest, virt2phy_current
  <2> DEFINE q == a \div PAGE
             b == a % PAGE
             f == guest_pages[u][q + 1]
  <2>2. /\ a \in Nat /\ q + 1 \in 1..Len(guest_pages[u]) /\ b \in 0..(PAGE - 1)
        /\ f \in Frames /\ host = f * PAGE + b
    <3>1. f \in FramesOf(u)
        BY <1>2, HostAddress
    <3>2. f \in Frames
        BY <3>1, OwnFrames
    <3> HIDE DEF f
    <3> QED BY <1>2, <3>2, HostAddress DEF f
  <2> HIDE DEF host
  <2>3. InStorage(u, a)
    <3>1. q \in Nat /\ Len(guest_pages[u]) \in Nat
        BY <2>2, Indices, OwnFrames
    <3>2. q < Len(guest_pages[u])
        BY <2>2, <3>1
    <3> QED BY <2>2, <3>2, GuestBytes
  <2>4. ASSUME NEW i \in 1..n
        PROVE  \E c \in b..(PAGE - 1) :
                 Target(host, i) = f * PAGE + c /\ (i <= PAGE - b => c = b + i - 1)
    <3>1. i \in Nat \ {0} /\ f \in Frames /\ b \in 0..(PAGE - 1) /\ host = f * PAGE + b
        BY <2>2
    <3> HIDE DEF f, b
    <3>2. \E c \in b..(PAGE - 1) :
            Target(f * PAGE + b, i) = f * PAGE + c /\ (i <= PAGE - b => c = b + i - 1)
        BY <3>1, TargetInFrame
    <3> QED BY <3>1, <3>2, Zenon
  <2>5. mem \in [Addresses -> 0..255] /\ PAGE \in Nat \ {0}
    <3>1. PAGE \in Nat \ {0}
        BY PageAssumption
    <3> QED BY <3>1, SMTT(40) DEF StorageInv, StorageType
  <2>6. \A i \in 1..n : mem[Target(host, i)] \in 0..255
    <3> TAKE i \in 1..n
    <3>1. PICK c \in b..(PAGE - 1) : Target(host, i) = f * PAGE + c
        BY <2>4
    <3>2. c \in 0..(PAGE - 1)
        BY <2>2
    <3>3. f * PAGE + c \in Addresses
        BY <3>2, <2>2, FrameBytes
    <3> QED BY <3>1, <3>3, <2>5
  <2>7. bytes \in Seq(0..255) /\ Len(bytes) = n
    <3>1. bytes \in [1..n -> 0..255]
        BY <2>6
    <3> QED BY <3>1, FunctionIsSeq
  <2>8. ASSUME b + n <= PAGE, NEW i \in 1..n
        PROVE  InStorage(u, a + i - 1) /\ bytes[i] = GuestByte(u, a + i - 1)
    <3>1. PICK k \in Nat : k = i - 1 /\ b + k < PAGE /\ k + 1 = i
        BY <2>8, <2>2, <2>5, SMTT(40)
    <3>2. (a + k) \div PAGE = q /\ (a + k) % PAGE = b + k
        BY <3>1, <2>2, SamePage
    <3>3. a + k \in Nat /\ a + k = a + i - 1
        BY <3>1, <2>2
    <3>4. InStorage(u, a + k)
        BY <3>2, <3>3, <2>2, <2>3, GuestBytes
    <3>5. PICK c \in b..(PAGE - 1) :
             Target(host, i) = f * PAGE + c /\ (i <= PAGE - b => c = b + i - 1)
        BY <2>4
    <3>6. i <= PAGE - b /\ b + i - 1 = b + k
        BY <3>1, <2>2, <2>5
    <3>7. GuestByte(u, a + k) = mem[f * PAGE + (b + k)]
        BY <3>2 DEF GuestByte, DAT_BX
    <3>8. bytes[i] = mem[f * PAGE + (b + k)]
        BY <3>5, <3>6
    <3> QED BY <3>3, <3>4, <3>7, <3>8
  <2> HIDE DEF r, bytes
  <2>9. r.data = bytes
      BY <2>1
  <2> QED BY <2>2, <2>3, <2>7, <2>8, <2>9 DEF r
<1> QED BY <1>1, <1>2

-----------------------------------------------------------------------------
\* Channel programs.

Statuses == {"none", "PROG_CHK", "PROT_CHK"}
RecordType == [data : Seq(Int), want : Seq(Int), crosses : BOOLEAN]
ChannelType ==
    [busy : BOOLEAN, cons : BOOLEAN, f : 0..1, addr : Int, buf : Seq(Int), rem : Int,
     dev : SUBSET {"CE", "DE", "UC"}, sch : Statuses, tic2tic : BOOLEAN, count : Nat,
     recs : Seq(RecordType), n : Int]
Halfword == {x \in Nat : x < U16}
CcwType == [cmd : Nat, flags : Nat, count : Halfword, addr : Int]

\* What RecordsAreGuestData and ResidualIsExact say of a program, ended or not.
RecordsOK(c) ==
    \A i \in DOMAIN c.recs :
        \/ c.recs[i].data = c.recs[i].want \/ c.recs[i].crosses
        \/ c.sch # "none" /\ i = Len(c.recs)
ResidualOK(c) ==
    c.dev = CE_DE /\ c.sch = "none" /\ c.count > 0 => c.rem = c.count - Len(Last(c.recs).data)
ProgramOK(c) == c \in ChannelType /\ RecordsOK(c) /\ ResidualOK(c)

ChanInv ==
    /\ chan \in [Users -> ChannelType]
    /\ \A u \in Users : ProgramOK(chan[u]) /\ (chan[u].busy => u \in started)

LEMMA CcwIsTyped ==
    ASSUME NEW b \in Seq(0..255), Len(b) = 8, NEW c
    PROVE  Decoded(c, b) \in CcwType
<1>1. \A i \in 1..8 : b[i] \in Nat /\ b[i] < 256
  <2> TAKE i \in 1..8
  <2>1. b[i] \in 0..255
      BY ElementOfSeq
  <2>2. \A x \in 0..255 : x \in Nat /\ x < 256
      OBVIOUS
  <2> QED BY <2>1, <2>2, Zenon
<1>2. Half(b, 3) \in Halfword /\ Half(b, 7) \in Halfword
  <2>1. \A x, y \in Nat : x < 256 /\ y < 256 => x * 256 + y \in Nat /\ x * 256 + y < 65536
      OBVIOUS
  <2>2. U16 = 65536
      BY DEF U16
  <2>3. /\ b[3] \in Nat /\ b[3] < 256 /\ b[4] \in Nat /\ b[4] < 256
        /\ b[7] \in Nat /\ b[7] < 256 /\ b[8] \in Nat /\ b[8] < 256
      BY <1>1
  <2>4. Half(b, 3) = b[3] * 256 + b[4] /\ Half(b, 7) = b[7] * 256 + b[8]
      BY DEF Half
  <2> QED BY <2>1, <2>2, <2>3, <2>4, SMTT(40) DEF Halfword
<1> DEFINE cmd == IF b[1] % 16 = CCW_CMD_TIC THEN CCW_CMD_TIC ELSE b[1]
           addr == b[2] * U16 + Half(b, 3)
           addr1 == Byte0(b[5]) * 256 * U16 + b[6] * U16 + Half(b, 7)
<1>3. U16 \in Int /\ CCW_CMD_TIC \in Nat /\ Byte0(b[5]) \in Int
      /\ Half(b, 3) \in Int /\ Half(b, 7) \in Int
  <2>1. U16 \in Int /\ CCW_CMD_TIC \in Nat
      BY DEF U16, CCW_CMD_TIC
  <2>2. \A x \in Nat : Byte0(x) \in Int
      BY DEF Byte0
  <2>3. b[5] \in Nat
      BY <1>1
  <2>4. Half(b, 3) \in Int /\ Half(b, 7) \in Int
      BY <1>2 DEF Halfword
  <2> QED BY <2>1, <2>2, <2>3, <2>4
<1>4. cmd \in Nat /\ addr \in Int /\ addr1 \in Int
  <2>1. b[1] \in Nat /\ b[2] \in Int /\ b[6] \in Int
      BY <1>1
  <2>2. \A x, y, z, m \in Int : x * m + z \in Int /\ x * 256 * m + y * m + z \in Int
      OBVIOUS
  <2>3. cmd \in Nat
      BY <2>1, <1>3
  <2> QED BY <2>1, <2>2, <2>3, <1>3, SMTT(40)
<1>5. /\ ccw0_to_ccw1(b) = [cmd |-> cmd, flags |-> b[5], count |-> Half(b, 7), addr |-> addr]
      /\ Ccw1(b) = [cmd |-> b[1], flags |-> b[2], count |-> Half(b, 3), addr |-> addr1]
    BY DEF ccw0_to_ccw1, Ccw1
<1> HIDE DEF cmd, addr, addr1
<1>6. ccw0_to_ccw1(b) \in CcwType
    BY <1>1, <1>2, <1>4, <1>5 DEF CcwType
<1>7. Ccw1(b) \in CcwType
    BY <1>1, <1>2, <1>4, <1>5 DEF CcwType
<1> QED BY <1>6, <1>7 DEF Decoded

\* What is left of the buffer, the fetched data before it.
LEMMA BufferType ==
    ASSUME NEW buf \in Seq(Int), NEW data \in Seq(0..255)
    PROVE  /\ Overwrite(buf, data) \in Seq(Int) /\ Len(Overwrite(buf, data)) \in Nat
           /\ Len(data) <= Len(Overwrite(buf, data))
           /\ \A i \in 1..Len(data) : Overwrite(buf, data)[i] = data[i]
<1> DEFINE rest == SubSeq(buf, Len(data) + 1, Len(buf))
<1>1. Len(data) \in Nat /\ Len(buf) \in Nat /\ data \in Seq(Int)
  <2>1. Len(data) \in Nat /\ Len(buf) \in Nat
      BY LenProperties
  <2>2. \A i \in 1..Len(data) : data[i] \in Int
    <3>1. \A i \in 1..Len(data) : data[i] \in 0..255
        BY ElementOfSeq
    <3>2. \A x \in 0..255 : x \in Int
        OBVIOUS
    <3> QED BY <3>1, <3>2, Zenon
  <2>3. data \in [1..Len(data) -> Int]
      BY <2>2, LenProperties
  <2> QED BY <2>1, <2>3, FunctionIsSeq
<1>2. rest \in Seq(Int)
    BY <1>1, SubSeqProperties, ElementOfSeq
<1>3. Len(rest) \in Nat
    BY <1>2, LenProperties
<1> HIDE DEF rest
<1>4. /\ data \o rest \in Seq(Int) /\ Len(data \o rest) = Len(data) + Len(rest)
      /\ \A i \in 1..(Len(data) + Len(rest)) :
           (data \o rest)[i] = IF i <= Len(data) THEN data[i] ELSE rest[i - Len(data)]
    BY <1>1, <1>2, ConcatProperties
<1>5. \A i \in 1..Len(data) : i \in 1..(Len(data) + Len(rest)) /\ i <= Len(data)
    BY <1>1, <1>3
<1>6. /\ Len(data) <= Len(data) + Len(rest) /\ Len(data) + Len(rest) \in Nat
    BY <1>1, <1>3
<1> QED BY <1>4, <1>5, <1>6 DEF Overwrite, rest

LEMMA BufferBytesType ==
    ASSUME NEW buf \in Seq(Int), NEW len \in Nat
    PROVE  /\ BufferBytes(buf, len) \in Seq(Int) /\ Len(BufferBytes(buf, len)) = len
           /\ DOMAIN BufferBytes(buf, len) = 1..len
           /\ \A i \in 1..len : BufferBytes(buf, len)[i] = IF i <= Len(buf) THEN buf[i] ELSE JUNK
<1>1. \A i \in 1..len : (IF i <= Len(buf) THEN buf[i] ELSE JUNK) \in Int
  <2> TAKE i \in 1..len
  <2>1. Len(buf) \in Nat
      BY LenProperties
  <2>2. i <= Len(buf) => buf[i] \in Int
      BY <2>1, ElementOfSeq
  <2>3. JUNK \in Int
      BY DEF JUNK
  <2> QED BY <2>2, <2>3
<1>2. BufferBytes(buf, len) \in [1..len -> Int]
    BY <1>1 DEF BufferBytes
<1>3. /\ BufferBytes(buf, len) \in Seq(Int) /\ Len(BufferBytes(buf, len)) = len
      /\ DOMAIN BufferBytes(buf, len) = 1..len
    BY <1>2, FunctionIsSeq
<1> QED BY <1>3 DEF BufferBytes

LEMMA RecLenType ==
    ASSUME NEW ccw \in CcwType
    PROVE  RecLen(ccw) \in Nat /\ RecLen(ccw) <= ccw.count /\ ccw.count \in Nat
           /\ ccw.count < U16
<1>1. ccw.count \in Nat /\ ccw.count < U16
    BY DEF CcwType, Halfword
<1>2. RecMax \in Nat
    BY RecMaxAssumption
<1> QED BY <1>1, <1>2 DEF RecLen

LEMMA WantedType ==
    ASSUME StorageInv, NEW u \in Users, NEW ccw \in CcwType
    PROVE  Wanted(u, ccw) \in Seq(Int)
<1> DEFINE n == RecLen(ccw)
<1>1. n \in Nat /\ n <= ccw.count /\ ccw.count \in Nat /\ ccw.addr \in Int
    BY RecLenType DEF CcwType
<1> HIDE DEF n
<1>2. CASE ccw.count > 0 /\ InStorage(u, ccw.addr) /\ InStorage(u, ccw.addr + ccw.count - 1)
  <2>1. PICK p \in Nat : p = PAGE * Len(guest_pages[u])
    <3>1. PAGE \in Nat /\ Len(guest_pages[u]) \in Nat
        BY PageAssumption, OwnFrames
    <3> QED BY <3>1
  <2>2. ccw.addr >= 0 /\ ccw.addr + ccw.count - 1 < p
      BY <1>2, <2>1 DEF InStorage
  <2>3. \A i \in 1..n : ccw.addr + i - 1 \in Nat /\ InStorage(u, ccw.addr + i - 1)
      BY <1>1, <2>1, <2>2, SMTT(40) DEF InStorage
  <2>4. \A i \in 1..n : GuestByte(u, ccw.addr + i - 1) \in Int
    <3> TAKE i \in 1..n
    <3>1. GuestByte(u, ccw.addr + i - 1) \in 0..255
        BY <2>3, GuestBytes
    <3> QED BY <3>1
  <2> DEFINE w == [i \in 1..n |-> GuestByte(u, ccw.addr + i - 1)]
  <2>5. w \in [1..n -> Int]
      BY <2>4
  <2>6. Wanted(u, ccw) = w
      BY <1>2 DEF Wanted, n
  <2> HIDE DEF w
  <2> QED BY <2>5, <2>6, <1>1, FunctionIsSeq
<1>3. CASE ~(ccw.count > 0 /\ InStorage(u, ccw.addr) /\ InStorage(u, ccw.addr + ccw.count - 1))
  <2>1. Wanted(u, ccw) = <<>>
      BY <1>3, Zenon DEF Wanted
  <2> QED BY <2>1
<1> QED BY <1>2, <1>3

\* The states of a program: those that keep its records and how they came to be.
LEMMA KeepsRecords ==
    ASSUME NEW c, ProgramOK(c), NEW d \in ChannelType, d.recs = c.recs,
           d.sch = c.sch \/ d.sch # "none",
           \/ d.dev = c.dev /\ d.count = c.count /\ d.rem = c.rem
           \/ d.dev # CE_DE \/ d.sch # "none"
    PROVE  ProgramOK(d)
BY DEF ProgramOK, RecordsOK, ResidualOK

LEMMA OutOK ==
    ASSUME NEW c, ProgramOK(c)
    PROVE  ProgramOK(Out(c))
<1>1. c \in ChannelType
    BY DEF ProgramOK
<1>2. /\ Out(c) \in ChannelType /\ Out(c).recs = c.recs /\ Out(c).sch = c.sch
      /\ Out(c).dev = c.dev /\ Out(c).count = c.count /\ Out(c).rem = c.rem
    BY <1>1 DEF Out, ChannelType
<1> QED BY <1>2, KeepsRecords

\* What is in the buffer when the device is called with a WRITE.
Filled(u, c, ccw) ==
    ccw.count > 0 /\ c.sch = "none" =>
        /\ c.rem = ccw.count /\ ccw.count <= Len(c.buf)
        /\ ~CrossesPage(ccw) =>
             /\ InStorage(u, ccw.addr) /\ InStorage(u, ccw.addr + ccw.count - 1)
             /\ \A i \in 1..ccw.count : c.buf[i] = GuestByte(u, ccw.addr + i - 1)

LEMMA XferOK ==
    ASSUME StorageInv, BootInv, NEW u \in Users, u \in alive, cr1 = as[u],
           NEW c \in ChannelType, NEW ccw \in CcwType
    PROVE  LET d == xfer_storage(u, c, ccw)
           IN  /\ d \in ChannelType /\ d.recs = c.recs /\ d.count = c.count
               /\ Filled(u, d, ccw)
<1> DEFINE r == memcpy_from_guest(ccw.addr, ccw.count)
           over == Overwrite(c.buf, r.data)
           status == IF r.ret # 0 THEN "PROT_CHK" ELSE c.sch
           d == [c EXCEPT !.sch = status, !.rem = Len(r.data), !.buf = over]
           e == [c EXCEPT !.sch = "PROG_CHK"]
<1>1. ccw.count \in Nat /\ ccw.addr \in Int
    BY DEF CcwType, Halfword
<1>2. CASE ccw.count = 0
    BY <1>1, <1>2 DEF xfer_storage, Filled
<1>3. CASE ccw.count # 0 /\ ccw.addr > Directory[u].storage * PAGE
  <2>1. xfer_storage(u, c, ccw) = e
      BY <1>3, Zenon DEF xfer_storage
  <2>2. e \in ChannelType /\ e.recs = c.recs /\ e.count = c.count /\ e.sch # "none"
      BY DEF ChannelType, Statuses
  <2> HIDE DEF e
  <2> QED BY <2>1, <2>2 DEF Filled
<1>4. CASE ccw.count # 0 /\ ~(ccw.addr > Directory[u].storage * PAGE)
  <2>1. xfer_storage(u, c, ccw) = d
      BY <1>4, Zenon DEF xfer_storage
  <2>2. ccw.count \in Nat \ {0}
      BY <1>1, <1>4
  <2>3. /\ r.data \in Seq(0..255)
        /\ r.ret = 0 =>
             /\ Len(r.data) = ccw.count /\ ccw.addr \in Nat /\ InStorage(u, ccw.addr)
             /\ (ccw.addr % PAGE) + ccw.count <= PAGE => \A i \in 1..ccw.count :
                  /\ InStorage(u, ccw.addr + i - 1)
                  /\ r.data[i] = GuestByte(u, ccw.addr + i - 1)
      BY <1>1, <2>2, Fetch, ZenonT(60)
  <2> HIDE DEF r
  <2>4. c.buf \in Seq(Int) /\ c.sch \in Statuses
      BY DEF ChannelType
  <2>5. /\ over \in Seq(Int) /\ Len(over) \in Nat /\ Len(r.data) <= Len(over)
        /\ \A i \in 1..Len(r.data) : over[i] = r.data[i]
      BY <2>3, <2>4, BufferType
  <2>6. Len(r.data) \in Int /\ status \in Statuses
      BY <2>3, <2>4, LenProperties DEF Statuses
  <2> HIDE DEF over
  <2>7. status = "none" => r.ret = 0
      OBVIOUS
  <2> HIDE DEF status
  <2>8. /\ d \in ChannelType /\ d.recs = c.recs /\ d.count = c.count /\ d.sch = status
        /\ d.rem = Len(r.data) /\ d.buf = over
      BY <2>5, <2>6 DEF ChannelType
  <2> HIDE DEF d
  <2>9. ASSUME d.sch = "none"
        PROVE  /\ d.rem = ccw.count /\ ccw.count <= Len(d.buf)
               /\ ~CrossesPage(ccw) =>
                    /\ InStorage(u, ccw.addr) /\ InStorage(u, ccw.addr + ccw.count - 1)
                    /\ \A i \in 1..ccw.count : d.buf[i] = GuestByte(u, ccw.addr + i - 1)
    <3>1. r.ret = 0
        BY <2>7, <2>8, <2>9
    <3>2. Len(r.data) = ccw.count /\ ccw.addr \in Nat
        BY <3>1, <2>3
    <3>3. ~CrossesPage(ccw) => (ccw.addr % PAGE) + ccw.count <= PAGE
      <4>1. ccw.addr % PAGE \in Int /\ PAGE \in Int
          BY <3>2, Indices, PageAssumption
      <4> QED BY <4>1, <1>1 DEF CrossesPage, DAT_BX
    <3>4. ccw.count \in 1..ccw.count
        BY <2>2
    <3> QED BY <3>1, <3>2, <3>3, <3>4, <2>3, <2>5, <2>8
  <2> QED BY <2>1, <2>8, <2>9 DEF Filled
<1> QED BY <1>2, <1>3, <1>4

\* The record of a WRITE is what the guest has there.
LEMMA RecordIsData ==
    ASSUME NEW u \in Users, NEW c \in ChannelType, NEW ccw \in CcwType, Filled(u, c, ccw),
           c.sch = "none", ~CrossesPage(ccw)
    PROVE  BufferBytes(c.buf, RecLen(ccw)) = Wanted(u, ccw)
<1> DEFINE n == RecLen(ccw)
           b == BufferBytes(c.buf, n)
<1>1. n \in Nat /\ n <= ccw.count /\ ccw.count \in Nat
    BY RecLenType
<1>2. c.buf \in Seq(Int)
    BY DEF ChannelType
<1>3. /\ b \in Seq(Int) /\ Len(b) = n /\ DOMAIN b = 1..n
      /\ \A i \in 1..n : b[i] = IF i <= Len(c.buf) THEN c.buf[i] ELSE JUNK
    BY <1>1, <1>2, BufferBytesType
<1> HIDE DEF b
<1>4. CASE ccw.count = 0
  <2>1. b = <<>>
      BY <1>1, <1>3, <1>4, EmptySeq
  <2>2. Wanted(u, ccw) = <<>>
      BY <1>4 DEF Wanted
  <2> QED BY <2>1, <2>2 DEF b
<1>5. CASE ccw.count > 0
  <2>1. /\ ccw.count <= Len(c.buf)
        /\ InStorage(u, ccw.addr) /\ InStorage(u, ccw.addr + ccw.count - 1)
        /\ \A i \in 1..ccw.count : c.buf[i] = GuestByte(u, ccw.addr + i - 1)
      BY <1>5 DEF Filled
  <2> DEFINE w == [i \in 1..n |-> GuestByte(u, ccw.addr + i - 1)]
  <2>2. Wanted(u, ccw) = w
      BY <2>1, <1>5 DEF Wanted
  <2>3. Len(c.buf) \in Nat
      BY <1>2, LenProperties
  <2>4. \A i \in 1..n : i \in 1..ccw.count /\ i <= Len(c.buf)
      BY <1>1, <2>1, <2>3
  <2> HIDE DEF n
  <2>5. \A i \in 1..n : b[i] = w[i]
      BY <2>1, <2>4, <1>3
  <2>6. b = [i \in 1..n |-> b[i]]
      BY <1>1, <1>3, SeqDef
  <2>7. b = w
      BY <2>5, <2>6
  <2> QED BY <2>2, <2>7 DEF b, n
<1> QED BY <1>1, <1>4, <1>5

LEMMA AppendedOK ==
    ASSUME StorageInv, NEW u \in Users, NEW c \in ChannelType, NEW ccw \in CcwType,
           RecordsOK([c EXCEPT !.sch = "none"]), c.count = ccw.count, Filled(u, c, ccw)
    PROVE  ProgramOK(Appended(u, c, ccw, RecLen(ccw)))
<1> DEFINE n == RecLen(ccw)
           data == BufferBytes(c.buf, n)
           want == Wanted(u, ccw)
           crosses == CrossesPage(ccw)
           rec == [data |-> data, want |-> want, crosses |-> crosses]
           recs == Append(c.recs, rec)
           rem == (c.rem - n) % U16
           d == [c EXCEPT !.dev = CE_DE, !.rem = rem, !.recs = recs]
<1>1. Appended(u, c, ccw, n) = d
    BY DEF Appended
<1>2. /\ n \in Nat /\ n <= ccw.count /\ ccw.count \in Nat /\ ccw.count < U16
    BY RecLenType
<1>3. c.buf \in Seq(Int) /\ c.recs \in Seq(RecordType) /\ c.rem \in Int
    BY DEF ChannelType
<1>4. data \in Seq(Int) /\ Len(data) = n
    BY <1>2, <1>3, BufferBytesType
<1>5. want \in Seq(Int)
    BY WantedType
<1>6. crosses \in BOOLEAN
    BY DEF CrossesPage
<1>7. c.sch = "none" => data = want \/ crosses
    BY RecordIsData
<1>8. c.sch = "none" /\ ccw.count > 0 => c.rem = ccw.count
    BY DEF Filled
<1>9. \A i \in DOMAIN c.recs : c.recs[i].data = c.recs[i].want \/ c.recs[i].crosses
  <2> DEFINE e == [c EXCEPT !.sch = "none"]
  <2>1. e.sch = "none" /\ e.recs = c.recs
      BY DEF ChannelType
  <2> HIDE DEF e
  <2>2. RecordsOK(e)
      BY DEF e
  <2> QED BY <2>1, <2>2 DEF RecordsOK
<1> HIDE DEF data, want, crosses, n
<1>10. rec \in RecordType /\ rec.data = data /\ rec.want = want /\ rec.crosses = crosses
    BY <1>4, <1>5, <1>6 DEF RecordType
<1> HIDE DEF rec
<1>11. /\ recs \in Seq(RecordType) /\ Len(recs) = Len(c.recs) + 1 /\ recs # <<>>
       /\ \A i \in 1..Len(c.recs) : recs[i] = c.recs[i]
       /\ recs[Len(c.recs) + 1] = rec
    BY <1>3, <1>10, AppendProperties
<1>12. /\ Len(c.recs) \in Nat /\ DOMAIN c.recs = 1..Len(c.recs)
       /\ DOMAIN recs = 1..(Len(c.recs) + 1)
    BY <1>3, <1>11, LenProperties
<1> HIDE DEF recs
<1>13. Last(recs) = rec
    BY <1>11 DEF Last
<1>14. U16 \in Nat \ {0} /\ rem \in Int /\ (c.sch = "none" /\ ccw.count > 0 => rem = ccw.count - n)
  <2>1. U16 \in Nat \ {0}
      BY DEF U16
  <2>2. \A x \in Int : x % U16 \in Int /\ (0 <= x /\ x < U16 => x % U16 = x)
      BY <2>1
  <2>3. c.sch = "none" /\ ccw.count > 0 => c.rem - n = ccw.count - n
      BY <1>8
  <2>4. 0 <= ccw.count - n /\ ccw.count - n < U16
      BY <1>2, <2>1
  <2>5. ccw.count - n \in Int /\ c.rem - n \in Int
      BY <1>2, <1>3
  <2> QED BY <2>1, <2>2, <2>3, <2>4, <2>5
<1> HIDE DEF rem
<1>15. CE_DE \in SUBSET {"CE", "DE", "UC"}
    BY DEF CE_DE
<1>16. /\ d \in ChannelType /\ d.recs = recs /\ d.sch = c.sch /\ d.count = ccw.count
       /\ d.rem = rem
    BY <1>11, <1>14, <1>15 DEF ChannelType
<1> HIDE DEF d
<1>17. RecordsOK(d)
  <2> SUFFICES ASSUME NEW i \in DOMAIN recs
               PROVE  \/ recs[i].data = recs[i].want \/ recs[i].crosses
                      \/ c.sch # "none" /\ i = Len(recs)
      BY <1>16 DEF RecordsOK
  <2>1. CASE i \in DOMAIN c.recs
      BY <2>1, <1>9, <1>11, <1>12
  <2>2. CASE i = Len(c.recs) + 1
      BY <2>2, <1>7, <1>10, <1>11
  <2>3. i \in DOMAIN c.recs \/ i = Len(c.recs) + 1
      BY <1>12
  <2> QED BY <2>1, <2>2, <2>3
<1>18. ResidualOK(d)
    BY <1>4, <1>10, <1>13, <1>14, <1>16 DEF ResidualOK
<1> QED BY <1>1, <1>16, <1>17, <1>18 DEF ProgramOK, n

\* The dispatch, with the records of a program that has no check yet.
LEMMA DeviceOK ==
    ASSUME StorageInv, NEW u \in Users, NEW c \in ChannelType, NEW ccw \in CcwType,
           RecordsOK([c EXCEPT !.sch = "none"]), c.count = ccw.count,
           ccw.cmd = 1 => Filled(u, c, ccw), NEW ok \in BOOLEAN
    PROVE  ProgramOK(Device(u, c, ccw, ok))
<1> DEFINE uc == CE_DE \cup {"UC"}
           d == [c EXCEPT !.dev = uc]
<1>1. ProgramOK(d)
  <2>1. uc \in SUBSET {"CE", "DE", "UC"} /\ uc # CE_DE
      BY DEF CE_DE
  <2> HIDE DEF uc
  <2>2. d \in ChannelType /\ d.recs = c.recs /\ d.dev # CE_DE /\ d.sch = c.sch
      BY <2>1 DEF ChannelType
  <2> HIDE DEF d
  <2> DEFINE e == [c EXCEPT !.sch = "none"]
  <2>3. e.sch = "none" /\ e.recs = c.recs
      BY DEF ChannelType
  <2> HIDE DEF e
  <2>4. RecordsOK(e)
      BY DEF e
  <2>5. RecordsOK(d)
      BY <2>2, <2>3, <2>4 DEF RecordsOK
  <2> QED BY <2>2, <2>5 DEF ProgramOK, ResidualOK
<1>2. ccw.cmd = 1 => ProgramOK(Appended(u, c, ccw, RecLen(ccw)))
    BY AppendedOK
<1> HIDE DEF d
<1>3. \/ Device(u, c, ccw, ok) = d
      \/ ccw.cmd = 1 /\ Device(u, c, ccw, ok) = Appended(u, c, ccw, RecLen(ccw))
    BY Zenon DEF Device, cons_write, d
<1> QED BY <1>1, <1>2, <1>3

LEMMA ExecutedOK ==
    ASSUME StorageInv, BootInv, NEW u \in Users, u \in alive, cr1 = as[u],
           NEW c, ProgramOK(c), c.sch = "none", NEW ccw \in CcwType, NEW ok \in BOOLEAN
    PROVE  ProgramOK(Executed(u, c, ccw, ok))
<1>1. c \in ChannelType
    BY DEF ProgramOK
<1> DEFINE c1 == [c EXCEPT !.sch = "PROG_CHK"]
           c2 == [c EXCEPT !.addr = ccw.addr, !.tic2tic = TRUE]
           c3 == [c EXCEPT !.sch = "PROG_CHK", !.tic2tic = FALSE]
           ready == [c EXCEPT !.tic2tic = FALSE, !.count = ccw.count]
           x == IF IS_CCW_WRITE(ccw.cmd) THEN xfer_storage(u, ready, ccw) ELSE ready
           d == Device(u, x, ccw, ok)
           next == d.addr + 8
           e == [d EXCEPT !.addr = next]
<1>2. ccw.addr \in Int /\ ccw.count \in Nat
    BY DEF CcwType, Halfword
<1>3. ProgramOK(c1) /\ ProgramOK(c3)
  <2>1. c1 \in ChannelType /\ c1.recs = c.recs /\ c1.sch # "none"
      BY <1>1 DEF ChannelType, Statuses
  <2>2. c3 \in ChannelType /\ c3.recs = c.recs /\ c3.sch # "none"
      BY <1>1 DEF ChannelType, Statuses
  <2> HIDE DEF c1, c3
  <2> QED BY <2>1, <2>2, KeepsRecords
<1>4. ProgramOK(c2)
  <2>1. c2 \in ChannelType /\ c2.recs = c.recs /\ c2.sch = c.sch /\ c2.dev = c.dev
        /\ c2.count = c.count /\ c2.rem = c.rem
      BY <1>1, <1>2 DEF ChannelType
  <2> HIDE DEF c2
  <2> QED BY <2>1, KeepsRecords
<1>5. ready \in ChannelType /\ ready.recs = c.recs /\ ready.count = ccw.count
    BY <1>1, <1>2 DEF ChannelType
<1> HIDE DEF ready
<1>6. /\ x \in ChannelType /\ x.recs = c.recs /\ x.count = ccw.count
      /\ ccw.cmd = 1 => Filled(u, x, ccw)
  <2>1. 1 % 4 = 1
      OBVIOUS
  <2>2. ccw.cmd = 1 => IS_CCW_WRITE(ccw.cmd)
      BY <2>1 DEF IS_CCW_WRITE
  <2>3. CASE IS_CCW_WRITE(ccw.cmd)
    <3>1. x = xfer_storage(u, ready, ccw)
        BY <2>3
    <3> QED BY <3>1, <1>5, XferOK
  <2>4. CASE ~IS_CCW_WRITE(ccw.cmd)
      BY <2>2, <2>4, <1>5
  <2> QED BY <2>3, <2>4
<1> HIDE DEF x
<1>7. RecordsOK([x EXCEPT !.sch = "none"])
  <2> DEFINE y == [x EXCEPT !.sch = "none"]
  <2>1. y.sch = "none" /\ y.recs = c.recs
      BY <1>6 DEF ChannelType
  <2> HIDE DEF y
  <2>2. RecordsOK(y)
      BY <2>1 DEF ProgramOK, RecordsOK
  <2> QED BY <2>2 DEF y
<1>8. ProgramOK(d)
    BY <1>6, <1>7, DeviceOK
<1> HIDE DEF d
<1>9. ProgramOK(e)
  <2>1. d \in ChannelType /\ next \in Int
      BY <1>8 DEF ProgramOK, ChannelType
  <2> HIDE DEF next
  <2>2. e \in ChannelType /\ e.recs = d.recs /\ e.sch = d.sch /\ e.dev = d.dev
        /\ e.count = d.count /\ e.rem = d.rem
      BY <2>1 DEF ChannelType
  <2> HIDE DEF e
  <2> QED BY <2>2, <1>8, KeepsRecords
<1>10. ProgramOK(Out(c1)) /\ ProgramOK(Out(c3)) /\ ProgramOK(Out(d))
    BY <1>3, <1>8, OutOK
<1>11. Chained(d, ccw) = Out(d) \/ Chained(d, ccw) = e
    BY Zenon DEF Chained
<1> HIDE DEF c1, c2, c3, e
<1>12. \/ Executed(u, c, ccw, ok) = Out(c1) \/ Executed(u, c, ccw, ok) = c2
       \/ Executed(u, c, ccw, ok) = Out(c3) \/ Executed(u, c, ccw, ok) = Chained(d, ccw)
    BY Zenon DEF Executed, c1, c2, c3, d, x, ready
<1> QED BY <1>4, <1>9, <1>10, <1>11, <1>12

LEMMA TurnOK ==
    ASSUME StorageInv, BootInv, NEW u \in Users, u \in alive, cr1 = as[u],
           NEW c, ProgramOK(c), NEW ok \in BOOLEAN
    PROVE  ProgramOK(Turn(u, c, memcpy_from_guest(c.addr, 8), ok))
<1> DEFINE r == memcpy_from_guest(c.addr, 8)
           next == c.addr + 8
           c1 == [c EXCEPT !.sch = "PROG_CHK", !.addr = next]
           c2 == [c EXCEPT !.sch = "PROT_CHK", !.addr = next]
           c3 == [c EXCEPT !.addr = next]
<1>1. c \in ChannelType /\ c.addr \in Int /\ next \in Int
    BY DEF ProgramOK, ChannelType
<1> HIDE DEF next
<1>2. /\ r.data \in Seq(0..255) /\ (r.ret = 0 => Len(r.data) = 8)
  <2>1. 8 \in Nat \ {0}
      OBVIOUS
  <2> QED BY <2>1, <1>1, Fetch, ZenonT(60)
<1> HIDE DEF r
<1>3. ProgramOK(c1) /\ ProgramOK(c2) /\ ProgramOK(c3)
  <2>1. /\ c1 \in ChannelType /\ c1.recs = c.recs /\ c1.sch # "none"
      BY <1>1 DEF ChannelType, Statuses
  <2>2. /\ c2 \in ChannelType /\ c2.recs = c.recs /\ c2.sch # "none"
      BY <1>1 DEF ChannelType, Statuses
  <2>3. c3 \in ChannelType /\ c3.recs = c.recs /\ c3.sch = c.sch /\ c3.dev = c.dev
        /\ c3.count = c.count /\ c3.rem = c.rem
      BY <1>1 DEF ChannelType
  <2> HIDE DEF c1, c2, c3
  <2> QED BY <2>1, <2>2, <2>3, KeepsRecords
<1>4. c3.sch = c.sch
    BY <1>1 DEF ChannelType
<1> HIDE DEF c1, c2, c3
<1>5. ASSUME r.ret = 0, c.sch = "none" PROVE ProgramOK(Executed(u, c3, Decoded(c, r.data), ok))
  <2>1. Decoded(c, r.data) \in CcwType
      BY <1>2, <1>5, CcwIsTyped
  <2> QED BY <2>1, <1>3, <1>4, <1>5, ExecutedOK
<1>6. ProgramOK(Out(c1)) /\ ProgramOK(Out(c2)) /\ ProgramOK(Out(c3))
    BY <1>3, OutOK
<1>7. \/ Turn(u, c, r, ok) \in {Out(c1), Out(c2), Out(c3)}
      \/ r.ret = 0 /\ c.sch = "none" /\ Turn(u, c, r, ok) = Executed(u, c3, Decoded(c, r.data), ok)
    BY Zenon DEF Turn, c1, c2, c3, next
<1> QED BY <1>5, <1>6, <1>7 DEF r

LEMMA IdleOK == ProgramOK(IdleChannel)
<1>1. <<>> \in Seq(Int) /\ <<>> \in Seq(RecordType) /\ {} \in SUBSET {"CE", "DE", "UC"}
    OBVIOUS
<1>2. IdleChannel \in ChannelType
    BY <1>1 DEF IdleChannel, ChannelType, Statuses
<1>3. IdleChannel.dev # CE_DE /\ IdleChannel.recs = <<>>
    BY DEF IdleChannel, CE_DE
<1> QED BY <1>2, <1>3 DEF ProgramOK, RecordsOK, ResidualOK

\* A step that changes no program.
LEMMA QuietChannels ==
    ASSUME ChanInv, UNCHANGED chan, started \subseteq started'
    PROVE  ChanInv'
BY DEF ChanInv

LEMMA SwitchChan ==
    ASSUME ChanInv, ForgetEnded, started' = started
    PROVE  ChanInv'
<1>1. IdleChannel \in ChannelType /\ ProgramOK(IdleChannel) /\ ~IdleChannel.busy
    BY IdleOK DEF ProgramOK, IdleChannel
<1>2. \A u \in Users : chan'[u] = IF chan[u].busy THEN chan[u] ELSE IdleChannel
    BY DEF ForgetEnded
<1>3. \A u \in Users : chan'[u] = chan[u] \/ chan'[u] = IdleChannel
    BY <1>2
<1>4. chan' \in [Users -> ChannelType]
    BY <1>1, <1>3 DEF ForgetEnded, ChanInv
<1> QED BY <1>1, <1>3, <1>4 DEF ChanInv

\* A step that changes one program.
LEMMA OneChannel ==
    ASSUME ChanInv, NEW u \in Users, NEW c, ProgramOK(c), u \in started,
           chan' = [chan EXCEPT ![u] = c], started' = started
    PROVE  ChanInv'
BY DEF ChanInv, ProgramOK

LEMMA NextChan == IndInv /\ ChanInv /\ [Next]_vars => ChanInv'
<1> SUFFICES ASSUME IndInv, ChanInv, [Next]_vars PROVE ChanInv'
    OBVIOUS
<1>0. StorageInv /\ ControlType /\ BootInv /\ CrInv
    BY DEF IndInv
<1>1. CASE UNCHANGED vars
    BY <1>1, QuietChannels DEF vars, control
<1>2. ASSUME NEW t \in Tasks, Switch(t) PROVE ChanInv'
    BY <1>2, SwitchChan DEF Switch
<1>3. ASSUME NEW t \in Tasks, IplCopy(t) \/ IplEnd(t) PROVE ChanInv'
    BY <1>3, QuietChannels DEF IplCopy, IplEnd
<1>4. CASE Create \/ CreateDevice \/ CreatePage \/ CreateTask \/ Attach \/ Dies
    BY <1>4, QuietChannels DEF Create, CreateDevice, CreatePage, CreateTask, Attach, Dies, control
<1>5. CASE Load \/ Begin
    BY <1>5, QuietChannels DEF Load, Begin, IplStart
<1>6. ASSUME NEW u \in Users, ShellStart(u) \/ Command(u) \/ Display(u) PROVE ChanInv'
    BY <1>6, QuietChannels DEF ShellStart, Command, Display, control
<1>7. ASSUME NEW u \in Users, NEW nss, cmd_ipl(u, nss) PROVE ChanInv'
    BY <1>7, QuietChannels DEF cmd_ipl, IplStart
<1>8. ASSUME NEW u \in Users, NEW p \in Programs[u], Ssch(u, p) PROVE ChanInv'
  <2>1. u \in started /\ started' = started /\ StartChannel(u, p.type = "CONS", p.f, p.addr)
      BY <1>8 DEF Ssch, Free
  <2>2. p.f \in 0..1 /\ p.addr \in Int
      BY OpAssumption
  <2> DEFINE cons == p.type = "CONS"
             c == [IdleChannel EXCEPT !.busy = TRUE, !.cons = cons, !.f = p.f, !.addr = p.addr]
  <2>3. chan' = [chan EXCEPT ![u] = c]
      BY <2>1 DEF StartChannel
  <2>4. cons \in BOOLEAN
      OBVIOUS
  <2> HIDE DEF cons
  <2>5. IdleChannel \in ChannelType /\ ProgramOK(IdleChannel)
      BY IdleOK DEF ProgramOK
  <2>6. c \in ChannelType /\ c.recs = IdleChannel.recs /\ c.sch = IdleChannel.sch
        /\ c.dev = IdleChannel.dev /\ c.count = IdleChannel.count /\ c.rem = IdleChannel.rem
      BY <2>2, <2>4, <2>5 DEF ChannelType
  <2> HIDE DEF c
  <2>7. ProgramOK(c)
      BY <2>5, <2>6, KeepsRecords
  <2> QED BY <2>1, <2>3, <2>7, OneChannel
<1>9. ASSUME NEW u \in Users, Channel(u) PROVE ChanInv'
  <2> DEFINE next == chan[u].n + 1
             c == [chan[u] EXCEPT !.n = next]
             r == memcpy_from_guest(chan[u].addr, 8)
  <2>1. cur = u /\ chan[u].busy /\ started' = started
      BY <1>9 DEF Channel, ExecCcw, control
  <2>2. PICK ok \in BOOLEAN : chan' = [chan EXCEPT ![u] = Turn(u, c, r, ok)]
      BY <1>9 DEF Channel, ExecCcw
  <2>3. u \in started
      BY <2>1 DEF ChanInv
  <2>4. u \in alive /\ cr1 = as[u]
      BY <2>1, <2>3, <1>0 DEF ControlType, CrInv, CrOf
  <2>5. ProgramOK(chan[u]) /\ chan[u] \in ChannelType /\ next \in Int
      BY DEF ChanInv, ChannelType
  <2> HIDE DEF next
  <2>6. c \in ChannelType /\ c.recs = chan[u].recs /\ c.sch = chan[u].sch
        /\ c.dev = chan[u].dev /\ c.count = chan[u].count /\ c.rem = chan[u].rem
        /\ c.addr = chan[u].addr
      BY <2>5 DEF ChannelType
  <2> HIDE DEF c
  <2>7. ProgramOK(c)
      BY <2>5, <2>6, KeepsRecords
  <2>8. ProgramOK(Turn(u, c, r, ok))
      BY <2>4, <2>6, <2>7, <1>0, TurnOK
  <2> QED BY <2>1, <2>2, <2>3, <2>8, OneChannel
<1> QED BY <1>1, <1>2, <1>3, <1>4, <1>5, <1>6, <1>7, <1>8, <1>9 DEF Next

LEMMA ChannelInvariance == Spec => []ChanInv
<1>1. Init => ChanInv
  <2> SUFFICES ASSUME Init PROVE ChanInv
      OBVIOUS
  <2>1. chan = [u \in Users |-> IdleChannel]
      BY DEF Init, ChannelInit
  <2>2. ProgramOK(IdleChannel) /\ IdleChannel \in ChannelType /\ ~IdleChannel.busy
      BY IdleOK DEF ProgramOK, IdleChannel
  <2> QED BY <2>1, <2>2 DEF ChanInv
<1> QED BY <1>1, NextChan, Invariance, PTL DEF Spec

\* A record that a channel program wrote to the spool is what the guest had at the
\* data address, but for data that cross a page, for every program, however long,
\* every storage and wherever the task is preempted; the data that could not be
\* fetched are told by the status (spool_exec, cons_write).
THEOREM RecordsAreTheGuests == Spec => []RecordsAreGuestData
<1>1. ChanInv => RecordsAreGuestData
    BY DEF ChanInv, ProgramOK, RecordsOK, RecordsAreGuestData
<1> QED BY <1>1, ChannelInvariance, PTL

\* The residual count of a program that ended well is what the last write left.
THEOREM ResidualsAreExact == Spec => []ResidualIsExact
<1>1. ChanInv => ResidualIsExact
    BY DEF ChanInv, ProgramOK, ResidualOK, ResidualIsExact
<1> QED BY <1>1, ChannelInvariance, PTL

-----------------------------------------------------------------------------
\* STORE and DISPLAY of storage.

LEMMA Rounded ==
    ASSUME NEW a \in Nat
    PROVE  \E x \in Nat : RoundDown(a) = 4 * x
<1>1. a \div 4 \in Nat /\ a = 4 * (a \div 4) + (a % 4) /\ a % 4 \in Nat
    OBVIOUS
<1>2. RoundDown(a) = 4 * (a \div 4)
    BY <1>1 DEF RoundDown
<1> QED BY <1>1, <1>2

LEMMA WordsPerPage == \E y \in Nat \ {0} : PAGE = 4 * y
<1>1. PAGE \in Nat /\ PAGE > 0 /\ PAGE % 8 = 0
    BY PageAssumption
<1>2. PAGE = 8 * (PAGE \div 8) /\ PAGE \div 8 \in Nat
    BY <1>1
<1>3. PICK z \in Nat : PAGE = 8 * z
    BY <1>2
<1>4. 2 * z \in Nat \ {0} /\ PAGE = 4 * (2 * z)
    BY <1>1, <1>3
<1> QED BY <1>4

\* A word does not cross a page.
LEMMA WordInPage ==
    ASSUME NEW x \in Nat
    PROVE  ((4 * x) % PAGE) + 3 < PAGE
<1>1. PICK y \in Nat \ {0} : PAGE = 4 * y
    BY WordsPerPage
<1>2. PICK q \in Nat, r \in 0..(PAGE - 1) : r = (4 * x) % PAGE /\ 4 * x = q * PAGE + r
  <2>1. 4 * x \in Nat
      OBVIOUS
  <2> QED BY <2>1, Indices
<1>3. PICK w \in Nat : w = q * y
    OBVIOUS
<1>4. q * PAGE = 4 * w
  <2>1. \A a, b \in Nat : a * (4 * b) = 4 * (a * b)
      OBVIOUS
  <2> QED BY <2>1, <1>1, <1>3
<1>5. r = 4 * (x - w) /\ r < 4 * y
    BY <1>1, <1>2, <1>3, <1>4
<1>6. x - w \in Int /\ x - w < y
    BY <1>5
<1>7. r + 3 < 4 * y
    BY <1>5, <1>6
<1> QED BY <1>1, <1>2, <1>7

\* Two addresses of words with no page boundary between them are in one page.
LEMMA NoBoundary ==
    ASSUME NEW x \in Nat, NEW j \in Nat \ {0}, NEW k \in Nat, j <= k,
           \A i \in (j + 1)..k : (4 * x + 4 * (i - 1)) % PAGE # 0
    PROVE  (4 * x + 4 * (j - 1)) \div PAGE = (4 * x + 4 * (k - 1)) \div PAGE
<1> DEFINE At(i) == 4 * x + 4 * (i - 1)
<1>1. PICK y \in Nat \ {0} : PAGE = 4 * y
    BY WordsPerPage
<1>2. At(j) \in Nat /\ At(k) \in Nat /\ At(j) <= At(k)
    OBVIOUS
<1>3. PICK p \in Nat, r \in 0..(PAGE - 1) : p = At(j) \div PAGE /\ At(j) = p * PAGE + r
    BY <1>2, Indices
<1>4. PICK q \in Nat, s \in 0..(PAGE - 1) : q = At(k) \div PAGE /\ At(k) = q * PAGE + s
    BY <1>2, Indices
<1>5. ASSUME q < p PROVE FALSE
  <2>1. (q + 1) * PAGE <= p * PAGE
      BY <1>1, <1>5
  <2>2. (q + 1) * PAGE = q * PAGE + PAGE /\ q * PAGE \in Nat /\ p * PAGE \in Nat
      BY <1>1
  <2> HIDE DEF At
  <2> QED BY <2>1, <2>2, <1>1, <1>2, <1>3, <1>4
<1>6. ASSUME p < q PROVE FALSE
  <2>1. (p + 1) * PAGE <= q * PAGE
      BY <1>1, <1>6
  <2>2. (p + 1) * PAGE = p * PAGE + PAGE /\ q * PAGE \in Nat /\ p * PAGE \in Nat
      BY <1>1
  <2>3. At(j) < q * PAGE /\ q * PAGE <= At(k)
    <3> HIDE DEF At
    <3> QED BY <2>1, <2>2, <1>1, <1>2, <1>3, <1>4
  <2>4. PICK w \in Nat : w = q * y
      OBVIOUS
  <2>5. q * PAGE = 4 * w
    <3>1. \A a, b \in Nat : a * (4 * b) = 4 * (a * b)
        OBVIOUS
    <3> QED BY <3>1, <2>4, <1>1
  <2>6. PICK i \in Int : i = w - x + 1
      OBVIOUS
  <2>7. i \in (j + 1)..k /\ At(i) = q * PAGE
      BY <2>3, <2>5, <2>6
  <2>8. (q * PAGE) % PAGE = 0
      BY PageStart
  <2> QED BY <2>7, <2>8
<1> QED BY <1>3, <1>4, <1>5, <1>6

\* Of n bytes that are copied to host, the ith goes to a, and no other.
OnlySource(host, n, a, i) == \A j \in 1..n : Target(host, j) = a <=> j = i

LEMMA CopiedAt ==
    ASSUME mem \in [Addresses -> 0..255], NEW host, NEW data \in Seq(0..255),
           NEW a \in Addresses, NEW i \in 1..Len(data), OnlySource(host, Len(data), a, i)
    PROVE  Copied(host, data)[a] = data[i]
<1> DEFINE sources == {j \in 1..Len(data) : Target(host, j) = a}
           pick == CHOOSE k \in sources : \A j \in sources : j <= k
<1>1. Copied(host, data)[a] = IF sources = {} THEN mem[a] ELSE data[pick]
    BY DEF Copied
<1>2. sources = {i} /\ i <= i
  <2>1. i \in Int
      BY LenProperties
  <2> QED BY <2>1 DEF OnlySource
<1> HIDE DEF sources
<1>3. pick \in sources
    BY <1>2
<1> HIDE DEF pick
<1> QED BY <1>1, <1>2, <1>3

\* A word that is stored is found in the guest.
LEMMA WordStored ==
    ASSUME StorageInv, BootInv, NEW u \in Users, u \in alive, NEW x \in Nat,
           Translate(as[u], 4 * x) # FAULT, NEW word \in Seq(0..255), Len(word) = 4,
           mem' = Copied(Translate(as[u], 4 * x), word), guest_pages' = guest_pages
    PROVE  [i \in 1..4 |-> GuestByte(u, 4 * x + i - 1)]' = word
<1> DEFINE a == 4 * x
           host == Translate(as[u], a)
           q == a \div PAGE
           b == a % PAGE
           f == guest_pages[u][q + 1]
<1>1. word = [i \in 1..4 |-> word[i]]
  <2>1. word = [i \in 1..Len(word) |-> word[i]]
      BY SeqDef
  <2> QED BY <2>1, Zenon
<1>2. a \in Nat /\ b + 3 < PAGE
    BY WordInPage
<1>3. mem \in [Addresses -> 0..255] /\ PAGE \in Nat
    BY PageAssumption DEF StorageInv, StorageType
<1>4. f \in FramesOf(u) /\ host = f * PAGE + b /\ b \in 0..(PAGE - 1)
  <2>1. a \in Int
      BY <1>2
  <2>2. host # FAULT
      BY Zenon
  <2> HIDE DEF a
  <2> QED BY <2>1, <2>2, HostAddress
<1>5. f \in Frames
    BY <1>4, OwnFrames
<1> HIDE DEF f, b, host
<1>6. ASSUME NEW i \in 1..4 PROVE Target(host, i) = f * PAGE + (b + i - 1)
  <2>1. i \in Nat \ {0} /\ i <= PAGE - b
      BY <1>2, <1>3, <1>4
  <2>2. PICK c \in b..(PAGE - 1) :
           Target(f * PAGE + b, i) = f * PAGE + c /\ (i <= PAGE - b => c = b + i - 1)
      BY <2>1, <1>4, <1>5, TargetInFrame
  <2> QED BY <2>1, <2>2, <1>4
<1>7. ASSUME NEW i \in 1..4 PROVE mem'[f * PAGE + (b + i - 1)] = word[i]
  <2>1. b + i - 1 \in 0..(PAGE - 1)
      BY <1>2, <1>3, <1>4
  <2>2. f * PAGE + (b + i - 1) \in Addresses
      BY <2>1, <1>5, FrameBytes
  <2>3. f * PAGE \in Int
      BY <1>3, <1>5, FrameAssumption DEF Frames
  <2>4. \A j \in 1..4 : Target(host, j) = f * PAGE + (b + i - 1) <=> j = i
    <3> TAKE j \in 1..4
    <3>1. Target(host, j) = f * PAGE + (b + j - 1)
        BY <1>6
    <3> QED BY <3>1, <2>3, <1>4
  <2>5. Copied(host, word)[f * PAGE + (b + i - 1)] = word[i]
    <3>1. /\ i \in 1..Len(word)
          /\ \A j \in 1..Len(word) : Target(host, j) = f * PAGE + (b + i - 1) <=> j = i
        BY <2>4, Zenon
    <3> DEFINE c == f * PAGE + (b + i - 1)
    <3>2. c \in Addresses /\ OnlySource(host, Len(word), c, i) /\ i \in 1..Len(word)
        BY <3>1, <2>2 DEF OnlySource
    <3> HIDE DEF c
    <3>3. Copied(host, word)[c] = word[i]
        BY ONLY <3>2, <1>3, CopiedAt, word \in Seq(0..255), Zenon
    <3> QED BY <3>3 DEF c
  <2> QED BY <2>5 DEF host
<1>8. ASSUME NEW i \in 1..4 PROVE GuestByte(u, 4 * x + i - 1)' = word[i]
  <2>1. PICK k \in Nat : k = i - 1 /\ b + k < PAGE
      BY <1>2, <1>3, <1>4
  <2>2. (a + k) \div PAGE = q /\ (a + k) % PAGE = b + k
      BY <2>1, <1>2, SamePage DEF b
  <2>3. a + k = 4 * x + i - 1 /\ b + k = b + i - 1
      BY <2>1, <1>2, <1>4
  <2>4. GuestByte(u, a + k)' = mem'[f * PAGE + (b + k)]
      BY <2>2 DEF GuestByte, DAT_BX, f
  <2> HIDE DEF a
  <2> QED BY <2>3, <2>4, <1>7
<1>9. [i \in 1..4 |-> GuestByte(u, 4 * x + i - 1)]' = [i \in 1..4 |-> word[i]]
    BY <1>8
<1> QED BY <1>1, <1>9, Zenon

\* The host address of a word that DISPLAY STORAGE shows, if the last line does
\* not cross a page: that of the guest's address.
LEMMA WordShown ==
    ASSUME StorageInv, BootInv, NEW u \in Users, u \in alive, cr1 = as[u],
           NEW x \in Nat, NEW n \in Nat \ {0}, NEW k \in 1..n,
           (4 * x + 4 * (LINE * ((n - 1) \div LINE))) \div PAGE = (4 * x + 4 * (n - 1)) \div PAGE
    PROVE  HostAddr(4 * x, n, k) = Translate(as[u], 4 * x + 4 * (k - 1))
<1> DEFINE At(j) == 4 * x + 4 * (j - 1)
           Host(j) == Translate(as[u], At(j))
           W == Walks(4 * x, n, k)
           last == CHOOSE j \in W : \A i \in W : i <= j
<1>1. W = {1} \cup {j \in 2..k : Rewalks(At(j), j, n)}
    BY DEF Walks
<1>2. W \subseteq 1..k /\ 1 \in W
    BY <1>1
<1>3. last \in W /\ \A i \in W : i <= last
  <2> HIDE DEF W
  <2>1. \E j \in W : \A i \in W : i <= j
    <3>1. k \in Nat /\ W # {}
        BY <1>2
    <3> QED BY <3>1, <1>2, GreatestOf
  <2> QED BY <2>1
<1>4. HostAddr(4 * x, n, k) =
        IF \E j \in W : Host(j) = FAULT THEN FAULT ELSE Host(last) + 4 * (k - last)
    BY DEF HostAddr, virt2phy_current
<1> HIDE DEF W, last
<1>5. last \in 1..k /\ last \in Nat \ {0} /\ k \in Nat /\ last <= k
    BY <1>2, <1>3
<1>6. \A j \in 1..k : At(j) \in Nat /\ At(j) <= At(k)
    OBVIOUS
<1>7. At(last) \div PAGE = At(k) \div PAGE
  <2>1. ASSUME NEW i \in (last + 1)..k, At(i) % PAGE = 0 PROVE FALSE
    <3>1. i \in 2..k /\ i \notin W
        BY <1>3, <1>5
    <3>2. ~Rewalks(At(i), i, n)
        BY <3>1, <1>1
    <3>3. (i - 2) \div LINE = (n - 1) \div LINE
        BY <2>1, <3>2 DEF Rewalks, DAT_BX
    <3> DEFINE first == LINE * ((n - 1) \div LINE)
               start == 4 * x + 4 * first
    <3>4. first \in Nat /\ first <= i - 2 /\ first <= n - 1
      <4>1. \A m \in Nat : m \div 4 \in Nat /\ 4 * (m \div 4) <= m
          OBVIOUS
      <4>2. i - 2 \in Nat /\ n - 1 \in Nat /\ LINE = 4
          BY <3>1 DEF LINE
      <4> QED BY <4>1, <4>2, <3>3
    <3>5. start \div PAGE = At(n) \div PAGE
        OBVIOUS
    <3> HIDE DEF first
    <3>6. start \in Nat /\ start < At(i) /\ At(i) <= At(n) /\ At(i) \in Nat /\ At(n) \in Nat
        BY <3>1, <3>4
    <3> HIDE DEF At, start
    <3>7. PICK p \in Nat, r \in 0..(PAGE - 1) : p = start \div PAGE /\ start = p * PAGE + r
        BY <3>6, Indices
    <3>8. PICK q \in Nat : q = At(i) \div PAGE /\ At(i) = q * PAGE
      <4>1. /\ At(i) \div PAGE \in Nat /\ At(i) = (At(i) \div PAGE) * PAGE + (At(i) % PAGE)
          BY <3>6, Indices
      <4>2. (At(i) \div PAGE) * PAGE \in Nat
          BY <4>1, PageAssumption
      <4> QED BY <4>1, <4>2, <2>1
    <3>9. PICK s \in 0..(PAGE - 1) : At(n) = p * PAGE + s
        BY <3>5, <3>6, <3>7, Indices
    <3>10. PAGE \in Nat \ {0} /\ p * PAGE \in Nat /\ q * PAGE \in Nat
        BY PageAssumption
    <3>11. p * PAGE < q * PAGE /\ q * PAGE < p * PAGE + PAGE
        BY <3>6, <3>7, <3>8, <3>9, <3>10
    <3>12. p < q
      <4>1. q <= p => q * PAGE <= p * PAGE
          BY <3>10
      <4> QED BY <4>1, <3>10, <3>11
    <3>13. (p + 1) * PAGE <= q * PAGE /\ (p + 1) * PAGE = p * PAGE + PAGE
        BY <3>10, <3>12
    <3> QED BY <3>10, <3>11, <3>13
  <2> QED BY <2>1, <1>5, NoBoundary
<1>8. as[u] # 0 /\ Len(guest_pages[u]) = Directory[u].storage
    BY AliveUser
<1> DEFINE OK(a) == a >= 0 /\ a \div PAGE < Len(guest_pages[u]) /\ a < LIMIT
           In(a) == guest_pages[u][a \div PAGE + 1] * PAGE + (a % PAGE)
<1>9. \A a \in Int : Translate(as[u], a) = IF OK(a) THEN In(a) ELSE FAULT
    BY <1>8, TranslateOwn
<1>10. \A a \in Nat : OK(a) => In(a) # FAULT
  <2> SUFFICES ASSUME NEW a \in Nat, OK(a) PROVE In(a) # FAULT
      OBVIOUS
  <2>1. guest_pages[u][a \div PAGE + 1] \in Frames
      BY GuestBytes
  <2>2. a % PAGE \in 0..(PAGE - 1)
      BY Indices
  <2>3. In(a) \in Addresses
      BY <2>1, <2>2, FrameBytes
  <2>4. \A z \in Addresses : z # FAULT
      BY FrameAssumption, PageAssumption DEF Addresses, FAULT
  <2> QED BY <2>3, <2>4
<1>11. \A j \in 1..k : OK(At(k)) => OK(At(j))
  <2> SUFFICES ASSUME NEW j \in 1..k, OK(At(k)) PROVE OK(At(j))
      OBVIOUS
  <2>1. At(j) \in Nat /\ At(k) \in Nat /\ At(j) <= At(k)
      BY <1>6
  <2> HIDE DEF At
  <2>2. InStorage(u, At(k))
      BY <2>1, GuestBytes
  <2>3. PICK p \in Nat : p = PAGE * Len(guest_pages[u])
    <3>1. PAGE \in Nat /\ Len(guest_pages[u]) \in Nat
        BY PageAssumption, OwnFrames
    <3> QED BY <3>1
  <2>4. InStorage(u, At(j))
      BY <2>1, <2>2, <2>3 DEF InStorage
  <2>5. LIMIT \in Int
      BY PageAssumption, TableAssumption DEF LIMIT
  <2> QED BY <2>1, <2>4, <2>5, GuestBytes
<1>12. CASE OK(At(k))
  <2>1. \A j \in W : Host(j) # FAULT
    <3> TAKE j \in W
    <3>1. j \in 1..k
        BY <1>2
    <3>2. At(j) \in Nat /\ At(j) \in Int /\ OK(At(j))
        BY <3>1, <1>6, <1>11, <1>12
    <3> HIDE DEF At, OK, In
    <3> QED BY <3>2, <1>9, <1>10
  <2>2. HostAddr(4 * x, n, k) = Host(last) + 4 * (k - last)
      BY <2>1, <1>4
  <2>3. At(last) \in Nat /\ At(k) \in Nat /\ At(last) \in Int /\ At(k) \in Int /\ OK(At(last))
      BY <1>5, <1>6, <1>11, <1>12
  <2>4. Host(last) = In(At(last)) /\ Host(k) = In(At(k))
    <3> HIDE DEF At, OK, In
    <3> QED BY <2>3, <1>9, <1>12
  <2>5. PICK d \in Nat : d = 4 * (k - last) /\ At(k) = At(last) + d
      BY <1>5
  <2> HIDE DEF At
  <2>6. At(k) % PAGE = (At(last) % PAGE) + d
    <3>1. PICK p \in Nat, r \in 0..(PAGE - 1) :
             p = At(last) \div PAGE /\ r = At(last) % PAGE /\ At(last) = p * PAGE + r
        BY <2>3, Indices
    <3>2. PICK s \in 0..(PAGE - 1) : s = At(k) % PAGE /\ At(k) = p * PAGE + s
      <4>1. /\ At(k) = (At(k) \div PAGE) * PAGE + (At(k) % PAGE)
            /\ At(k) % PAGE \in 0..(PAGE - 1)
          BY <2>3, Indices
      <4>2. At(k) \div PAGE = p
          BY <3>1, <1>7
      <4> QED BY ONLY <4>1, <4>2, Zenon
    <3>3. PICK z \in Nat : z = p * PAGE
        BY PageAssumption
    <3>4. At(last) = z + r /\ At(k) = z + s
        BY ONLY <3>1, <3>2, <3>3, Zenon
    <3>6. r \in Int /\ s \in Int
        BY <3>1, <3>2, PageAssumption
    <3>5. s = r + d
        BY ONLY <3>4, <3>6, <2>5, z \in Nat, d \in Nat
    <3> QED BY ONLY <3>1, <3>2, <3>5, Zenon
  <2>7. /\ In(At(k)) = guest_pages[u][At(last) \div PAGE + 1] * PAGE + ((At(last) % PAGE) + d)
        /\ guest_pages[u][At(last) \div PAGE + 1] \in Frames /\ At(last) % PAGE \in Int
    <3>1. guest_pages[u][At(last) \div PAGE + 1] \in Frames
        BY <2>3, GuestBytes
    <3>2. At(last) % PAGE \in Int
        BY <2>3, Indices
    <3> QED BY <3>1, <3>2, <2>6, <1>7
  <2>8. guest_pages[u][At(last) \div PAGE + 1] * PAGE \in Int
      BY <2>7, PageAssumption, FrameAssumption DEF Frames
  <2>9. In(At(k)) = In(At(last)) + d
      BY <2>7, <2>8
  <2>10. HostAddr(4 * x, n, k) = Host(last) + d
      BY ONLY <2>2, <2>5, Zenon
  <2>11. Host(k) = Translate(as[u], 4 * x + 4 * (k - 1))
      BY DEF At
  <2> HIDE DEF Host, In
  <2> QED BY <2>4, <2>9, <2>10, <2>11, Zenon
<1>13. CASE ~OK(At(k))
  <2>1. At(k) \in Int
      BY <1>6
  <2>2. Host(k) = FAULT
    <3> HIDE DEF At, OK, In
    <3> QED BY <2>1, <1>9, <1>13
  <2>3. At(last) \in Nat /\ At(last) \in Int /\ At(k) \in Nat
      BY <1>5, <1>6
  <2>4. ~OK(At(last))
    <3> HIDE DEF At
    <3>1. At(last) \div PAGE = At(k) \div PAGE
        BY <1>7
    <3>2. At(last) < LIMIT <=> At(k) < LIMIT
        BY <3>1, <2>3, Indices
    <3> QED BY <3>1, <3>2, <2>3, <1>13
  <2>5. Host(last) = FAULT
    <3> HIDE DEF At, OK, In
    <3> QED BY <2>3, <2>4, <1>9
  <2> QED BY <2>2, <2>5, <1>3, <1>4
<1> QED BY <1>12, <1>13

-----------------------------------------------------------------------------
\* What the last command stored or showed: StorageIsOwn as a function of what it
\* looks at, shown, the bytes and the pages of the user.
WordIn(m, pages, a) ==
    [i \in 1..4 |-> m[pages[(a + i - 1) \div PAGE + 1] * PAGE + ((a + i - 1) % PAGE)]]

StoreOwn(s, m, pages) == s.op = "store" => WordIn(m, pages, s.addr) = s.out

DisplayOwn(s, m, pages) ==
    LET At(k) == s.addr + 4 * (k - 1)
    IN  s.op = "display"
        /\ At(LINE * ((s.len - 1) \div LINE) + 1) \div PAGE = At(s.len) \div PAGE =>
          \A k \in 1..s.len :
             IF (At(k) >= 0 /\ At(k) < PAGE * Len(pages)) /\ At(k) < LIMIT
             THEN k \in DOMAIN s.out /\ s.out[k] = WordIn(m, pages, At(k))
             ELSE k \notin DOMAIN s.out

Own(s, m, pages) == StoreOwn(s, m, pages) /\ DisplayOwn(s, m, pages)

\* The user of it has its storage, which no longer changes.
ShownInv ==
    /\ shown.op \in {"none", "psw"} \/ shown.user \in alive \cap Users
    /\ Own(shown, mem, guest_pages[shown.user])

LEMMA OwnIsOwn == ShownInv => StorageIsOwn
<1> SUFFICES ASSUME ShownInv PROVE StorageIsOwn
    OBVIOUS
<1>1. StoreOwn(shown, mem, guest_pages[shown.user])
      /\ DisplayOwn(shown, mem, guest_pages[shown.user])
    BY DEF ShownInv, Own
<1> QED BY <1>1, Zenon DEF StoreOwn, DisplayOwn, WordIn, StorageIsOwn, GuestByte, InStorage, DAT_BX

LEMMA NotShown ==
    ASSUME shown'.op \in {"none", "psw"}
    PROVE  ShownInv'
<1>1. shown'.op # "store" /\ shown'.op # "display"
    OBVIOUS
<1>2. \A m, pages : Own(shown', m, pages)
    BY <1>1 DEF Own, StoreOwn, DisplayOwn
<1>3. Own(shown, mem, guest_pages[shown.user])'
    BY <1>2
<1> QED BY <1>3 DEF ShownInv

LEMMA StillShown ==
    ASSUME ShownInv, shown' = shown, mem' = mem, alive \subseteq alive',
           \A u \in alive \cap Users : guest_pages'[u] = guest_pages[u]
    PROVE  ShownInv'
<1>1. CASE shown.op \in {"none", "psw"}
    BY <1>1, NotShown
<1>2. CASE shown.user \in alive \cap Users
  <2>1. guest_pages'[shown.user] = guest_pages[shown.user]
      BY <1>2
  <2>2. Own(shown, mem, guest_pages[shown.user])
      BY DEF ShownInv
  <2>3. Own(shown, mem, guest_pages[shown.user])'
      BY <2>1, <2>2
  <2> QED BY <1>2, <2>3 DEF ShownInv
<1> QED BY <1>1, <1>2 DEF ShownInv

LEMMA StoreShown ==
    ASSUME IndInv, NEW u \in started, cur = u, NEW o \in StoreOps,
           virt2phy_current(RoundDown(o.addr)) # FAULT,
           mem' = Copied(virt2phy_current(RoundDown(o.addr)), o.word),
           shown' = [Nothing EXCEPT !.op = "store", !.user = u,
                                    !.addr = RoundDown(o.addr), !.out = o.word],
           guest_pages' = guest_pages, alive' = alive
    PROVE  ShownInv'
<1>1. StorageInv /\ BootInv /\ ControlType /\ CrInv
    BY DEF IndInv
<1>2. u \in alive /\ u \in Users /\ cr1 = as[u]
    BY <1>1 DEF ControlType, CrInv, CrOf
<1>3. o.addr \in Nat /\ o.word \in Seq(0..255) /\ Len(o.word) = 4
    BY WordType
<1>4. PICK x \in Nat : RoundDown(o.addr) = 4 * x
    BY <1>3, Rounded
<1>5. /\ Translate(as[u], 4 * x) # FAULT
      /\ mem' = Copied(Translate(as[u], 4 * x), o.word)
    BY <1>2, <1>4, Zenon DEF virt2phy_current
<1>6. PICK word \in Seq(0..255) : word = o.word
    BY <1>3
<1>7. [i \in 1..4 |-> GuestByte(u, 4 * x + i - 1)]' = word
    BY ONLY <1>1, <1>2, <1>3, <1>5, <1>6, x \in Nat, guest_pages' = guest_pages, WordStored
<1>8. WordIn(mem', guest_pages'[u], 4 * x) = word
    BY <1>7, Zenon DEF GuestByte, DAT_BX, WordIn
<1>9. shown'.op = "store" /\ shown'.user = u /\ shown'.addr = 4 * x /\ shown'.out = word
    BY <1>4, <1>6 DEF Nothing
<1>10. Own(shown', mem', guest_pages'[u])
  <2>1. StoreOwn(shown', mem', guest_pages'[u])
      BY <1>8, <1>9, Zenon DEF StoreOwn
  <2>2. DisplayOwn(shown', mem', guest_pages'[u])
      BY <1>9 DEF DisplayOwn
  <2> QED BY <2>1, <2>2 DEF Own
<1>11. Own(shown, mem, guest_pages[shown.user])'
    BY <1>9, <1>10, Zenon
<1> QED BY <1>2, <1>9, <1>11 DEF ShownInv

\* The bytes of a word are next to each other in the frame.
LEMMA WordFound ==
    ASSUME StorageInv, NEW u \in Users, NEW x \in Nat, InStorage(u, 4 * x)
    PROVE  [i \in 1..4 |-> mem[guest_pages[u][(4 * x) \div PAGE + 1] * PAGE
                               + ((4 * x) % PAGE) + i - 1]]
             = WordIn(mem, guest_pages[u], 4 * x)
<1> DEFINE a == 4 * x
           f == guest_pages[u][a \div PAGE + 1]
           b == a % PAGE
<1>1. a \in Nat /\ b + 3 < PAGE
    BY WordInPage
<1> HIDE DEF a
<1>2. f \in Frames /\ b \in 0..(PAGE - 1) /\ PAGE \in Nat
  <2>1. InStorage(u, a)
      BY DEF a
  <2> QED BY <1>1, <2>1, GuestBytes, Indices, PageAssumption
<1>3. f * PAGE \in Int /\ b \in Int
    BY <1>2, FrameAssumption DEF Frames
<1>4. ASSUME NEW i \in 1..4
      PROVE  guest_pages[u][(a + i - 1) \div PAGE + 1] * PAGE + ((a + i - 1) % PAGE)
               = f * PAGE + b + i - 1
  <2>1. PICK k \in Nat : k = i - 1 /\ b + k < PAGE
      BY <1>1, <1>2
  <2>2. (a + k) \div PAGE = a \div PAGE /\ (a + k) % PAGE = b + k
      BY <1>1, <2>1, SamePage
  <2>3. a + k = a + i - 1
      BY <1>1, <2>1
  <2>4. guest_pages[u][(a + i - 1) \div PAGE + 1] * PAGE + ((a + i - 1) % PAGE)
          = f * PAGE + (b + k)
      BY <2>2, <2>3, Zenon
  <2> HIDE DEF f, b
  <2> QED BY <2>1, <2>4, <1>3
<1>5. [i \in 1..4 |-> mem[f * PAGE + b + i - 1]] = WordIn(mem, guest_pages[u], a)
    BY <1>4, Zenon DEF WordIn
<1> QED BY <1>5 DEF a

\* What DISPLAY STORAGE shows of a word.
LEMMA WordDisplayed ==
    ASSUME StorageInv, BootInv, NEW u \in Users, u \in alive, cr1 = as[u],
           NEW x \in Nat, NEW n \in Nat \ {0}, NEW k \in 1..n,
           (4 * x + 4 * (LINE * ((n - 1) \div LINE))) \div PAGE = (4 * x + 4 * (n - 1)) \div PAGE
    PROVE  LET a == 4 * x + 4 * (k - 1)
           IN  IF InStorage(u, a) /\ a < LIMIT
               THEN /\ HostAddr(4 * x, n, k) # FAULT
                    /\ [i \in 1..4 |-> mem[HostAddr(4 * x, n, k) + i - 1]]
                         = WordIn(mem, guest_pages[u], a)
               ELSE HostAddr(4 * x, n, k) = FAULT
<1> DEFINE a == 4 * x + 4 * (k - 1)
           host == HostAddr(4 * x, n, k)
<1>1. host = Translate(as[u], a)
    BY WordShown
<1>2. PICK y \in Nat : a = 4 * y
  <2>1. x + (k - 1) \in Nat /\ a = 4 * (x + (k - 1))
      OBVIOUS
  <2> QED BY <2>1
<1> HIDE DEF a, host
<1>3. a \in Nat /\ a \in Int
    BY <1>2
<1>4. as[u] # 0 /\ Len(guest_pages[u]) = Directory[u].storage
    BY AliveUser
<1>5. host = IF a >= 0 /\ a \div PAGE < Len(guest_pages[u]) /\ a < LIMIT
             THEN guest_pages[u][a \div PAGE + 1] * PAGE + (a % PAGE)
             ELSE FAULT
    BY <1>1, <1>3, <1>4, TranslateOwn, Zenon
<1>6. InStorage(u, a) <=> a \div PAGE < Len(guest_pages[u])
    BY <1>3, GuestBytes
<1>7. CASE InStorage(u, a) /\ a < LIMIT
  <2>1. host = guest_pages[u][a \div PAGE + 1] * PAGE + (a % PAGE)
      BY <1>3, <1>5, <1>6, <1>7
  <2>2. guest_pages[u][a \div PAGE + 1] \in Frames /\ a % PAGE \in 0..(PAGE - 1)
      BY <1>3, <1>7, GuestBytes, Indices
  <2>3. host # FAULT
    <3>1. host \in Addresses
        BY <2>1, <2>2, FrameBytes
    <3> QED BY <3>1, FrameAssumption, PageAssumption DEF Addresses, FAULT
  <2>4. [i \in 1..4 |-> mem[host + i - 1]] = WordIn(mem, guest_pages[u], a)
    <3>1. [i \in 1..4 |-> mem[guest_pages[u][(4 * y) \div PAGE + 1] * PAGE
                               + ((4 * y) % PAGE) + i - 1]]
             = WordIn(mem, guest_pages[u], 4 * y)
        BY <1>2, <1>7, WordFound
    <3> QED BY <3>1, <2>1, <1>2, Zenon
  <2> QED BY <2>3, <2>4, <1>7, Zenon DEF a, host
<1>8. CASE ~(InStorage(u, a) /\ a < LIMIT)
  <2>1. host = FAULT
      BY <1>5, <1>6, <1>8
  <2> QED BY <2>1, <1>8, Zenon DEF a, host
<1> QED BY <1>7, <1>8

LEMMA DisplayShown ==
    ASSUME IndInv, NEW u \in Users, Display(u)
    PROVE  ShownInv'
<1>1. StorageInv /\ BootInv /\ ControlType /\ CrInv
    BY DEF IndInv
<1>2. u \in alive /\ cr1 = as[u] /\ mem' = mem /\ guest_pages' = guest_pages /\ alive' = alive
    BY <1>1 DEF Display, Free, ControlType, CrInv, CrOf, control, cmd_display_storage
<1>3. PICK o \in DisplayOps : display_storage_numeric(u, RoundDown(o.addr), Words(o.len))
    BY DEF Display, cmd_display_storage
<1>4. o.addr \in Nat /\ o.len \in Nat
    BY OpAssumption
<1>5. PICK x \in Nat : RoundDown(o.addr) = 4 * x
    BY <1>4, Rounded
<1>6. PICK n \in Nat \ {0} : n = Words(o.len)
    BY <1>4 DEF Words
<1> DEFINE Seen == {j \in 1..n : HostAddr(4 * x, n, j) # FAULT}
           out == [k \in Seen |-> [i \in 1..4 |-> mem[HostAddr(4 * x, n, k) + i - 1]]]
<1>7. shown' = [Nothing EXCEPT !.op = "display", !.user = u, !.addr = 4 * x, !.len = n,
                               !.out = out]
    BY <1>3, <1>5, <1>6, Zenon DEF display_storage_numeric
<1> HIDE DEF out
<1>8. /\ shown'.op = "display" /\ shown'.user = u /\ shown'.addr = 4 * x
      /\ shown'.len = n /\ shown'.out = out
    BY <1>7 DEF Nothing
<1> DEFINE At(k) == 4 * x + 4 * (k - 1)
           line == LINE * ((n - 1) \div LINE)
<1>9. ASSUME At(line + 1) \div PAGE = At(n) \div PAGE, NEW k \in 1..n
      PROVE  IF InStorage(u, At(k)) /\ At(k) < LIMIT
             THEN k \in DOMAIN out /\ out[k] = WordIn(mem, guest_pages[u], At(k))
             ELSE k \notin DOMAIN out
  <2>1. (4 * x + 4 * line) \div PAGE = (4 * x + 4 * (n - 1)) \div PAGE
    <3>1. line \in Int
      <4>1. \A m \in Nat : m \div 4 \in Nat
          OBVIOUS
      <4>2. n - 1 \in Nat
          OBVIOUS
      <4> QED BY <4>1, <4>2 DEF LINE
    <3> HIDE DEF line
    <3>2. (line + 1) - 1 = line
        BY <3>1
    <3> QED BY <3>2, <1>9, Zenon
  <2>2. IF InStorage(u, At(k)) /\ At(k) < LIMIT
        THEN /\ HostAddr(4 * x, n, k) # FAULT
             /\ [i \in 1..4 |-> mem[HostAddr(4 * x, n, k) + i - 1]]
                  = WordIn(mem, guest_pages[u], At(k))
        ELSE HostAddr(4 * x, n, k) = FAULT
      BY ONLY <1>1, <1>2, <2>1, u \in Users, x \in Nat, n \in Nat \ {0}, k \in 1..n,
              WordDisplayed
  <2>3. DOMAIN out = Seen
      BY DEF out
  <2>4. k \in Seen <=> HostAddr(4 * x, n, k) # FAULT
      OBVIOUS
  <2>5. k \in Seen => out[k] = [i \in 1..4 |-> mem[HostAddr(4 * x, n, k) + i - 1]]
      BY Zenon DEF out
  <2> HIDE DEF Seen, At
  <2> QED BY <2>2, <2>3, <2>4, <2>5, Zenon
<1>10. DisplayOwn(shown', mem', guest_pages'[u])
  <2> HIDE DEF line
  <2>1. shown'.addr + 4 * (shown'.len - 1) = At(n)
        /\ shown'.addr + 4 * ((LINE * ((shown'.len - 1) \div LINE) + 1) - 1) = At(line + 1)
      BY <1>8, Zenon DEF line
  <2>2. \A k : shown'.addr + 4 * (k - 1) = At(k)
      BY <1>8, Zenon
  <2> HIDE DEF At
  <2> QED BY <2>1, <2>2, <1>2, <1>8, <1>9, Zenon DEF DisplayOwn, InStorage
<1>11. Own(shown', mem', guest_pages'[u])
    BY <1>8, <1>10 DEF Own, StoreOwn
<1>12. Own(shown, mem, guest_pages[shown.user])'
    BY <1>8, <1>11, Zenon
<1> QED BY <1>2, <1>8, <1>12 DEF ShownInv

\* A step of guest_create changes the pages of a user that is not alive.
LEMMA PageOfOther ==
    ASSUME IndInv, CreatePage
    PROVE  \A u \in alive \cap Users : guest_pages'[u] = guest_pages[u]
<1>1. StorageInv /\ BootInv
    BY DEF IndInv
<1>2. boot.step = "devices" /\ alloc_guest_storage(boot.user)
    BY DEF CreatePage, Booting, User
<1>3. boot.user \notin alive
    BY <1>1, <1>2 DEF BootInv
<1>4. guest_pages' = [guest_pages EXCEPT ![boot.user] = <<alloc_pages(free)>> \o @]
    BY <1>2 DEF alloc_guest_storage
<1> QED BY <1>1, <1>3, <1>4 DEF StorageInv, StorageType

LEMMA NextShown == IndInv /\ ShownInv /\ [Next]_vars => ShownInv'
<1> SUFFICES ASSUME IndInv, ShownInv, [Next]_vars PROVE ShownInv'
    OBVIOUS
<1>0. ASSUME shown' = Nothing PROVE ShownInv'
    BY <1>0, NotShown DEF Nothing
<1>1. CASE UNCHANGED vars
    BY <1>1, StillShown DEF vars, storage, control
<1>2. ASSUME NEW t \in Tasks, Switch(t) \/ IplCopy(t) \/ IplEnd(t) PROVE ShownInv'
    BY <1>2, <1>0 DEF Switch, IplCopy, IplEnd
<1>3. CASE Create \/ CreateDevice \/ CreateTask \/ Dies
  <2>1. shown' = shown /\ mem' = mem /\ alive \subseteq alive' /\ guest_pages' = guest_pages
      BY <1>3 DEF Create, CreateDevice, CreateTask, Dies, GetPage, storage
  <2> QED BY <2>1, StillShown
<1>4. CASE CreatePage
  <2>1. shown' = shown /\ mem' = mem /\ alive' = alive
      BY <1>4 DEF CreatePage, alloc_guest_storage, control
  <2> QED BY <2>1, <1>4, PageOfOther, StillShown
<1>5. CASE Attach
  <2>1. /\ shown' = shown /\ mem' = mem /\ guest_pages' = guest_pages
        /\ alive' = IF boot.k = Len(Logons) THEN alive \ {Boot} ELSE alive
      BY <1>5 DEF Attach, storage
  <2>2. shown.op \in {"none", "psw"} \/ shown'.user \in alive' \cap Users
      BY <2>1, UserAssumption DEF ShownInv
  <2>3. Own(shown, mem, guest_pages[shown.user])
      BY DEF ShownInv
  <2>4. Own(shown, mem, guest_pages[shown.user])'
      BY <2>1, <2>3
  <2> QED BY <2>1, <2>2, <2>4 DEF ShownInv
<1>6. CASE Load \/ Begin
    BY <1>6, <1>0 DEF Load, IplStart, ClearReset, SetState, Begin, guest_begin
<1>7. ASSUME NEW u \in Users, ShellStart(u) PROVE ShownInv'
  <2>1. shown' = shown /\ mem' = mem /\ alive' = alive /\ guest_pages' = guest_pages
      BY <1>7 DEF ShellStart
  <2> QED BY <2>1, StillShown
<1>8. ASSUME NEW u \in Users, Command(u) PROVE ShownInv'
  <2>1. u \in started /\ cur = u /\ guest_pages' = guest_pages /\ alive' = alive
      BY <1>8 DEF Command, Free
  <2>2. ASSUME NEW o \in StoreOps, virt2phy_current(RoundDown(o.addr)) # FAULT,
               mem' = Copied(virt2phy_current(RoundDown(o.addr)), o.word),
               shown' = [Nothing EXCEPT !.op = "store", !.user = u,
                                        !.addr = RoundDown(o.addr), !.out = o.word]
        PROVE  ShownInv'
      BY <2>1, <2>2, StoreShown
  <2>3. CASE Alters(u)
    <3>1. CASE \E o \in StoreOps : cmd_store_storage(u, o.addr, o.word)
        BY <3>1, <2>2 DEF cmd_store_storage
    <3>2. CASE \E o \in StoreOps : GuestRuns(u, RoundDown(o.addr), o.word)
        BY <3>2, <2>2 DEF GuestRuns
    <3>3. CASE system_clear(u)
        BY <3>3, <1>0 DEF system_clear, ClearReset
    <3> QED BY <3>1, <3>2, <3>3, <2>3 DEF Alters
  <2>4. CASE Sets(u)
    <3>1. CASE \E w \in PswOps : cmd_store_psw(u, w)
      <4>1. shown'.op = "psw"
          BY <3>1 DEF cmd_store_psw, Nothing
      <4> QED BY <4>1, NotShown
    <3>2. (\E w \in PswOps : cmd_store_psw(u, w)) \/ shown' = Nothing
        BY <2>4, Zenon DEF Sets, cmd_store_gpr, cmd_store_fpr, cmd_store_ar, cmd_store_cr,
               StoreRegister, cmd_store_fpcr, system_reset, cmd_stop, SetState, guest_begin
    <3> QED BY <3>1, <3>2, <1>0
  <2> QED BY <2>3, <2>4, <1>8 DEF Command
<1>9. ASSUME NEW u \in Users, Display(u) PROVE ShownInv'
    BY <1>9, DisplayShown
<1>10. ASSUME NEW u \in Users, Channel(u) \/ \E p : Ssch(u, p) PROVE ShownInv'
    BY <1>10, <1>0 DEF Channel, Ssch
<1>11. ASSUME NEW u \in Users, NEW nss, cmd_ipl(u, nss) PROVE ShownInv'
    BY <1>11, <1>0 DEF cmd_ipl, IplStart, ClearReset, SetState
<1> QED BY <1>1, <1>2, <1>3, <1>4, <1>5, <1>6, <1>7, <1>8, <1>9, <1>10, <1>11 DEF Next

\* STORE and the guest's own stores reach the word of the guest that is meant,
\* and DISPLAY STORAGE shows the guest's words, each of them, up to the end of its
\* storage, for every length and however the frames lie in the host, but for a
\* last line that crosses a page (cmd_store_storage, display_storage_numeric,
\* run_guest).
THEOREM StorageIsReached == Spec => []StorageIsOwn
<1>1. Init => ShownInv
  <2> SUFFICES ASSUME Init PROVE ShownInv
      OBVIOUS
  <2>1. shown.op = "none"
      BY DEF Init, CommandsInit, Nothing
  <2>2. Own(shown, mem, guest_pages[shown.user])
      BY <2>1 DEF Own, StoreOwn, DisplayOwn
  <2> QED BY <2>1, <2>2 DEF ShownInv
<1> QED BY <1>1, NextShown, OwnIsOwn, Invariance, PTL DEF Spec

-----------------------------------------------------------------------------
\* Saved systems.

SegsOf(nss) == Images[nss].segs

\* Byte i of segment j of the system is at address a.
Holder(nss, j, i, a) ==
    /\ j \in 1..Len(SegsOf(nss)) /\ i \in 1..Len(SegsOf(nss)[j].data)
    /\ SegsOf(nss)[j].gaddr + i - 1 = a

\* An address that is copied when guest_ipl_nss has copied the segments before k,
\* and off bytes of segment k.
Before(nss, k, off, a) ==
    \E j, i \in Nat : Holder(nss, j, i, a) /\ (j < k \/ (j = k /\ i <= off))

\* What is at address a then.
Partial(nss, k, off, a) == IF Before(nss, k, off, a) THEN Contents[nss][a] ELSE 0

LEMMA SegmentFacts ==
    ASSUME NEW nss \in DOMAIN Images, NEW j \in 1..Len(SegsOf(nss))
    PROVE  /\ SegsOf(nss)[j] \in Segment
           /\ SegsOf(nss)[j].gaddr \in Nat /\ SegsOf(nss)[j].data \in Seq(0..255)
           /\ SegsOf(nss)[j].memlen \in Nat \ {0}
           /\ Len(SegsOf(nss)[j].data) \in Nat /\ DOMAIN SegsOf(nss)[j].data = 1..Len(SegsOf(nss)[j].data)
           /\ Len(SegsOf(nss)[j].data) <= SegsOf(nss)[j].memlen
           /\ Len(SegsOf(nss)) \in Nat /\ DOMAIN SegsOf(nss) = 1..Len(SegsOf(nss))
<1>1. /\ SegsOf(nss) \in Seq(Segment) /\ Len(SegsOf(nss)) \in Nat /\ SegsOf(nss)[j] \in Segment
      /\ Len(SegsOf(nss)[j].data) <= SegsOf(nss)[j].memlen
    BY SegmentsOf DEF SegsOf
<1>2. DOMAIN SegsOf(nss) = 1..Len(SegsOf(nss))
    BY <1>1, LenProperties
<1> DEFINE s == SegsOf(nss)[j]
<1>3. s \in Segment
    BY <1>1
<1> HIDE DEF s
<1>4. s.gaddr \in Nat /\ s.data \in Seq(0..255) /\ s.memlen \in Nat \ {0}
    BY <1>3 DEF Segment
<1>5. Len(s.data) \in Nat /\ DOMAIN s.data = 1..Len(s.data)
    BY <1>4, LenProperties
<1> QED BY <1>1, <1>2, <1>3, <1>4, <1>5 DEF s

\* Segments do not overlap.
LEMMA OneSegment ==
    ASSUME NEW nss \in DOMAIN Images, NEW j \in 1..Len(SegsOf(nss)),
           NEW k \in 1..Len(SegsOf(nss)), NEW a \in Int,
           SegsOf(nss)[j].gaddr <= a, a < SegsOf(nss)[j].gaddr + SegsOf(nss)[j].memlen,
           SegsOf(nss)[k].gaddr <= a, a < SegsOf(nss)[k].gaddr + SegsOf(nss)[k].memlen
    PROVE  j = k
<1> DEFINE s == SegsOf(nss)[j]
           r == SegsOf(nss)[k]
<1>1. j # k => s.gaddr + s.memlen <= r.gaddr \/ r.gaddr + r.memlen <= s.gaddr
  <2>1. j \in DOMAIN SegsOf(nss) /\ k \in DOMAIN SegsOf(nss)
      BY SegmentFacts
  <2> QED BY <2>1, ImageAssumption DEF SegsOf
<1>2. s.gaddr \in Nat /\ r.gaddr \in Nat /\ s.memlen \in Nat /\ r.memlen \in Nat
    BY SegmentFacts
<1>3. s.gaddr <= a /\ a < s.gaddr + s.memlen /\ r.gaddr <= a /\ a < r.gaddr + r.memlen
    OBVIOUS
<1> HIDE DEF s, r
<1> QED BY <1>1, <1>2, <1>3, SMTT(40)

LEMMA HolderInSegment ==
    ASSUME NEW nss \in DOMAIN Images, NEW j, NEW i, NEW a, Holder(nss, j, i, a)
    PROVE  /\ j \in 1..Len(SegsOf(nss)) /\ j \in Nat \ {0} /\ i \in Nat \ {0} /\ a \in Nat
           /\ SegsOf(nss)[j].gaddr <= a /\ a < SegsOf(nss)[j].gaddr + SegsOf(nss)[j].memlen
           /\ i = a - SegsOf(nss)[j].gaddr + 1 /\ i <= Len(SegsOf(nss)[j].data)
<1> DEFINE s == SegsOf(nss)[j]
<1>1. j \in 1..Len(SegsOf(nss)) /\ i \in 1..Len(s.data) /\ s.gaddr + i - 1 = a
    BY DEF Holder
<1>2. /\ s.gaddr \in Nat /\ s.memlen \in Nat /\ Len(s.data) \in Nat /\ Len(s.data) <= s.memlen
      /\ Len(SegsOf(nss)) \in Nat
    BY <1>1, SegmentFacts
<1> HIDE DEF s
<1>3. /\ s.gaddr <= a /\ a < s.gaddr + s.memlen /\ i = a - s.gaddr + 1 /\ i <= Len(s.data)
      /\ i \in Nat \ {0} /\ a \in Nat
    BY <1>1, <1>2
<1>4. j \in Nat \ {0}
    BY <1>1, <1>2
<1> QED BY <1>1, <1>3, <1>4 DEF s

\* The contents of a system: what its segments hold.
LEMMA ContentsOf ==
    ASSUME NEW nss \in DOMAIN Images, NEW a \in Nat, a < LIMIT
    PROVE  /\ \A j, i : Holder(nss, j, i, a) => Contents[nss][a] = SegsOf(nss)[j].data[i]
           /\ (\A j, i \in Nat : ~Holder(nss, j, i, a)) => Contents[nss][a] = 0
<1> DEFINE At(s) == {i \in DOMAIN s.data : s.gaddr + i - 1 = a}
           Here == {s \in Range(Images[nss].segs) : At(s) # {}}
           pick == CHOOSE s \in Here : TRUE
<1>1. a \in 0..(LIMIT - 1)
  <2>1. LIMIT \in Int
      BY PageAssumption, TableAssumption DEF LIMIT
  <2> QED BY <2>1
<1>2. Contents[nss][a] = IF Here = {} THEN 0 ELSE pick.data[a - pick.gaddr + 1]
    BY <1>1, Zenon DEF Contents
<1>3. ASSUME NEW s \in Here
      PROVE  \E j, i \in Nat : Holder(nss, j, i, a) /\ s = SegsOf(nss)[j]
  <2>1. s \in Range(SegsOf(nss)) /\ At(s) # {}
      BY DEF SegsOf
  <2>2. Len(SegsOf(nss)) \in Nat /\ DOMAIN SegsOf(nss) = 1..Len(SegsOf(nss))
    <3>1. SegsOf(nss) \in Seq(Segment)
        BY SegmentsOf DEF SegsOf
    <3> QED BY <3>1, LenProperties
  <2>3. PICK j \in 1..Len(SegsOf(nss)) : s = SegsOf(nss)[j]
      BY <2>1, <2>2 DEF Range
  <2>4. PICK i \in DOMAIN s.data : s.gaddr + i - 1 = a
      BY <2>1
  <2>5. Len(s.data) \in Nat /\ DOMAIN s.data = 1..Len(s.data) /\ j \in Nat
      BY <2>2, <2>3, SegmentFacts
  <2>6. Holder(nss, j, i, a)
      BY <2>3, <2>4, <2>5 DEF Holder
  <2> QED BY <2>3, <2>4, <2>5, <2>6
<1>4. ASSUME NEW j, NEW i, Holder(nss, j, i, a)
      PROVE  Contents[nss][a] = SegsOf(nss)[j].data[i]
  <2>1. j \in 1..Len(SegsOf(nss)) /\ i \in DOMAIN SegsOf(nss)[j].data
        /\ SegsOf(nss)[j].gaddr + i - 1 = a /\ j \in DOMAIN SegsOf(nss)
      BY <1>4, SegmentFacts DEF Holder
  <2>2. SegsOf(nss)[j] \in Here
    <3>1. SegsOf(nss)[j] \in Range(SegsOf(nss))
        BY <2>1 DEF Range
    <3>2. i \in At(SegsOf(nss)[j])
        BY <2>1
    <3> QED BY <3>1, <3>2 DEF SegsOf
  <2>3. pick \in Here /\ Here # {}
      BY <2>2
  <2>4. PICK k, l \in Nat : Holder(nss, k, l, a) /\ pick = SegsOf(nss)[k]
      BY <2>3, <1>3
  <2> HIDE DEF Here, pick
  <2>5. k = j
      BY <2>4, <1>4, HolderInSegment, OneSegment
  <2>6. i = a - SegsOf(nss)[j].gaddr + 1
      BY <1>4, HolderInSegment
  <2> QED BY <2>3, <2>4, <2>5, <2>6, <1>2
<1>5. ASSUME \A j, i \in Nat : ~Holder(nss, j, i, a) PROVE Contents[nss][a] = 0
    BY <1>2, <1>3, <1>5
<1> QED BY <1>4, <1>5

NoSource(host, n, x) == \A i \in 1..n : Target(host, i) # x

LEMMA CopiedElsewhere ==
    ASSUME NEW host, NEW data \in Seq(0..255), NEW x \in Addresses,
           NoSource(host, Len(data), x)
    PROVE  Copied(host, data)[x] = mem[x]
<1>1. {i \in 1..Len(data) : Target(host, i) = x} = {}
    BY DEF NoSource
<1> QED BY <1>1 DEF Copied

\* A byte of the host after a copy is as before, or one of the data.
LEMMA CopiedFrom ==
    ASSUME NEW host, NEW data \in Seq(0..255), NEW x \in Addresses
    PROVE  \/ Copied(host, data)[x] = mem[x]
           \/ \E i \in 1..Len(data) : Copied(host, data)[x] = data[i]
<1> DEFINE sources == {i \in 1..Len(data) : Target(host, i) = x}
           pick == CHOOSE k \in sources : \A j \in sources : j <= k
<1>1. Copied(host, data)[x] = IF sources = {} THEN mem[x] ELSE data[pick]
    BY DEF Copied
<1>2. CASE sources = {}
    BY <1>1, <1>2
<1>3. CASE sources # {}
  <2>1. sources \subseteq 1..Len(data) /\ Len(data) \in Nat
      BY LenProperties
  <2> HIDE DEF sources
  <2>2. \E i \in sources : \A j \in sources : j <= i
      BY <2>1, <1>3, GreatestOf
  <2>3. pick \in sources
      BY <2>2
  <2> HIDE DEF pick
  <2> QED BY <2>1, <2>3, <1>1, <1>3
<1> QED BY <1>2, <1>3

ByteIn(m, pages, a) == m[pages[a \div PAGE + 1] * PAGE + (a % PAGE)]

LEMMA StoredByte ==
    ASSUME StorageInv, NEW u \in Users, NEW a \in Nat, InStorage(u, a)
    PROVE  /\ a \div PAGE + 1 \in 1..Len(guest_pages[u])
           /\ guest_pages[u][a \div PAGE + 1] \in Frames
           /\ guest_pages[u][a \div PAGE + 1] \in FramesOf(u)
           /\ a % PAGE \in 0..(PAGE - 1)
           /\ guest_pages[u][a \div PAGE + 1] * PAGE + (a % PAGE) \in Addresses
<1>1. a \div PAGE + 1 \in 1..Len(guest_pages[u]) /\ guest_pages[u][a \div PAGE + 1] \in Frames
    BY GuestBytes
<1>2. a % PAGE \in 0..(PAGE - 1)
    BY Indices
<1>3. guest_pages[u][a \div PAGE + 1] \in FramesOf(u)
    BY <1>1, OwnFrames
<1> QED BY <1>1, <1>2, <1>3, FrameBytes

\* Address a of the user when data are copied to address g: data that go beyond
\* the end of the page wrap to where they began.
Rewritten(u, g, data, a) ==
    LET m == Copied(Translate(as[u], g), data)
        old == ByteIn(mem, guest_pages[u], a)
        new == ByteIn(m, guest_pages[u], a)
    IN  /\ ~(g <= a /\ a < g + Len(data)) => new = old
        /\ g <= a /\ a < g + Len(data) /\ Len(data) <= PAGE - (g % PAGE)
             => new = data[a - g + 1]
        /\ new = old \/ \E i \in 1..Len(data) : new = data[i]

\* What memcpy_to_guest does to the storage of the user.
LEMMA CopyToGuest ==
    ASSUME StorageInv, BootInv, NEW u \in Users, u \in alive, NEW g \in Nat,
           Translate(as[u], g) # FAULT, NEW data \in Seq(0..255),
           NEW a \in Nat, InStorage(u, a)
    PROVE  Rewritten(u, g, data, a)
<1> DEFINE f == guest_pages[u][g \div PAGE + 1]
           b == g % PAGE
           h == guest_pages[u][a \div PAGE + 1]
           c == a % PAGE
           x == h * PAGE + c
           host == f * PAGE + b
           m == Copied(host, data)
<1>1. /\ g \div PAGE + 1 \in 1..Len(guest_pages[u]) /\ f \in FramesOf(u)
      /\ b \in 0..(PAGE - 1) /\ Translate(as[u], g) = host
  <2>1. g \in Int
      OBVIOUS
  <2> QED BY <2>1, HostAddress
<1>2. f \in Frames
    BY <1>1, OwnFrames
<1>3. /\ a \div PAGE + 1 \in 1..Len(guest_pages[u]) /\ h \in Frames /\ c \in 0..(PAGE - 1)
      /\ x \in Addresses
    BY StoredByte
<1>4. PAGE \in Nat \ {0} /\ Len(data) \in Nat /\ mem \in [Addresses -> 0..255]
    BY PageAssumption, LenProperties, SMTT(40) DEF StorageInv, StorageType
<1>5. f = h => a \div PAGE = g \div PAGE
  <2>1. f = h => g \div PAGE + 1 = a \div PAGE + 1
      BY <1>1, <1>3, PagesApart
  <2>2. g \div PAGE \in Nat /\ a \div PAGE \in Nat
      BY Indices
  <2> QED BY <2>1, <2>2
<1>6. a \div PAGE = g \div PAGE => a - g = c - b
  <2>1. a = (a \div PAGE) * PAGE + c /\ g = (g \div PAGE) * PAGE + b
      BY Indices
  <2>2. g \div PAGE \in Nat
      BY Indices
  <2>3. PICK p \in Nat : p = (g \div PAGE) * PAGE
    <3>1. \A y, z \in Nat : y * z \in Nat
        OBVIOUS
    <3> QED BY <3>1, <2>2, <1>4
  <2> HIDE DEF b, c
  <2>4. a \div PAGE = g \div PAGE => a = p + c /\ g = p + b
      BY <2>1, <2>3, Zenon
  <2> QED BY <2>4, <1>1, <1>3, <1>4
<1>7. ASSUME NEW i \in 1..Len(data)
      PROVE  \E d \in b..(PAGE - 1) : /\ Target(host, i) = f * PAGE + d /\ d <= b + i - 1
                                      /\ i <= PAGE - b => d = b + i - 1
  <2>1. i \in Nat \ {0}
      BY <1>4
  <2>2. PICK d \in b..(PAGE - 1) :
           Target(host, i) = f * PAGE + d /\ (i <= PAGE - b => d = b + i - 1)
      BY <2>1, <1>1, <1>2, TargetInFrame
  <2>3. d <= b + i - 1
      BY <2>1, <2>2, <1>1, <1>4, SMTT(40)
  <2> QED BY <2>2, <2>3
<1>8. ASSUME NEW i \in 1..Len(data), NEW d \in b..(PAGE - 1), Target(host, i) = f * PAGE + d,
             Target(host, i) = x
      PROVE  f = h /\ d = c
  <2>1. d \in 0..(PAGE - 1)
      BY <1>1, <1>4
  <2>2. (f * PAGE + d) \div PAGE = f /\ (f * PAGE + d) % PAGE = d
      BY <2>1, <1>2, FrameBytes
  <2>3. (h * PAGE + c) \div PAGE = h /\ (h * PAGE + c) % PAGE = c
      BY <1>3, FrameBytes
  <2> HIDE DEF f, h, b, c, host
  <2> QED BY <2>2, <2>3, <1>8
<1> HIDE DEF f, b, h, c, host
<1>9. ASSUME ~(g <= a /\ a < g + Len(data)) PROVE m[x] = mem[x]
  <2>1. ASSUME NEW i \in 1..Len(data), Target(host, i) = x PROVE FALSE
    <3>1. PICK d \in b..(PAGE - 1) : Target(host, i) = f * PAGE + d /\ d <= b + i - 1
        BY <1>7
    <3>2. f = h /\ d = c
        BY <3>1, <2>1, <1>8
    <3>3. a - g = c - b
        BY <3>2, <1>5, <1>6
    <3>4. b <= c /\ c <= b + i - 1 /\ b \in Int /\ c \in Int /\ i \in Int /\ i <= Len(data)
        BY <3>1, <3>2, <1>1, <1>3, <1>4
    <3> QED BY <3>3, <3>4, <1>4, <1>9
  <2>2. NoSource(host, Len(data), x)
      BY <2>1 DEF NoSource
  <2> HIDE DEF x
  <2> QED BY ONLY <2>2, <1>3, CopiedElsewhere, data \in Seq(0..255)
<1>10. ASSUME g <= a, a < g + Len(data), Len(data) <= PAGE - b PROVE m[x] = data[a - g + 1]
  <2>1. PICK i \in 1..Len(data) : i = a - g + 1
      BY <1>4, <1>10
  <2>2. PICK k \in Nat : k = a - g /\ b + k < PAGE /\ a = g + k
      BY <1>1, <1>4, <1>10
  <2>3. a \div PAGE = g \div PAGE
    <3>1. (g + k) \div PAGE = g \div PAGE
        BY <2>2, SamePage DEF b
    <3> QED BY <3>1, <2>2
  <2>4. f = h /\ c = b + i - 1
    <3>1. f = h
        BY <2>3 DEF f, h
    <3>2. a - g = c - b
        BY <2>3, <1>6
    <3> QED BY <3>1, <3>2, <2>1, <1>1, <1>3, <1>4
  <2>5. ASSUME NEW j \in 1..Len(data) PROVE Target(host, j) = x <=> j = i
    <3>1. PICK d \in b..(PAGE - 1) :
             Target(host, j) = f * PAGE + d /\ (j <= PAGE - b => d = b + j - 1)
        BY <1>7
    <3>2. d = b + j - 1 /\ b \in Int /\ j \in Int /\ i \in Int
        BY <3>1, <1>1, <1>4, <1>10
    <3>3. Target(host, j) = x => d = c
        BY <3>1, <1>8
    <3>4. j = i => d = c
        BY <3>2, <2>4
    <3>5. d = c => j = i
        BY <3>2, <2>4
    <3>6. d = c => Target(host, j) = x
        BY <3>1, <2>4
    <3> QED BY <3>3, <3>4, <3>5, <3>6
  <2>6. OnlySource(host, Len(data), x, i)
      BY <2>5 DEF OnlySource
  <2> HIDE DEF x
  <2>7. mem \in [Addresses -> 0..255] /\ x \in Addresses
      BY <1>3, <1>4, Zenon
  <2>8. Copied(host, data)[x] = data[i]
      BY ONLY <2>6, <2>7, CopiedAt, data \in Seq(0..255), i \in 1..Len(data), Zenon
  <2> QED BY <2>1, <2>8
<1>11. m[x] = mem[x] \/ \E i \in 1..Len(data) : m[x] = data[i]
  <2> HIDE DEF x
  <2> QED BY <1>3, CopiedFrom
<1>12. /\ ByteIn(mem, guest_pages[u], a) = mem[x]
       /\ ByteIn(Copied(Translate(as[u], g), data), guest_pages[u], a) = m[x]
    BY <1>1, Zenon DEF ByteIn, h, c
<1> HIDE DEF x, m
<1> QED BY <1>9, <1>10, <1>11, <1>12, Zenon DEF b, Rewritten

\* The reset clears the storage.
LEMMA ResetGuest ==
    ASSUME StorageInv, NEW u \in Users, ResetStorage(u), NEW a \in Nat, InStorage(u, a)
    PROVE  ByteIn(mem', guest_pages[u], a) = 0
<1> DEFINE f == guest_pages[u][a \div PAGE + 1]
           x == f * PAGE + (a % PAGE)
<1>1. /\ a \div PAGE + 1 \in DOMAIN guest_pages[u] /\ x \in Addresses /\ x \div PAGE = f
    BY StoredByte, OwnFrames, FrameBytes
<1>2. mem \in [Addresses -> 0..255]
    BY DEF StorageInv, StorageType
<1>3. mem'[x] = IF \E i \in DOMAIN guest_pages[u] : guest_pages[u][i] = x \div PAGE
                THEN 0 ELSE mem[x]
    BY <1>1, <1>2, ResetBytes
<1>4. \E i \in DOMAIN guest_pages[u] : guest_pages[u][i] = x \div PAGE
    BY <1>1
<1>5. mem'[x] = 0
    BY <1>3, <1>4
<1> QED BY <1>5 DEF ByteIn

\* The storage of a user, as far as it can be addressed, is what guest_ipl_nss
\* leaves when it has copied the segments before k and off bytes of segment k.
Holds(m, pages, nss, k, off) ==
    \A a \in 0..(PAGE * Len(pages) - 1) :
        a < LIMIT => ByteIn(m, pages, a) = Partial(nss, k, off, a)

\* A block is copied: where guest_ipl_nss is then.
After(s, k, off) ==
    IF off + BlockLen(s, off) < s.memlen THEN <<k, off + BlockLen(s, off)>> ELSE <<k + 1, 0>>

\* The addresses that are copied afterwards are those before, and the block.
LEMMA BeforeAfter ==
    ASSUME NEW nss \in DOMAIN Images, NEW k \in 1..Len(SegsOf(nss)), NEW off \in Nat,
           off < SegsOf(nss)[k].memlen, NEW a \in Nat
    PROVE  LET s == SegsOf(nss)[k]
               next == After(s, k, off)
               g == s.gaddr + off
           IN  Before(nss, next[1], next[2], a) <=>
                 \/ Before(nss, k, off, a)
                 \/ off < Len(s.data) /\ g <= a /\ a < g + BlockLen(s, off)
<1> DEFINE s == SegsOf(nss)[k]
           n == BlockLen(s, off)
           g == s.gaddr + off
           kk == IF off + n < s.memlen THEN k ELSE k + 1
           oo == IF off + n < s.memlen THEN off + n ELSE 0
           l == Len(s.data)
<1>1. /\ s \in Segment /\ s.gaddr \in Nat /\ s.memlen \in Nat /\ l \in Nat /\ l <= s.memlen
      /\ Len(SegsOf(nss)) \in Nat /\ k \in Nat
    BY SegmentFacts
<1>2. /\ n \in Nat \ {0} /\ off + n <= s.memlen
      /\ off < l => off + n <= l
    BY <1>1, BlockType
<1>3. After(s, k, off)[1] = kk /\ After(s, k, off)[2] = oo
    BY DEF After
<1> HIDE DEF s, n, l
<1>4. ASSUME NEW j \in Nat, NEW i \in Nat, Holder(nss, j, i, a), j < k \/ (j = k /\ i <= off)
      PROVE  j < kk \/ (j = kk /\ i <= oo)
    BY <1>1, <1>2, <1>4
<1>5. ASSUME off < l, g <= a, a < g + n
      PROVE  \E j, i \in Nat : Holder(nss, j, i, a) /\ (j < kk \/ (j = kk /\ i <= oo))
  <2> DEFINE i == a - s.gaddr + 1
  <2>1. i \in Nat /\ i \in 1..l /\ s.gaddr + i - 1 = a /\ i <= off + n
      BY <1>1, <1>2, <1>5, SMTT(40)
  <2> HIDE DEF i
  <2>2. Holder(nss, k, i, a)
      BY <2>1 DEF Holder, s, l
  <2>3. k < kk \/ (k = kk /\ i <= oo)
      BY <2>1, <1>1, <1>2
  <2> QED BY <2>1, <2>2, <2>3, <1>1
<1>6. ASSUME NEW j \in Nat, NEW i \in Nat, Holder(nss, j, i, a), j < kk \/ (j = kk /\ i <= oo)
      PROVE  \/ j < k \/ (j = k /\ i <= off)
             \/ off < l /\ g <= a /\ a < g + n
  <2>1. i \in Nat \ {0}
      BY <1>6, HolderInSegment
  <2>2. j = k => i = a - s.gaddr + 1 /\ i <= l
      BY <1>6, HolderInSegment DEF s, l
  <2> QED BY <2>1, <2>2, <1>1, <1>2, <1>6, SMTT(40)
<1>7. Before(nss, kk, oo, a) <=>
        Before(nss, k, off, a) \/ (off < l /\ g <= a /\ a < g + n)
  <2> HIDE DEF kk, oo, g
  <2> QED BY <1>4, <1>5, <1>6 DEF Before
<1> HIDE DEF kk, oo
<1> QED BY <1>3, <1>7, Zenon DEF s, n, l

\* The block of zeros of a segment is nobody's data.
LEMMA NoHolder ==
    ASSUME NEW nss \in DOMAIN Images, NEW k \in 1..Len(SegsOf(nss)), NEW off \in Nat,
           NEW a \in Nat, Len(SegsOf(nss)[k].data) <= off,
           SegsOf(nss)[k].gaddr + off <= a, a < SegsOf(nss)[k].gaddr + SegsOf(nss)[k].memlen,
           NEW j, NEW i, Holder(nss, j, i, a)
    PROVE  FALSE
<1>1. /\ j \in 1..Len(SegsOf(nss))
      /\ SegsOf(nss)[j].gaddr <= a /\ a < SegsOf(nss)[j].gaddr + SegsOf(nss)[j].memlen
      /\ i = a - SegsOf(nss)[j].gaddr + 1 /\ i <= Len(SegsOf(nss)[j].data)
    BY HolderInSegment
<1>2. SegsOf(nss)[k].gaddr \in Nat /\ Len(SegsOf(nss)[k].data) \in Nat
    BY SegmentFacts
<1>3. SegsOf(nss)[k].gaddr <= a
    BY <1>2
<1>4. j = k
    BY <1>1, <1>3, OneSegment
<1> QED BY <1>1, <1>2, <1>4

\* A turn of __copy_segment.
LEMMA BlockCopied ==
    ASSUME StorageInv, BootInv, NEW u \in Users, u \in alive,
           NEW nss \in DOMAIN Images, NEW k \in 1..Len(SegsOf(nss)), NEW off \in Nat,
           off < SegsOf(nss)[k].memlen,
           Translate(as[u], SegsOf(nss)[k].gaddr + off) # FAULT,
           mem' = Copied(Translate(as[u], SegsOf(nss)[k].gaddr + off), Block(SegsOf(nss)[k], off)),
           Holds(mem, guest_pages[u], nss, k, off)
    PROVE  LET next == After(SegsOf(nss)[k], k, off)
           IN  Holds(mem', guest_pages[u], nss, next[1], next[2])
<1> DEFINE s == SegsOf(nss)[k]
           n == BlockLen(s, off)
           g == s.gaddr + off
           data == Block(s, off)
           l == Len(s.data)
           kk == After(s, k, off)[1]
           oo == After(s, k, off)[2]
<1>1. /\ s \in Segment /\ s.gaddr \in Nat /\ s.memlen \in Nat /\ l \in Nat /\ l <= s.memlen
    BY SegmentFacts
<1>2. /\ n \in Nat \ {0} /\ off + n <= s.memlen /\ data \in Seq(0..255) /\ Len(data) = n
      /\ off < l => n <= PAGE - (g % PAGE) /\ off + n <= l
    BY <1>1, BlockType DEF DAT_BX
<1>3. data = [i \in 1..n |-> IF off < l THEN s.data[off + i] ELSE 0]
    BY DEF Block
<1>4. g \in Nat
    BY <1>1
<1> SUFFICES ASSUME NEW a \in 0..(PAGE * Len(guest_pages[u]) - 1), a < LIMIT
             PROVE  ByteIn(mem', guest_pages[u], a) = Partial(nss, kk, oo, a)
    BY DEF Holds
<1>5. a \in Nat /\ InStorage(u, a)
  <2>1. PAGE \in Nat /\ Len(guest_pages[u]) \in Nat
      BY PageAssumption, OwnFrames
  <2>2. PICK p \in Nat : p = PAGE * Len(guest_pages[u])
      BY <2>1
  <2> QED BY <2>2 DEF InStorage
<1> DEFINE old == ByteIn(mem, guest_pages[u], a)
           new == ByteIn(mem', guest_pages[u], a)
<1>6. old = Partial(nss, k, off, a)
    BY DEF Holds
<1>7. Before(nss, kk, oo, a) <=>
        Before(nss, k, off, a) \/ (off < l /\ g <= a /\ a < g + n)
    BY <1>5, BeforeAfter
<1>8. /\ ~(g <= a /\ a < g + n) => new = old
      /\ g <= a /\ a < g + n /\ n <= PAGE - (g % PAGE) => new = data[a - g + 1]
      /\ new = old \/ \E i \in 1..n : new = data[i]
  <2>1. Translate(as[u], g) # FAULT /\ mem' = Copied(Translate(as[u], g), data)
      OBVIOUS
  <2> DEFINE m == Copied(Translate(as[u], g), data)
             x == ByteIn(m, guest_pages[u], a)
  <2> HIDE DEF g, data, n, s
  <2>2. /\ ~(g <= a /\ a < g + Len(data)) => x = old
        /\ g <= a /\ a < g + Len(data) /\ Len(data) <= PAGE - (g % PAGE) => x = data[a - g + 1]
        /\ x = old \/ \E i \in 1..Len(data) : x = data[i]
    <3>1. Rewritten(u, g, data, a)
        BY ONLY <2>1, <1>2, <1>4, <1>5, CopyToGuest, StorageInv, BootInv, u \in Users, u \in alive
    <3> QED BY ONLY <3>1, Zenon DEF Rewritten, x, old, m
  <2>3. new = x /\ Len(data) = n
      BY <2>1, <1>2
  <2> HIDE DEF x, new, old
  <2> QED BY ONLY <2>2, <2>3, Zenon
<1> HIDE DEF s, n, data, l, kk, oo, old, new
<1>12. n \in Nat \ {0} /\ s.gaddr \in Nat /\ l \in Nat /\ (off < l => off + n <= l) /\ a \in Nat
    BY <1>1, <1>2, <1>5
<1>9. CASE off < l /\ g <= a /\ a < g + n
  <2>1. new = data[a - g + 1]
      BY <1>2, <1>8, <1>9
  <2>2. a - g + 1 \in 1..n /\ off + (a - g + 1) = a - s.gaddr + 1
    <3>1. PICK b \in Nat : b = s.gaddr
        BY <1>12
    <3>2. b + off <= a /\ a < b + off + n
        BY ONLY <1>9, <3>1, Zenon
    <3>3. a - (b + off) + 1 \in 1..n /\ off + (a - (b + off) + 1) = a - b + 1
        BY ONLY <3>2, <1>12, off \in Nat, b \in Nat
    <3> QED BY ONLY <3>1, <3>3, Zenon
  <2>3. new = s.data[a - s.gaddr + 1]
      BY <2>1, <2>2, <1>3, <1>9
  <2>4. Holder(nss, k, a - s.gaddr + 1, a)
    <3>1. a - s.gaddr + 1 \in 1..l /\ s.gaddr + (a - s.gaddr + 1) - 1 = a
        BY ONLY <1>12, <1>9, off \in Nat, SMTT(40)
    <3> QED BY <3>1 DEF Holder, s, l
  <2>5. Contents[nss][a] = s.data[a - s.gaddr + 1]
      BY <2>4, <1>5, ContentsOf DEF s
  <2>6. Before(nss, kk, oo, a)
      BY <1>7, <1>9
  <2> QED BY <2>3, <2>5, <2>6 DEF Partial, new
<1>10. CASE ~(off < l) /\ g <= a /\ a < g + n
  <2>1. \A j, i : ~Holder(nss, j, i, a)
    <3>1. l <= off /\ a < s.gaddr + s.memlen
        BY <1>1, <1>2, <1>4, <1>5, <1>10, SMTT(40)
    <3> QED BY <3>1, <1>5, <1>10, NoHolder DEF s, l
  <2>2. ~Before(nss, k, off, a) /\ ~Before(nss, kk, oo, a)
      BY <2>1 DEF Before
  <2>3. old = 0
      BY <2>2, <1>6 DEF Partial
  <2>4. \A i \in 1..n : data[i] = 0
      BY <1>3, <1>10
  <2>5. new = 0
      BY <2>3, <2>4, <1>8
  <2> QED BY <2>2, <2>5 DEF Partial, new
<1>11. CASE ~(g <= a /\ a < g + n)
  <2>1. new = old
      BY <1>8, <1>11
  <2>2. Before(nss, kk, oo, a) <=> Before(nss, k, off, a)
      BY <1>7, <1>11
  <2> QED BY <2>1, <2>2, <1>6 DEF Partial, new
<1> QED BY <1>9, <1>10, <1>11

\* Task t executes guest_ipl_nss for user u.
Loader(t, u) == ipl[t].busy /\ ipl[t].user = u

\* A system that was loaded and not touched since is there as far as the one task
\* is that loads it, and completely if none does.
LoadOK(u) ==
    loaded[u] # "none" =>
        /\ u \in alive /\ loaded[u] \in DOMAIN Images
        /\ \A t, r \in Tasks : Loader(t, u) /\ Loader(r, u) => t = r
        /\ \A t \in Tasks : Loader(t, u) =>
             /\ ipl[t].nss = loaded[u]
             /\ Holds(mem, guest_pages[u], loaded[u], ipl[t].seg, ipl[t].off)
        /\ (\A t \in Tasks : ~Loader(t, u)) =>
             Holds(mem, guest_pages[u], loaded[u], Len(SegsOf(loaded[u])) + 1, 0)

LoadInv == \A u \in Users : LoadOK(u)

\* The bytes of a user are as before.
Untouched(u) ==
    \A a \in 0..(PAGE * Len(guest_pages[u]) - 1) :
        ByteIn(mem', guest_pages[u], a) = ByteIn(mem, guest_pages[u], a)

\* A step that leaves the storage of a user alone, and who loads it.
LEMMA KeepLoad ==
    ASSUME NEW u \in Users, LoadOK(u), loaded'[u] = loaded[u] \/ loaded'[u] = "none",
           u \in alive => u \in alive' /\ guest_pages'[u] = guest_pages[u] /\ Untouched(u),
           \A t \in Tasks : ipl'[t] = ipl[t] \/ (~Loader(t, u) /\ ~Loader(t, u)')
    PROVE  LoadOK(u)'
<1>1. CASE loaded'[u] = "none"
    BY <1>1 DEF LoadOK
<1>2. CASE loaded'[u] # "none"
  <2>1. loaded'[u] = loaded[u] /\ loaded[u] # "none"
      BY <1>2
  <2>2. u \in alive /\ u \in alive' /\ guest_pages'[u] = guest_pages[u] /\ Untouched(u)
      BY <2>1 DEF LoadOK
  <2>3. \A t \in Tasks : Loader(t, u)' <=> Loader(t, u)
      BY DEF Loader
  <2>4. \A t \in Tasks : Loader(t, u) => ipl'[t] = ipl[t]
      OBVIOUS
  <2>5. \A nss, k, off : Holds(mem, guest_pages[u], nss, k, off)
                            => Holds(mem', guest_pages'[u], nss, k, off)
      BY <2>2, Zenon DEF Holds, Untouched
  <2>6. /\ loaded[u] \in DOMAIN Images
        /\ \A t, r \in Tasks : Loader(t, u) /\ Loader(r, u) => t = r
        /\ \A t \in Tasks : Loader(t, u) =>
             /\ ipl[t].nss = loaded[u]
             /\ Holds(mem, guest_pages[u], loaded[u], ipl[t].seg, ipl[t].off)
        /\ (\A t \in Tasks : ~Loader(t, u)) =>
             Holds(mem, guest_pages[u], loaded[u], Len(SegsOf(loaded[u])) + 1, 0)
      BY <2>1 DEF LoadOK
  <2>7. \A t \in Tasks : Loader(t, u)' =>
             /\ ipl'[t].nss = loaded'[u]
             /\ Holds(mem', guest_pages'[u], loaded'[u], ipl'[t].seg, ipl'[t].off)
    <3> TAKE t \in Tasks
    <3> HAVE Loader(t, u)'
    <3>1. Loader(t, u) /\ ipl'[t] = ipl[t]
        BY <2>3, <2>4
    <3> QED BY <3>1, <2>1, <2>5, <2>6, Zenon
  <2>8. (\A t \in Tasks : ~Loader(t, u)') =>
             Holds(mem', guest_pages'[u], loaded'[u], Len(SegsOf(loaded'[u])) + 1, 0)
      BY <2>1, <2>3, <2>5, <2>6, Zenon
  <2>9. \A t, r \in Tasks : Loader(t, u)' /\ Loader(r, u)' => t = r
      BY <2>3, <2>6
  <2> QED BY <2>1, <2>2, <2>6, <2>7, <2>8, <2>9 DEF LoadOK
<1> QED BY <1>1, <1>2

LEMMA QuietLoad ==
    ASSUME LoadInv, mem' = mem, ipl' = ipl, loaded' = loaded,
           \A u \in alive \cap Users : u \in alive' /\ guest_pages'[u] = guest_pages[u]
    PROVE  LoadInv'
<1> SUFFICES ASSUME NEW u \in Users PROVE LoadOK(u)'
    BY DEF LoadInv
<1>1. LoadOK(u) /\ Untouched(u)
    BY DEF LoadInv, Untouched
<1> QED BY <1>1, KeepLoad

\* Who writes to the storage of one user leaves the others alone.
LEMMA OthersUntouched ==
    ASSUME StorageInv, BootInv, NEW u \in Users, u \in alive, NEW w \in Users, w # u,
           \/ mem' = mem
           \/ ResetStorage(u)
           \/ \E g \in Int, data \in Seq(0..255) :
                Translate(as[u], g) # FAULT /\ mem' = Copied(Translate(as[u], g), data)
    PROVE  Untouched(w)
<1> SUFFICES ASSUME NEW a \in 0..(PAGE * Len(guest_pages[w]) - 1)
             PROVE  ByteIn(mem', guest_pages[w], a) = ByteIn(mem, guest_pages[w], a)
    BY DEF Untouched
<1>1. a \in Nat /\ InStorage(w, a)
  <2>1. PAGE \in Nat /\ Len(guest_pages[w]) \in Nat
      BY PageAssumption, OwnFrames
  <2>2. PICK p \in Nat : p = PAGE * Len(guest_pages[w])
      BY <2>1
  <2> QED BY <2>2 DEF InStorage
<1> DEFINE f == guest_pages[w][a \div PAGE + 1]
           i == a % PAGE
<1>2. f \in FramesOf(w) /\ i \in 0..(PAGE - 1)
    BY <1>1, StoredByte
<1> HIDE DEF f, i
<1>3. mem'[f * PAGE + i] = mem[f * PAGE + i]
  <2>1. CASE mem' = mem
      BY <2>1
  <2>2. CASE ResetStorage(u)
      BY <2>2, <1>2, ResetIsolated
  <2>3. CASE \E g \in Int, data \in Seq(0..255) :
               Translate(as[u], g) # FAULT /\ mem' = Copied(Translate(as[u], g), data)
    <3>1. PICK g \in Int, data \in Seq(0..255) :
            Translate(as[u], g) # FAULT /\ mem' = Copied(Translate(as[u], g), data)
        BY <2>3
    <3>2. Copied(Translate(as[u], g), data)[f * PAGE + i] = mem[f * PAGE + i]
        BY <3>1, <1>2, CopyIsolated, ZenonT(60)
    <3> QED BY <3>1, <3>2
  <2> QED BY <2>1, <2>2, <2>3
<1> QED BY <1>3, Zenon DEF ByteIn, f, i

LEMMA StorageBound ==
    ASSUME StorageInv, NEW u \in Users
    PROVE  \A a \in 0..(PAGE * Len(guest_pages[u]) - 1) : a \in Nat /\ InStorage(u, a)
<1>1. PAGE \in Nat /\ Len(guest_pages[u]) \in Nat
    BY PageAssumption, OwnFrames
<1>2. PICK p \in Nat : p = PAGE * Len(guest_pages[u])
    BY <1>1
<1> QED BY <1>2 DEF InStorage

\* The contents when all segments are copied.
LEMMA AllBefore ==
    ASSUME NEW nss \in DOMAIN Images, NEW k \in Nat, k > Len(SegsOf(nss)), NEW off \in Nat,
           NEW a \in Nat, a < LIMIT
    PROVE  Partial(nss, k, off, a) = Contents[nss][a]
<1>1. \A j, i \in Nat : Holder(nss, j, i, a) => j < k
  <2> TAKE j, i \in Nat
  <2> HAVE Holder(nss, j, i, a)
  <2>1. j \in 1..Len(SegsOf(nss)) /\ Len(SegsOf(nss)) \in Nat
      BY HolderInSegment, SegmentFacts
  <2> QED BY <2>1
<1>2. CASE Before(nss, k, off, a)
    BY <1>2 DEF Partial
<1>3. CASE ~Before(nss, k, off, a)
  <2>1. \A j, i \in Nat : ~Holder(nss, j, i, a)
      BY <1>1, <1>3 DEF Before
  <2> QED BY <2>1, <1>3, ContentsOf DEF Partial
<1> QED BY <1>2, <1>3

\* IPL begins.
LEMMA IplStartLoad ==
    ASSUME IndInv, LoadInv, NEW t \in Tasks, NEW u \in Users, u \in alive, NEW nss,
           IplStart(t, u, nss)
    PROVE  LoadInv'
<1>1. /\ StorageInv /\ BootInv /\ ipl \in [Tasks -> Cursor] /\ ~ipl[t].busy
      /\ loaded \in [Users -> DOMAIN Images \cup {"none"}]
      /\ alive' = alive /\ guest_pages' = guest_pages
    BY DEF IndInv, ControlType, IplStart
<1>2. CASE ~Loadable(nss)
  <2>1. mem' = mem /\ ipl' = ipl /\ loaded' = loaded
      BY <1>2 DEF IplStart, SetState
  <2> QED BY <2>1, <1>1, QuietLoad
<1>3. CASE Loadable(nss)
  <2> DEFINE c == [busy |-> TRUE, user |-> u, saved |-> cr1, nss |-> nss, seg |-> 1, off |-> 0]
  <2>1. /\ ResetStorage(u) /\ ipl' = [ipl EXCEPT ![t] = c] /\ nss \in DOMAIN Images
        /\ loaded' = [loaded EXCEPT ![u] = IF Loading(u) THEN "none" ELSE nss]
      BY <1>3 DEF IplStart, ClearReset, Loadable
  <2>2. c.busy /\ c.user = u /\ c.nss = nss /\ c.seg = 1 /\ c.off = 0
      OBVIOUS
  <2> HIDE DEF c
  <2>3. ipl'[t] = c /\ \A r \in Tasks \ {t} : ipl'[r] = ipl[r]
      BY <2>1, <1>1
  <2>4. ASSUME NEW w \in Users, w # u PROVE LoadOK(w)'
    <3>1. LoadOK(w) /\ loaded'[w] = loaded[w]
        BY <2>1, <2>4, <1>1 DEF LoadInv
    <3>2. Untouched(w)
        BY <2>1, <2>4, <1>1, OthersUntouched
    <3>3. ~Loader(t, w) /\ ~Loader(t, w)'
        BY <2>2, <2>3, <2>4, <1>1 DEF Loader
    <3> QED BY <3>1, <3>2, <3>3, <2>3, <1>1, KeepLoad
  <2>5. LoadOK(u)'
    <3>1. CASE Loading(u)
      <4>1. loaded'[u] = "none"
          BY <3>1, <2>1, <1>1
      <4> QED BY <4>1 DEF LoadOK
    <3>2. CASE ~Loading(u)
      <4>1. loaded'[u] = nss
          BY <3>2, <2>1, <1>1
      <4>2. \A r \in Tasks : Loader(r, u)' <=> r = t
          BY <3>2, <2>2, <2>3 DEF Loading, Loader
      <4>3. Holds(mem', guest_pages'[u], nss, 1, 0)
        <5> SUFFICES ASSUME NEW a \in 0..(PAGE * Len(guest_pages[u]) - 1), a < LIMIT
                     PROVE  ByteIn(mem', guest_pages[u], a) = Partial(nss, 1, 0, a)
            BY <1>1 DEF Holds
        <5>1. a \in Nat /\ InStorage(u, a)
            BY <1>1, StorageBound
        <5>2. ByteIn(mem', guest_pages[u], a) = 0
            BY <5>1, <2>1, <1>1, ResetGuest
        <5>3. ~Before(nss, 1, 0, a)
          <6> SUFFICES ASSUME NEW j \in Nat, NEW i \in Nat, Holder(nss, j, i, a),
                              j < 1 \/ (j = 1 /\ i <= 0)
                       PROVE  FALSE
              BY DEF Before
          <6>1. j \in Nat \ {0} /\ i \in Nat \ {0}
              BY <2>1, HolderInSegment
          <6> QED BY <6>1
        <5> QED BY <5>2, <5>3 DEF Partial
      <4>4. \A r \in Tasks : Loader(r, u)' =>
              ipl'[r].nss = nss /\ Holds(mem', guest_pages'[u], nss, ipl'[r].seg, ipl'[r].off)
          BY <4>2, <4>3, <2>2, <2>3
      <4>5. ~\A r \in Tasks : ~Loader(r, u)'
          BY <4>2
      <4>6. \A r, q \in Tasks : Loader(r, u)' /\ Loader(q, u)' => r = q
          BY <4>2
      <4>7. u \in alive' /\ loaded'[u] \in DOMAIN Images
          BY <4>1, <2>1, <1>1
      <4> QED BY <4>1, <4>4, <4>5, <4>6, <4>7 DEF LoadOK
    <3> QED BY <3>1, <3>2
  <2> QED BY <2>4, <2>5 DEF LoadInv
<1> QED BY <1>2, <1>3

\* A block is copied.
LEMMA IplCopyLoad ==
    ASSUME IndInv, LoadInv, NEW t \in Tasks, IplCopy(t)
    PROVE  LoadInv'
<1> DEFINE s == Segments(t)[ipl[t].seg]
           off == ipl[t].off
           end == off + BlockLen(s, off)
           next == IF end < s.memlen THEN ipl[t].seg ELSE ipl[t].seg + 1
           noff == IF end < s.memlen THEN end ELSE 0
<1>1. /\ StorageInv /\ BootInv /\ CrInv /\ ipl \in [Tasks -> Cursor]
      /\ loaded \in [Users -> DOMAIN Images \cup {"none"}]
      /\ cur = t /\ ipl[t].busy /\ ipl[t].seg <= Len(Segments(t))
      /\ alive' = alive /\ guest_pages' = guest_pages
    BY DEF IndInv, ControlType, IplCopy
<1>2. /\ ipl[t].user \in alive \cap Users /\ cr1 = as[ipl[t].user]
      /\ ipl[t].nss \in DOMAIN Images /\ off < s.memlen
      /\ off \in Nat /\ ipl[t].seg \in Nat \ {0}
  <2>1. BusyOK(t)
      BY <1>1 DEF CrInv
  <2> QED BY <2>1, <1>1 DEF BusyOK, CrOf, Cursor
<1>3. PICK u \in Users : u = ipl[t].user /\ u \in alive /\ cr1 = as[u]
    BY <1>2
<1>4. PICK nss \in DOMAIN Images : nss = ipl[t].nss
    BY <1>2
<1>5. Segments(t) = SegsOf(nss)
    BY <1>4 DEF Segments, SegsOf
<1>6. PICK k \in 1..Len(SegsOf(nss)) : k = ipl[t].seg
  <2>1. Len(SegsOf(nss)) \in Nat
      BY SegmentsOf DEF SegsOf
  <2> QED BY <2>1, <1>1, <1>2, <1>5
<1>7. s = SegsOf(nss)[k]
    BY <1>5, <1>6
<1>8. s \in Segment /\ Len(s.data) <= s.memlen /\ s.gaddr \in Nat
    BY <1>7, SegmentFacts
<1>9. Block(s, off) \in Seq(0..255) /\ Block(s, off) # <<>>
  <2>1. s.memlen \in Nat
      BY <1>8 DEF Segment
  <2> HIDE DEF s, off
  <2>2. Block(s, off) \in Seq(0..255) /\ Len(Block(s, off)) \in Nat \ {0}
      BY <2>1, <1>2, <1>8, BlockType
  <2> QED BY <2>2
<1> HIDE DEF s, off
<1>10. CASE memcpy_to_guest(s.gaddr + off, Block(s, off))
            /\ ipl' = [ipl EXCEPT ![t].seg = next, ![t].off = noff] /\ loaded' = loaded
  <2>1. Translate(as[u], s.gaddr + off) # FAULT
        /\ mem' = Copied(Translate(as[u], s.gaddr + off), Block(s, off))
      BY <1>3, <1>9, <1>10 DEF memcpy_to_guest, virt2phy_current
  <2> DEFINE c == [ipl[t] EXCEPT !.seg = next]
             d == [c EXCEPT !.off = noff]
  <2>2. c.busy = ipl[t].busy /\ c.user = ipl[t].user /\ c.nss = ipl[t].nss /\ c.seg = next
        /\ c \in [busy : BOOLEAN, user : Users \cup {"none"}, saved : Frames \cup {0},
                  nss : DOMAIN Images \cup {"none"}, seg : {next}, off : Nat]
    <3>1. ipl[t] \in Cursor
        BY <1>1
    <3> HIDE DEF next
    <3> QED BY <3>1 DEF Cursor
  <2> HIDE DEF c
  <2>3. d.busy = ipl[t].busy /\ d.user = ipl[t].user /\ d.nss = ipl[t].nss /\ d.seg = next
        /\ d.off = noff
    <3> HIDE DEF next, noff
    <3> QED BY <2>2
  <2>4. ipl'[t] = d /\ \A r \in Tasks \ {t} : ipl'[r] = ipl[r]
    <3> HIDE DEF next, noff
    <3> QED BY <1>1, <1>10 DEF c
  <2> HIDE DEF d
  <2>5. ASSUME NEW w \in Users, w # u PROVE LoadOK(w)'
    <3>1. LoadOK(w) /\ loaded'[w] = loaded[w]
        BY <1>10 DEF LoadInv
    <3>2. Untouched(w)
      <4>1. s.gaddr + off \in Int
          BY <1>2, <1>8
      <4>2. \E g \in Int, data \in Seq(0..255) :
               Translate(as[u], g) # FAULT /\ mem' = Copied(Translate(as[u], g), data)
          BY <4>1, <2>1, <1>9
      <4> QED BY <4>2, <2>5, <1>1, <1>3, OthersUntouched
    <3>3. ~Loader(t, w) /\ ~Loader(t, w)'
        BY <2>3, <2>4, <2>5, <1>3 DEF Loader
    <3> QED BY <3>1, <3>2, <3>3, <2>4, <1>1, KeepLoad
  <2>6. ASSUME loaded[u] # "none" PROVE LoadOK(u)'
    <3>1. Loader(t, u)
        BY <1>1, <1>3 DEF Loader
    <3>2. /\ loaded[u] \in DOMAIN Images
          /\ \A r \in Tasks : Loader(r, u) => r = t
          /\ loaded[u] = nss /\ Holds(mem, guest_pages[u], nss, k, off)
      <4>1. LoadOK(u)
          BY DEF LoadInv
      <4> QED BY <4>1, <3>1, <2>6, <1>4, <1>6 DEF LoadOK, off
    <3>3. next = After(s, k, off)[1] /\ noff = After(s, k, off)[2]
        BY <1>6 DEF After
    <3>4. Holds(mem', guest_pages[u], nss, next, noff)
      <4> HIDE DEF next, noff, end
      <4> QED BY <3>2, <3>3, <2>1, <1>1, <1>2, <1>3, <1>7, BlockCopied
    <3> HIDE DEF next, noff
    <3>5. \A r \in Tasks : Loader(r, u)' <=> r = t
      <4>1. Loader(t, u)'
          BY <2>3, <2>4, <1>1, <1>3 DEF Loader
      <4>2. \A r \in Tasks \ {t} : Loader(r, u)' <=> Loader(r, u)
          BY <2>4 DEF Loader
      <4> QED BY <4>1, <4>2, <3>2
    <3>6. \A r \in Tasks : Loader(r, u)' =>
            /\ ipl'[r].nss = loaded'[u]
            /\ Holds(mem', guest_pages'[u], loaded'[u], ipl'[r].seg, ipl'[r].off)
        BY <3>2, <3>4, <3>5, <2>3, <2>4, <1>1, <1>4, <1>10
    <3>7. u \in alive' /\ loaded'[u] \in DOMAIN Images
        BY <3>2, <1>1, <1>3, <1>10
    <3> QED BY <3>5, <3>6, <3>7 DEF LoadOK
  <2>7. ASSUME loaded[u] = "none" PROVE LoadOK(u)'
      BY <2>7, <1>10 DEF LoadOK
  <2> QED BY <2>5, <2>6, <2>7 DEF LoadInv
<1>11. CASE /\ mem' = mem /\ ipl' = [ipl EXCEPT ![t] = NoIpl]
            /\ loaded' = [loaded EXCEPT ![ipl[t].user] = "none"]
  <2>1. ipl'[t] = NoIpl /\ ~NoIpl.busy /\ \A r \in Tasks \ {t} : ipl'[r] = ipl[r]
      BY <1>1, <1>11 DEF NoIpl
  <2>2. LoadOK(u)'
    <3>1. loaded'[u] = "none"
        BY <1>1, <1>3, <1>11
    <3> QED BY <3>1 DEF LoadOK
  <2>3. ASSUME NEW w \in Users, w # u PROVE LoadOK(w)'
    <3>1. LoadOK(w) /\ loaded'[w] = loaded[w] /\ Untouched(w)
        BY <1>1, <1>3, <1>11, <2>3 DEF LoadInv, Untouched
    <3>2. ~Loader(t, w) /\ ~Loader(t, w)'
        BY <2>1, <2>3, <1>3 DEF Loader
    <3> QED BY <3>1, <3>2, <2>1, <1>1, KeepLoad
  <2> QED BY <2>2, <2>3 DEF LoadInv
<1> QED BY <1>10, <1>11 DEF IplCopy, s, off

\* The last segment is copied.
LEMMA IplEndLoad ==
    ASSUME IndInv, LoadInv, NEW t \in Tasks, IplEnd(t)
    PROVE  LoadInv'
<1>1. /\ StorageInv /\ CrInv /\ ipl \in [Tasks -> Cursor]
      /\ ipl[t].busy /\ ipl[t].seg > Len(Segments(t)) /\ ipl' = [ipl EXCEPT ![t] = NoIpl]
      /\ alive' = alive /\ guest_pages' = guest_pages /\ mem' = mem /\ loaded' = loaded
    BY DEF IndInv, ControlType, IplEnd
<1>2. ipl[t].user \in Users /\ ipl[t].seg \in Nat /\ ipl[t].off \in Nat
  <2>1. BusyOK(t)
      BY <1>1 DEF CrInv
  <2> QED BY <2>1, <1>1 DEF BusyOK, Cursor
<1>3. PICK u \in Users : u = ipl[t].user
    BY <1>2
<1>4. ipl'[t] = NoIpl /\ ~NoIpl.busy /\ \A r \in Tasks \ {t} : ipl'[r] = ipl[r]
    BY <1>1 DEF NoIpl
<1>5. ASSUME NEW w \in Users, w # u PROVE LoadOK(w)'
  <2>1. LoadOK(w) /\ Untouched(w)
      BY <1>1 DEF LoadInv, Untouched
  <2>2. ~Loader(t, w) /\ ~Loader(t, w)'
      BY <1>3, <1>4, <1>5 DEF Loader
  <2> QED BY <2>1, <2>2, <1>1, <1>4, KeepLoad
<1>6. ASSUME loaded[u] = "none" PROVE LoadOK(u)'
    BY <1>1, <1>6 DEF LoadOK
<1>7. ASSUME loaded[u] # "none" PROVE LoadOK(u)'
  <2>1. Loader(t, u)
      BY <1>1, <1>3 DEF Loader
  <2>2. /\ u \in alive /\ loaded[u] \in DOMAIN Images
        /\ \A r \in Tasks : Loader(r, u) => r = t
        /\ ipl[t].nss = loaded[u]
        /\ Holds(mem, guest_pages[u], loaded[u], ipl[t].seg, ipl[t].off)
    <3>1. LoadOK(u)
        BY DEF LoadInv
    <3> QED BY <3>1, <2>1, <1>7 DEF LoadOK
  <2>3. \A r \in Tasks : ~Loader(r, u)'
    <3>1. ~Loader(t, u)'
        BY <1>4 DEF Loader
    <3>2. \A r \in Tasks \ {t} : ~Loader(r, u)'
        BY <2>2, <1>4 DEF Loader
    <3> QED BY <3>1, <3>2
  <2>4. PICK nss \in DOMAIN Images : nss = loaded[u]
      BY <2>2
  <2>5. PICK k \in Nat, off \in Nat : k = ipl[t].seg /\ off = ipl[t].off
      BY <1>2
  <2>6. k > Len(SegsOf(nss)) /\ Len(SegsOf(nss)) + 1 \in Nat /\ Len(SegsOf(nss)) + 1 > Len(SegsOf(nss))
    <3>1. Segments(t) = SegsOf(nss)
        BY <2>2, <2>4 DEF Segments, SegsOf
    <3>2. Len(SegsOf(nss)) \in Nat
        BY SegmentsOf DEF SegsOf
    <3> QED BY <3>1, <3>2, <2>5, <1>1
  <2>7. Holds(mem, guest_pages[u], nss, Len(SegsOf(nss)) + 1, 0)
    <3> SUFFICES ASSUME NEW a \in 0..(PAGE * Len(guest_pages[u]) - 1), a < LIMIT
                 PROVE  ByteIn(mem, guest_pages[u], a)
                          = Partial(nss, Len(SegsOf(nss)) + 1, 0, a)
        BY DEF Holds
    <3>1. a \in Nat
        BY <1>1, StorageBound
    <3>2. ByteIn(mem, guest_pages[u], a) = Partial(nss, k, off, a)
        BY <2>2, <2>4, <2>5 DEF Holds
    <3>3. Partial(nss, k, off, a) = Contents[nss][a]
        BY <3>1, <2>6, AllBefore
    <3>4. Partial(nss, Len(SegsOf(nss)) + 1, 0, a) = Contents[nss][a]
      <4> DEFINE l == Len(SegsOf(nss)) + 1
      <4>1. l \in Nat /\ l > Len(SegsOf(nss)) /\ 0 \in Nat
          BY <2>6
      <4> HIDE DEF l
      <4>2. Partial(nss, l, 0, a) = Contents[nss][a]
          BY <4>1, <3>1, AllBefore
      <4> QED BY <4>2 DEF l
    <3> QED BY <3>2, <3>3, <3>4
  <2>8. Holds(mem', guest_pages'[u], loaded'[u], Len(SegsOf(loaded'[u])) + 1, 0)
      BY <2>4, <2>7, <1>1, Zenon
  <2> QED BY <2>2, <2>3, <2>8, <1>1 DEF LoadOK
<1> QED BY <1>5, <1>6, <1>7 DEF LoadInv

\* The commands, and the guest itself.
LEMMA CommandLoad ==
    ASSUME IndInv, LoadInv, NEW u \in Users, Command(u)
    PROVE  LoadInv'
<1>1. /\ StorageInv /\ BootInv /\ ControlType /\ CrInv
      /\ loaded \in [Users -> DOMAIN Images \cup {"none"}]
      /\ ipl' = ipl /\ alive' = alive /\ guest_pages' = guest_pages
    BY DEF IndInv, ControlType, Command
<1>2. u \in alive /\ cr1 = as[u]
    BY <1>1 DEF Command, Free, ControlType, CrInv, CrOf
<1>3. CASE Sets(u)
  <2>1. mem' = mem /\ loaded' = loaded
      BY <1>3, Zenon DEF Sets, cmd_store_psw, cmd_store_gpr, cmd_store_fpr, cmd_store_ar,
             cmd_store_cr, StoreRegister, cmd_store_fpcr, system_reset, cmd_stop, SetState,
             guest_begin
  <2> QED BY <2>1, <1>1, QuietLoad
<1>4. CASE Alters(u)
  <2>1. loaded' = [loaded EXCEPT ![u] = "none"]
      BY <1>4 DEF Alters
  <2>2. LoadOK(u)'
    <3>1. loaded'[u] = "none"
        BY <2>1, <1>1
    <3> QED BY <3>1 DEF LoadOK
  <2>3. \/ mem' = mem
        \/ ResetStorage(u)
        \/ \E g \in Int, data \in Seq(0..255) :
             Translate(as[u], g) # FAULT /\ mem' = Copied(Translate(as[u], g), data)
    <3>1. CASE ResetStorage(u)
        BY <3>1
    <3>2. CASE \E o \in StoreOps : /\ virt2phy_current(RoundDown(o.addr)) # FAULT
                                   /\ mem' = Copied(virt2phy_current(RoundDown(o.addr)), o.word)
      <4>1. PICK o \in StoreOps : /\ virt2phy_current(RoundDown(o.addr)) # FAULT
                                  /\ mem' = Copied(virt2phy_current(RoundDown(o.addr)), o.word)
          BY <3>2
      <4>2. RoundDown(o.addr) \in Int /\ o.word \in Seq(0..255)
          BY WordType DEF RoundDown
      <4>3. \E g \in Int, data \in Seq(0..255) :
              Translate(as[u], g) # FAULT /\ mem' = Copied(Translate(as[u], g), data)
          BY <4>1, <4>2, <1>2 DEF virt2phy_current
      <4> QED BY <4>3
    <3>3. mem \in [Addresses -> 0..255]
        BY <1>1 DEF StorageInv, StorageType
    <3> QED BY <3>1, <3>2, <3>3, CommandBytes
  <2>4. ASSUME NEW w \in Users, w # u PROVE LoadOK(w)'
    <3>1. LoadOK(w) /\ loaded'[w] = loaded[w]
        BY <2>1, <2>4, <1>1 DEF LoadInv
    <3>2. Untouched(w)
        BY <2>3, <2>4, <1>1, <1>2, OthersUntouched
    <3> QED BY <3>1, <3>2, <1>1, KeepLoad
  <2> QED BY <2>2, <2>4 DEF LoadInv
<1> QED BY <1>3, <1>4 DEF Command

LEMMA NextLoad == IndInv /\ LoadInv /\ [Next]_vars => LoadInv'
<1> SUFFICES ASSUME IndInv, LoadInv, [Next]_vars PROVE LoadInv'
    OBVIOUS
<1>0. ControlType /\ BootInv
    BY DEF IndInv
<1>1. CASE UNCHANGED vars
  <2>1. mem' = mem /\ ipl' = ipl /\ loaded' = loaded /\ alive' = alive /\ guest_pages' = guest_pages
      BY <1>1 DEF vars, storage, control
  <2> QED BY <2>1, QuietLoad
<1>2. ASSUME NEW t \in Tasks, Switch(t) PROVE LoadInv'
  <2>1. mem' = mem /\ ipl' = ipl /\ loaded' = loaded /\ alive' = alive /\ guest_pages' = guest_pages
      BY <1>2 DEF Switch
  <2> QED BY <2>1, QuietLoad
<1>3. ASSUME NEW t \in Tasks, IplCopy(t) \/ IplEnd(t) PROVE LoadInv'
    BY <1>3, IplCopyLoad, IplEndLoad
<1>4. CASE Create \/ CreateDevice \/ CreateTask \/ Dies
  <2>1. /\ mem' = mem /\ ipl' = ipl /\ loaded' = loaded /\ alive \subseteq alive'
        /\ guest_pages' = guest_pages
      BY <1>4 DEF Create, CreateDevice, CreateTask, Dies, GetPage, storage
  <2> QED BY <2>1, QuietLoad
<1>5. CASE CreatePage
  <2>1. mem' = mem /\ ipl' = ipl /\ loaded' = loaded /\ alive' = alive
      BY <1>5 DEF CreatePage, alloc_guest_storage, control
  <2> QED BY <2>1, <1>5, PageOfOther, QuietLoad
<1>6. CASE Attach
  <2>1. /\ mem' = mem /\ ipl' = ipl /\ loaded' = loaded /\ guest_pages' = guest_pages
        /\ alive' = IF boot.k = Len(Logons) THEN alive \ {Boot} ELSE alive
      BY <1>6 DEF Attach, storage
  <2>2. \A u \in alive \cap Users : u \in alive'
      BY <2>1, UserAssumption
  <2> QED BY <2>1, <2>2, QuietLoad
<1>7. CASE Load
  <2>1. IplStart(Boot, boot.user, Directory[boot.user].nss) /\ boot.k <= Len(Logons)
        /\ boot.step = "ipl"
      BY <1>7 DEF Load, User, Booting
  <2>2. boot.user \in Users /\ boot.user \in alive
      BY <2>1, <1>0, BootUser DEF BootInv
  <2>3. PICK u0 \in Users : u0 = boot.user /\ u0 \in alive
      BY <2>2
  <2>4. IplStart(Boot, u0, Directory[u0].nss) /\ Boot \in Tasks
      BY <2>1, <2>3 DEF Tasks
  <2> QED BY <2>3, <2>4, IplStartLoad
<1>8. CASE Begin
  <2>1. mem' = mem /\ ipl' = ipl /\ loaded' = loaded /\ alive' = alive /\ guest_pages' = guest_pages
      BY <1>8 DEF Begin, guest_begin, SetState
  <2> QED BY <2>1, QuietLoad
<1>9. ASSUME NEW u \in Users, ShellStart(u) \/ Display(u) \/ Channel(u) \/ \E p : Ssch(u, p)
      PROVE  LoadInv'
  <2>1. mem' = mem /\ ipl' = ipl /\ loaded' = loaded /\ alive' = alive /\ guest_pages' = guest_pages
      BY <1>9 DEF ShellStart, Display, Channel, Ssch, cmd_display_storage, ExecCcw, storage, control
  <2> QED BY <2>1, QuietLoad
<1>10. ASSUME NEW u \in Users, Command(u) PROVE LoadInv'
    BY <1>10, CommandLoad
<1>11. ASSUME NEW u \in Users, NEW nss, cmd_ipl(u, nss) PROVE LoadInv'
  <2>1. IplStart(u, u, nss) /\ u \in alive /\ u \in Tasks
      BY <1>0, <1>11 DEF cmd_ipl, Free, ControlType, Tasks
  <2> QED BY <2>1, IplStartLoad
<1> QED BY <1>1, <1>2, <1>3, <1>4, <1>5, <1>6, <1>7, <1>8, <1>9, <1>10, <1>11 DEF Next

\* A saved system that was loaded, and that neither its user nor itself has changed
\* since, is complete (guest_ipl_nss, __copy_segment): every byte of its segments
\* is at its address and the rest of the storage is zero, for every system whose
\* segments do not overlap and every storage, however the tasks that load, switch
\* and execute commands are interleaved.
THEOREM SystemsArriveWhole == Spec => []LoadedSystemIntact
<1>1. Init => LoadInv
    BY DEF Init, LoadInv, LoadOK
<1>2. IndInv /\ LoadInv => LoadedSystemIntact
  <2> SUFFICES ASSUME IndInv, LoadInv, NEW u \in Users, loaded[u] # "none", ~Loading(u),
                      NEW a \in 0..(PAGE * Len(guest_pages[u]) - 1), a < LIMIT
               PROVE  GuestByte(u, a) = Contents[loaded[u]][a]
      BY DEF LoadedSystemIntact
  <2>1. StorageInv
      BY DEF IndInv
  <2>2. a \in Nat
      BY <2>1, StorageBound
  <2>3. \A t \in Tasks : ~Loader(t, u)
      BY DEF Loading, Loader
  <2>4. LoadOK(u)
      BY DEF LoadInv
  <2>5. PICK nss \in DOMAIN Images : nss = loaded[u]
      BY <2>4 DEF LoadOK
  <2> DEFINE k == Len(SegsOf(nss)) + 1
  <2>6. Holds(mem, guest_pages[u], nss, k, 0)
      BY <2>3, <2>4, <2>5 DEF LoadOK
  <2>7. k \in Nat /\ k > Len(SegsOf(nss)) /\ 0 \in Nat
    <3>1. Len(SegsOf(nss)) \in Nat
        BY SegmentsOf DEF SegsOf
    <3> QED BY <3>1
  <2> HIDE DEF k
  <2>8. ByteIn(mem, guest_pages[u], a) = Partial(nss, k, 0, a)
      BY <2>6 DEF Holds
  <2>9. Partial(nss, k, 0, a) = Contents[nss][a]
      BY <2>2, <2>7, AllBefore
  <2> QED BY <2>5, <2>8, <2>9 DEF GuestByte, ByteIn, DAT_BX
<1> QED BY <1>1, <1>2, NextLoad, Invariance, PTL DEF Spec
=============================================================================
