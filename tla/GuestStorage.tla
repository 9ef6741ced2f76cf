--------------------------- MODULE GuestStorage ---------------------------
(***************************************************************************)
(* The storage of the virtual machines: the frames alloc_guest_storage     *)
(* obtains, the segment and page tables dat_insert_page builds for them    *)
(* (cp/mm/dat.c), and the access to guest storage from CP, which goes      *)
(* through the address space that control register 1 of the host happens   *)
(* to designate (virt2phy_current, LRAG).                                  *)
(*                                                                         *)
(* Host storage is one array of bytes, so that an address that runs past   *)
(* the end of a frame reaches the next frame, as it does in the code.  A   *)
(* table takes one frame; its entries are kept as a function, with 0 (the  *)
(* frame of CP's own low storage) for an entry that is all ones.  The      *)
(* struct virt_sys comes from a fresh slab page, which is zero:            *)
(* guest_create leaves as.segment_table as malloc returns it.              *)
(***************************************************************************)
EXTENDS Integers, Sequences, FiniteSets, SequencesExt

CONSTANTS
    PAGE,       \* PAGE_SIZE, the bytes of a page (4096), and of a disk block
    NPX,        \* the entries of a page table (256)
    NSX,        \* the entries of a segment table (2048)
    NFrames,    \* the frames of the host
    Users,      \* the users of the directory
    Directory   \* their entries; storage is in pages

ASSUME PageAssumption == PAGE \in Nat /\ PAGE > 0 /\ PAGE % 8 = 0
ASSUME FrameAssumption == NFrames \in Nat
ASSUME TableAssumption == NPX \in Nat \ {0} /\ NSX \in Nat \ {0}
ASSUME DirectoryAssumption == \A u \in Users : Directory[u].storage \in Nat \ {0}

VARIABLES
    free,        \* the frames of the page allocator
    mem,         \* the bytes of the host
    tables,      \* the segment and page tables, by the frame they are in
    as,          \* sys->as.segment_table, 0 if the user is not logged on
    guest_pages, \* sys->guest_pages: the frames, the most recently added first
    cr1          \* the segment table that the host's CR 1 designates

storage == <<free, mem, tables, as, guest_pages, cr1>>

FAULT == -1
Frames == 1..(NFrames - 1)
Addresses == 0..(NFrames * PAGE - 1)
NoTable == [i \in {} |-> 0]
\* What a segment table reaches: 2GB.
LIMIT == PAGE * NPX * NSX

Smaller(a, b) == IF a < b THEN a ELSE b
DAT_PAGE(addr) == addr \div PAGE
DAT_SX(addr) == (DAT_PAGE(addr) \div NPX) % NSX
DAT_PX(addr) == DAT_PAGE(addr) % NPX
DAT_BX(addr) == addr % PAGE

\* alloc_pages, as far as this module goes: some frame of those that are free.
alloc_pages(pool) == CHOOSE f \in pool : TRUE

-----------------------------------------------------------------------------
\* Mutant of NextPage: from page 0 upwards.
NextPageUpwards(u) == Len(guest_pages[u])

\* The pages are obtained from the highest address downwards.
NextPage(u) == Directory[u].storage - Len(guest_pages[u]) - 1

\* A table whose entries are all ones.
alloc_table(n) == [i \in 0..(n - 1) |-> 0]

\* dat_insert_page for frame phy: the tables that are missing are made first,
\* in frames of pool; it fails (BUG_ON) if there are too few.
NeedsSegment(u) == as[u] = 0
NeedsTable(u, sx) == NeedsSegment(u) \/ tables[as[u]][sx] = 0

dat_insert_page(u, phy, virt, pool) ==
    LET sx == DAT_SX(virt)
        seg == IF NeedsSegment(u) THEN alloc_pages(pool) ELSE as[u]
        segment == IF NeedsSegment(u) THEN alloc_table(NSX) ELSE tables[seg]
        pt == IF NeedsTable(u, sx) THEN alloc_pages(pool \ {seg}) ELSE segment[sx]
        page == IF NeedsTable(u, sx) THEN alloc_table(NPX) ELSE tables[pt]
    IN  /\ NeedsSegment(u) => pool # {}
        /\ NeedsTable(u, sx) => pool \ {seg} # {}
        /\ free' = pool \ {seg, pt}
        /\ tables' = [tables EXCEPT ![seg] = [segment EXCEPT ![sx] = pt],
                                    ![pt] = [page EXCEPT ![DAT_PX(virt)] = phy]]
        /\ as' = [as EXCEPT ![u] = seg]

\* One turn of alloc_guest_storage.
alloc_guest_storage(u) ==
    LET p == alloc_pages(free)
    IN  /\ free # {}
        /\ dat_insert_page(u, p, NextPage(u) * PAGE, free \ {p})
        /\ guest_pages' = [guest_pages EXCEPT ![u] = <<p>> \o @]
        /\ UNCHANGED <<mem, cr1>>

\* What makes it fail: alloc_pages returns NULL for the page or for a table.
StorageFails(u) ==
    LET sx == DAT_SX(NextPage(u) * PAGE)
        tabs == IF NeedsSegment(u) THEN 2 ELSE IF NeedsTable(u, sx) THEN 1 ELSE 0
    IN  Cardinality(free) < 1 + tabs

\* A page for the console, or for the virtual CPU.
GetPage ==
    /\ free # {} /\ free' = free \ {alloc_pages(free)}
    /\ UNCHANGED <<mem, tables, as, guest_pages, cr1>>

-----------------------------------------------------------------------------
\* Where the tables that start in frame sto take address virt.
Translate(sto, virt) ==
    IF \/ sto = 0 \/ virt < 0 \/ virt >= LIMIT
       \/ tables[sto][DAT_SX(virt)] = 0
       \/ tables[tables[sto][DAT_SX(virt)]][DAT_PX(virt)] = 0
    THEN FAULT
    ELSE tables[tables[sto][DAT_SX(virt)]][DAT_PX(virt)] * PAGE + DAT_BX(virt)

virt2phy_current(virt) == Translate(cr1, virt)

\* __memcpy_tofrom_guest translates the same address in each turn of its loop,
\* so that the part up to the end of the page is transferred over and over: the
\* host address of byte i of the data.
Target(host, i) == host + ((i - 1) % (PAGE - DAT_BX(host)))

memcpy_from_guest(gaddr, len) ==
    LET Copy(host) ==
            IF host = FAULT THEN [ret |-> FAULT, data |-> <<>>]
            ELSE [ret |-> 0, data |-> [i \in 1..len |-> mem[Target(host, i)]]]
    IN  IF len = 0 THEN [ret |-> 0, data |-> <<>>]
        ELSE Copy(virt2phy_current(gaddr))

\* The bytes of the host after data was copied to host address host.
Copied(host, data) ==
    LET Sources(a) == {i \in 1..Len(data) : Target(host, i) = a}
    IN  [a \in Addresses |->
            IF Sources(a) = {} THEN mem[a]
            ELSE data[CHOOSE i \in Sources(a) : \A j \in Sources(a) : j <= i]]

\* memcpy_to_guest; it fails if host is FAULT.
memcpy_to_guest(gaddr, data) ==
    LET host == virt2phy_current(gaddr)
    IN  /\ data # <<>> => host # FAULT
        /\ mem' = IF data = <<>> THEN mem ELSE Copied(host, data)

\* RESET_STORAGE of __perform_cpu_reset.
ResetStorage(u) ==
    mem' = [a \in Addresses |->
              IF \E i \in DOMAIN guest_pages[u] : guest_pages[u][i] = a \div PAGE
              THEN 0 ELSE mem[a]]

\* load_as.
load_as(u) == cr1' = as[u]

\* load_pasce does not load 0.
load_pasce(pasce) == cr1' = IF pasce = 0 THEN cr1 ELSE pasce

-----------------------------------------------------------------------------
StorageInit ==
    /\ free = Frames
    /\ mem = [a \in Addresses |-> 255]      \* what the loader left
    /\ tables = [f \in Frames |-> NoTable]
    /\ as = [u \in Users |-> 0]
    /\ guest_pages = [u \in Users |-> <<>>]
    /\ cr1 = 0

\* The bytes of user u, whatever the tables and CR 1 say: page i of the user is
\* the (i+1)st frame on guest_pages.
InStorage(u, addr) == addr >= 0 /\ addr < PAGE * Len(guest_pages[u])
GuestByte(u, addr) == mem[guest_pages[u][addr \div PAGE + 1] * PAGE + DAT_BX(addr)]

=============================================================================
