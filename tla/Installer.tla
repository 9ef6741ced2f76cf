------------------------------ MODULE Installer ------------------------------
(***************************************************************************)
(* The installer (src/installer): a stand-alone program, IPLed from a card *)
(* reader, that unloads a cpio archive onto an EDF volume.  It keeps the   *)
(* blocks it reads and changes in storage, in the list block_map, and      *)
(* writes the changed ones back at the end (writeback_buffers); the copies *)
(* of the two boot blocks are written as soon as they are met.             *)
(*                                                                         *)
(* The program is sequential: what it does between two writes to the       *)
(* volume is one action.  It stops (die) on every error; a power failure   *)
(* or an I/O error may stop it between any two actions.  The operators     *)
(* named after a function of the source map the storage m the function     *)
(* finds, [map |-> the list, died |-> die() was called], to what it leaves.*)
(***************************************************************************)
EXTENDS Volume

CONSTANTS Archives,   \* the card decks that may be loaded: sequences of members
          Vacant,     \* the volumes an installer may meet first
          MaxRuns     \* bound: how often the installer is IPLed

VARIABLES phase,      \* where the installer is
          mem,        \* its storage: the list block_map and whether it died
          deck,       \* the archive in the reader
          cards,      \* cards read so far
          dasd_buf,   \* the first fill cells of the buffer at dasd_buf
          runs,       \* installer runs started
          before      \* history: the volume when the run began

ivars == <<phase, mem, deck, cards, dasd_buf, runs, before>>

NoBuf == <<>>
Fresh == [map |-> <<>>, died |-> FALSE]

Die(m) == [m EXCEPT !.died = TRUE]

-----------------------------------------------------------------------------
(* The block map: src/installer/edf.c.                                     *)

block_map_find(m, fn, level, blk) ==
  SelectInSeq(m.map, LAMBDA e : e.fn = fn /\ e.level = level /\ e.blk = blk)

block_map_add(m, fn, level, blk, lba) ==
  LET Add(i) ==
        IF m.died \/ (i # 0 /\ m.map[i].lba = lba) THEN m
        ELSE IF i # 0 THEN Die(m)
        ELSE [m EXCEPT !.map = <<[fn |-> fn, level |-> level, blk |-> blk,
                                  lba |-> lba, buf |-> NoBuf,
                                  dirty |-> FALSE]>> \o @]
  IN  Add(block_map_find(m, fn, level, blk))

\* read_file_blk brings the block into storage...
read_file_blk(dk, m, fn, level, blk) ==
  LET Read(i) ==
        IF m.died \/ (i # 0 /\ m.map[i].buf # NoBuf) THEN m
        ELSE IF i = 0 \/ m.map[i].lba < 1 THEN Die(m)
        ELSE [m EXCEPT !.map[i].buf = At(dk, m.map[i].lba)]
  IN  Read(block_map_find(m, fn, level, blk))

\* ...and this is the buffer it returns.
Buf(m, fn, level, blk) ==
  LET Of(i) == IF i = 0 \/ m.map[i].buf = NoBuf THEN BlankBlock ELSE m.map[i].buf
  IN  Of(block_map_find(m, fn, level, blk))

\* Store cells into a block that is in storage and blk_set_dirty it; the
\* mutant never writes the allocation map back.
MapNotDirty(m, i, new) ==
  IF m.died THEN m
  ELSE [m EXCEPT !.map[i].buf = new @@ @, !.map[i].dirty = m.map[i].fn # ALLOCMAP]
blk_set_dirty(m, i, new) ==
  IF m.died THEN m
  ELSE [m EXCEPT !.map[i].buf = new @@ @, !.map[i].dirty = TRUE]

Put(dk, m, fn, level, blk, new) ==
  LET Store(r) == blk_set_dirty(r, block_map_find(r, fn, level, blk), new)
  IN  Store(read_file_blk(dk, m, fn, level, blk))

\* The pointers directory and allocmap point into the first directory block.
directory(m) == Buf(m, DIRECTOR, 0, 0)[0]
allocmap(m)  == Buf(m, DIRECTOR, 0, 0)[1]

file_blocks_at_level(adbc, level) == (adbc + PTRS^level - 1) \div PTRS^level

\* All the data blocks of the directory or of the map are in storage.
ReadAll(dk, m, fn, adbc) ==
  FoldLeft(LAMBDA x, b : read_file_blk(dk, x, fn, 0, b - 1), m,
           [b \in 1..adbc |-> b])

\* The slots of the directory blocks that hold the name, used or not.
Slots(m, fn) ==
  LET Holds(c) == IsFst(c) /\ c.name = fn
  IN  {n \in 0..(directory(m).adbc * NFST - 1) :
         Holds(Buf(m, DIRECTOR, 0, n \div NFST)[n % NFST])}

find_file(m, fn) == Slots(m, fn) # {}

update_directory(dk, m, fst) ==
  LET Update(slots) ==
        IF m.died \/ slots = {} THEN Die(m)
        ELSE Put(dk, m, DIRECTOR, 0, Min(slots) \div NFST,
                 (Min(slots) % NFST) :> fst)
  IN  Update(Slots(m, fst.name))

__read_file(dk, m, fst) ==
  LET AddPtrs(r, level, i) ==
        FoldLeft(LAMBDA y, j :
                   block_map_add(y, fst.name, level - 1, (i * PTRS) + (j - 1),
                     PtrOf(Buf(r, fst.name, level, i)[j - 1])),
                 r, [j \in 1..PTRS |-> j])
      Level(x, level, blocks) ==
        IF level = fst.nlvl /\ blocks # 1 THEN Die(x)
        ELSE FoldLeft(LAMBDA y, i :
                        AddPtrs(read_file_blk(dk, y, fst.name, level, i - 1),
                                level, i - 1),
                      x, [i \in 1..blocks |-> i])
  IN  FoldLeft(LAMBDA x, level :
                 Level(x, level, file_blocks_at_level(fst.adbc, level)),
               block_map_add(m, fst.name, fst.nlvl, 0, fst.fop),
               [n \in 1..fst.nlvl |-> fst.nlvl + 1 - n])

\* The first bit that is off in the allocation map; [m, lba].
__get_free_block(dk, m) ==
  LET Slice(r, n) == BitsOf(Buf(r, ALLOCMAP, 0, n \div (DBSIZ * W))
                              [(n \div W) % DBSIZ])
      Free(r) == {n \in 0..(allocmap(r).adbc * DBSIZ * W - 1) :
                    (n % W) \notin Slice(r, n)}
      Take(r, n) ==
        [m |-> Put(dk, r, ALLOCMAP, 0, n \div (DBSIZ * W),
                   ((n \div W) % DBSIZ) :> [bits |-> Slice(r, n) \cup {n % W}]),
         lba |-> n + 1]
      Get(r, free) == IF r.died \/ free = {} THEN [m |-> Die(r), lba |-> 0]
                      ELSE Take(r, Min(free))
      In(r) == Get(r, Free(r))
  IN  In(ReadAll(dk, m, ALLOCMAP, allocmap(m).adbc))

\* One turn of the loop over the levels: the block the file needs at lvl.
\* a is [m, fst, prev, done]: prev is the block added one level down.
AppendAtLevel(dk, a, lvl, blk) ==
  LET fst == a.fst
      x == file_blocks_at_level(fst.adbc + 1, lvl - 1) % PTRS
      Ptr(m, i) == Put(dk, m, fst.name, lvl, blk - 1, i :> [ptr |-> a.prev])
      Added(m) == IF lvl = 0 THEN m ELSE Ptr(m, 0)
      Grow(g) == [a EXCEPT !.m = Added(block_map_add(g.m, fst.name, lvl, blk - 1, g.lba)),
                           !.prev = g.lba]
  IN  IF a.done \/ a.m.died THEN a
      ELSE IF block_map_find(a.m, fst.name, lvl, blk - 1) = 0
      THEN Grow(__get_free_block(dk, a.m))
      ELSE IF lvl = 0 THEN [a EXCEPT !.m = Die(@)]
      ELSE [a EXCEPT !.m = Ptr(@, x - 1), !.fst.adbc = @ + 1, !.done = TRUE]

__append_block(dk, m, fst) ==
  LET top == fst.nlvl + 1
      First(g) ==
        [m |-> block_map_add(g.m, fst.name, 0, 0, g.lba),
         fst |-> [fst EXCEPT !.adbc = 1, !.nlvl = 0, !.fop = g.lba]]
      Top(g, prev) ==
        [m |-> Put(dk, block_map_add(g.m, fst.name, top, 0, g.lba), fst.name, top, 0,
                   (0 :> [ptr |-> fst.fop]) @@ (1 :> [ptr |-> prev])),
         fst |-> [fst EXCEPT !.fop = g.lba, !.nlvl = top, !.adbc = @ + 1]]
      End(a) == IF a.done \/ a.m.died THEN [m |-> a.m, fst |-> a.fst]
                ELSE Top(__get_free_block(dk, a.m), a.prev)
  IN  IF fst.adbc = 0 THEN First(__get_free_block(dk, m))
      ELSE End(FoldLeft(LAMBDA a, lvl :
                          AppendAtLevel(dk, a, lvl - 1,
                                        file_blocks_at_level(fst.adbc + 1, lvl - 1)),
                        [m |-> m, fst |-> fst, prev |-> 0, done |-> FALSE],
                        [lvl \in 1..top |-> lvl]))

\* rec is the record's cells, 1..LRECL.
append_record(dk, m, fst, rec) ==
  LET lrecl == fst.lrecl
      foff == fst.aic * lrecl
      blk == foff \div DBSIZ
      off == foff % DBSIZ
      rem == (fst.adbc * DBSIZ) - foff
      n1 == IF rem = 0 \/ rem >= lrecl THEN lrecl ELSE rem
      One(x) == Put(dk, x, fst.name, 0, blk,
                    [c \in off..(off + n1 - 1) |-> rec[c - off + 1]])
      Two(x) == IF n1 = lrecl THEN x
                ELSE Put(dk, x, fst.name, 0, blk + 1,
                         [c \in 0..(lrecl - n1 - 1) |-> rec[n1 + c + 1]])
      Counted(x, f) == [m |-> update_directory(dk, x, f), fst |-> f]
      Fill(g) == Counted(Two(One(g.m)), [g.fst EXCEPT !.aic = @ + 1])
  IN  Fill(IF rem < lrecl THEN __append_block(dk, m, fst) ELSE [m |-> m, fst |-> fst])

create_file(dk, m, fn, lrecl) ==
  append_record(dk, m, directory(m), <<Fst(fn, lrecl, 0, 0, 0, 0)>>).m

\* The label of a formatted volume is [dop |-> origin of the directory].
HasLabel(dk) == DOMAIN At(dk, EDF_LABEL_BLOCK_NO)[0] = {"dop"}

mount_fs(dk) ==
  LET IsDir(d, a) == /\ IsFst(d) /\ d.name = DIRECTOR
                     /\ IsFst(a) /\ a.name = ALLOCMAP
      Rest(m, d, a) == IF IsDir(d, a) THEN __read_file(dk, __read_file(dk, m, d), a)
                       ELSE Die(m)
      First(m) == Rest(m, directory(m), allocmap(m))
  IN  IF ~HasLabel(dk) THEN Die(Fresh)
      ELSE First(read_file_blk(dk,
                   block_map_add(Fresh, DIRECTOR, 0, 0,
                                 At(dk, EDF_LABEL_BLOCK_NO)[0].dop),
                   DIRECTOR, 0, 0))

-----------------------------------------------------------------------------
(* The archive: src/installer/cpio.c.                                      *)

CARD == 4     \* cells of a card (80 bytes in the code)
HDR == 3      \* cells of a cpio header (76 bytes in the code)
TRAILER == "TRAILER!!!"

\* Mutant of Row: boot blocks behind the allocation map, not in front.
RowBehind(fn, lrecl, text, lba) ==
  [fn |-> fn, lrecl |-> lrecl, text |-> text, lba |-> IF lba = 0 THEN 0 ELSE lba + MAP0]
Row(fn, lrecl, text, lba) == [fn |-> fn, lrecl |-> lrecl, text |-> text, lba |-> lba]
table ==
  [arch \in {"hvf.directory", "system.config", "hvf", "eckd.rto", "loader.rto", "8ball"} |->
     CASE arch = "hvf.directory" -> Row("HVF DIRECT", 3, TRUE, 0)
       [] arch = "system.config" -> Row("SYSTEM CONFIG", 3, TRUE, 0)
       [] arch = "hvf" -> Row("HVF ELF", DBSIZ, FALSE, 0)
       [] arch = "eckd.rto" -> Row("ECKDLOAD BIN", DBSIZ, FALSE, 1)
       [] arch = "loader.rto" -> Row("DASDLOAD BIN", DBSIZ, FALSE, 2)
       [] arch = "8ball" -> Row("8BALL NSS", DBSIZ, FALSE, 0)]

\* A member of an archive is [arch, size]; these are its cells on the cards.
DataOf(mb) == [i \in 1..mb.size |-> [data |-> <<mb.arch, i>>]]
NameSize(arch) == IF arch \in DOMAIN table THEN 2 ELSE 1
Header(mb) == [i \in 1..HDR |-> [namesize |-> NameSize(mb.arch), filesize |-> mb.size]]
Stream(archive) ==
  FoldLeft(LAMBDA acc, mb : acc \o Header(mb)
             \o [i \in 1..NameSize(mb.arch) |-> [arch |-> mb.arch]] \o DataOf(mb),
           <<>>, archive \o <<[arch |-> TRAILER, size |-> 0]>>)

\* readcard until the buffer holds n cells: [buf, cards].
ReadCards(b, pos, n) ==
  LET k == IF Len(b) >= n THEN 0 ELSE ceil_quot(n - Len(b), CARD)
      Deal(all) == [i \in 1..(k * CARD) |->
                      IF pos * CARD + i <= Len(all) THEN all[pos * CARD + i] ELSE Blank]
  IN  [buf |-> b \o Deal(Stream(deck)), cards |-> pos + k]

ascii2ebcdic(c) == IF DOMAIN c = {"data"} THEN [ebcdic |-> c.data] ELSE c

\* A file as it is to be on the volume: converted, padded with zeros to a
\* whole number of records.
Zero == [data |-> 0]
Record(te, data, rec) ==
  [i \in 1..te.lrecl |->
     LET n == (rec * te.lrecl) + i
     IN  IF n > Len(data) THEN Zero
         ELSE IF te.text THEN ascii2ebcdic(data[n]) ELSE data[n]]

\* save_file leaves [m, dk]: a boot block, the first DBSIZ cells of the
\* buffer b whatever follows the file in it, is written at once.
save_file(dk, m, te, size, b) ==
  LET special == te.lba # 0
      Boot(m1) == IF special /\ size <= te.lrecl /\ ~m1.died
                  THEN [dk EXCEPT ![Place(te.lba)] =
                          [c \in Cells |-> IF c < Len(b) THEN b[c + 1] ELSE Blank]]
                  ELSE dk
      Append1(a, d2, rec) ==
        IF a.m.died THEN a
        ELSE append_record(d2, a.m, a.fst, Record(te, SubSeq(b, 1, size), rec))
      Records(m1, d2) ==
        FoldLeft(LAMBDA a, rec : Append1(a, d2, rec - 1),
                 [m |-> m1, fst |-> Fst(te.fn, te.lrecl, 0, 0, 0, 0)],
                 [rec \in 1..ceil_quot(size, te.lrecl) |-> rec]).m
      Fill(m1, d2) == [m |-> IF special /\ size > te.lrecl THEN Die(m1)
                             ELSE Records(m1, d2),
                       dk |-> d2]
      Made(m1) == Fill(m1, Boot(m1))
      Check(r) == IF r.died \/ find_file(r, te.fn) THEN [m |-> Die(r), dk |-> dk]
                  ELSE Made(create_file(dk, r, te.fn, te.lrecl))
  IN  Check(ReadAll(dk, m, DIRECTOR, directory(m).adbc))

-----------------------------------------------------------------------------
(* load_nucleus of src/installer/loader_c.c, one action per thing it does. *)

Stop == /\ phase' = "stopped"
        /\ mem' = Fresh
        /\ dasd_buf' = <<>>
        /\ cards' = 0

\* IPL from the reader: greet the operator and wait for an answer.
IplInstaller(archive) ==
  /\ phase \in {"off", "stopped", "complete"}
  /\ runs < MaxRuns
  /\ phase' = "ask"
  /\ deck' = archive
  /\ cards' = 0
  /\ dasd_buf' = <<>>
  /\ mem' = Fresh
  /\ runs' = runs + 1
  /\ before' = disk
  /\ UNCHANGED disk

\* The device the operator names is not there, is no DASD, or is one: what
\* the search of the subchannels and Sense ID say of it.
find_devnum(answer) == answer # "nodevice"
dev_dasd(answer) == answer = "dasd"

AskDevice(answer) ==
  /\ phase = "ask"
  /\ phase' = IF find_devnum(answer) /\ dev_dasd(answer) THEN "format" ELSE "ask"
  /\ UNCHANGED <<disk, mem, deck, cards, dasd_buf, runs, before>>

\* Formatting is not implemented: "y" stops the installer.
AskFormat ==
  /\ phase = "format"
  /\ phase' = "mount"
  /\ UNCHANGED <<disk, mem, deck, cards, dasd_buf, runs, before>>

Mount ==
  /\ phase = "mount"
  /\ LET Mounted(m) ==
           IF m.died THEN Stop
           ELSE /\ phase' = "unload"
                /\ mem' = m
                /\ UNCHANGED <<cards, dasd_buf>>
     IN  Mounted(mount_fs(disk))
  /\ UNCHANGED <<disk, deck, runs, before>>

\* One turn of the loop of unload_archive: its header and name have been
\* read (n), its data has been read (d), and it has been dealt with (s).
Save(s, d, filesize) ==
  /\ disk' = s.dk
  /\ IF s.m.died THEN Stop
     ELSE /\ mem' = s.m
          /\ cards' = d.cards
          /\ dasd_buf' = SubSeq(d.buf, filesize + 1, Len(d.buf))
          /\ UNCHANGED phase

Data(arch, d, filesize) ==
  Save(IF arch \in DOMAIN table
       THEN save_file(disk, mem, table[arch], filesize, d.buf)
       ELSE [m |-> mem, dk |-> disk],
       d, filesize)

Name(n, hdr) ==
  IF n.buf[HDR + 1].arch = TRAILER
  THEN /\ phase' = "writeback"
       /\ UNCHANGED <<disk, mem, cards, dasd_buf>>
  ELSE Data(n.buf[HDR + 1].arch,
            ReadCards(SubSeq(n.buf, HDR + hdr.namesize + 1, Len(n.buf)),
                      n.cards, hdr.filesize),
            hdr.filesize)

unload_archive ==
  LET Hdr(h) == Name(ReadCards(h.buf, h.cards, HDR + h.buf[1].namesize), h.buf[1])
  IN  /\ phase = "unload"
      /\ Hdr(ReadCards(dasd_buf, cards, HDR))
      /\ UNCHANGED <<deck, runs, before>>

\* The order in which writeback_buffers visits the list, newest block
\* first; the mutant starts with the oldest.
WritebackOldest(m) == Last(m.map)
WritebackNext(m) == Head(m.map)

\* One turn of the loop of writeback_buffers; a block that has been dealt
\* with leaves the list, which is not used again.
Writeback ==
  /\ phase = "writeback"
  /\ mem.map # <<>>
  /\ LET e == WritebackNext(mem)
     IN  /\ disk' = IF e.dirty THEN [disk EXCEPT ![Place(e.lba)] = e.buf] ELSE disk
         /\ mem' = [mem EXCEPT !.map = SelectSeq(@, LAMBDA x : x # e)]
  /\ UNCHANGED <<phase, deck, cards, dasd_buf, runs, before>>

Complete ==
  /\ phase = "writeback"
  /\ mem.map = <<>>
  /\ phase' = "complete"
  /\ mem' = Fresh
  /\ cards' = 0
  /\ dasd_buf' = <<>>
  /\ UNCHANGED <<disk, deck, runs, before>>

\* A power failure, an I/O error (every one of them ends in die), or the
\* operator answering a question with what stops the installer.
Halt ==
  /\ phase \in {"ask", "format", "mount", "unload", "writeback"}
  /\ Stop
  /\ UNCHANGED <<disk, deck, runs, before>>
=============================================================================
