------------------------------- MODULE Volume -------------------------------
(***************************************************************************)
(* A 3390 volume with an EDF file system, as the installer writes it and   *)
(* the loader and CP read it (src/installer/loader.h, src/cp/include/edf.h,*)
(* src/installer/loader_c.c, src/cp/drivers/dasd.c).                       *)
(*                                                                         *)
(* A block is a function on the cells 0..DBSIZ-1.  A cell is a record: a   *)
(* file status table entry (FST), a block pointer [ptr], a slice of the    *)
(* allocation map [bits] (the set of bits that are on, out of W) or a unit *)
(* of a file's data.  In the code FST entries, pointers and bytes have        *)
(* different sizes and a block holds NFST, DBSIZ/4 and DBSIZ of them; here *)
(* every block holds DBSIZ of each.                                        *)
(***************************************************************************)
EXTENDS Integers, Sequences, FiniteSets, SequencesExt, FiniteSetsExt

CONSTANTS DBSIZ,    \* cells of a block
          W,        \* bits of the allocation map in a cell (8 in the code)
          NBLOCKS   \* blocks of the volume that are modelled

VARIABLE disk       \* the volume: place -> block

ASSUME VolumeAssumption ==
  /\ DBSIZ \in Nat /\ DBSIZ >= 3
  /\ W \in Nat \ {0}
  /\ NBLOCKS \in 5..(DBSIZ * W)

Cells == 0..(DBSIZ - 1)

\* Pointers in a block: DBSIZ / 4 and DBSIZ / fst->PTRSZ in the code.
PTRS == DBSIZ
NFST == DBSIZ

\* What a cell holds that nobody has written.
Blank == [blank |-> 0]
BlankBlock == [i \in Cells |-> Blank]

EDF_LABEL_BLOCK_NO == 3
DOP0 == 4           \* where CMS FORMAT put the directory and the map
MAP0 == 5

DIRECTOR == "DIRECTOR"
ALLOCMAP == "ALLOCMAP"

Fst(name, lrecl, fop, adbc, aic, nlvl) ==
  [name |-> name, lrecl |-> lrecl, fop |-> fop, adbc |-> adbc, aic |-> aic,
   nlvl |-> nlvl]
NoFst == Fst("", 0, 0, 0, 0, 0)
IsFst(c) == DOMAIN c = DOMAIN NoFst
PtrOf(c) == IF DOMAIN c = {"ptr"} THEN c.ptr ELSE 0
BitsOf(c) == IF DOMAIN c = {"bits"} THEN c.bits ELSE {}

-----------------------------------------------------------------------------
(* Where a block is: <<cylinder, head, record>>.  The installer and the    *)
(* loader have the geometry built in; CP asks the device for the number of *)
(* tracks of a cylinder and computes the records of a track.               *)

RECORDS_PER_TRACK == 12
RECORDS_PER_CYL == 15 * 12

Chs(lba, rpc, rpt) ==
  LET n == lba - 1
  IN  <<n \div rpc, (n % rpc) \div rpt, ((n % rpc) % rpt) + 1>>

Place(lba) == Chs(lba, RECORDS_PER_CYL, RECORDS_PER_TRACK)

ceil_quot(d1, d2) == (d1 + (d2 - 1)) \div d2

d3390_recs_per_track(kl, dl) ==
  LET dn == ceil_quot(dl + 6, 232) + 1
      kn == ceil_quot(kl + 6, 232) + 1
      key == IF kl = 0 THEN 0 ELSE 9 + ceil_quot(kl + 6 * kn, 34)
  IN  1729 \div (10 + 9 + key + ceil_quot(dl + 6 * dn, 34))

\* The tracks of a cylinder a 3390 reports to Read Device Characteristics.
EckdTracks == 15
EckdRecs == d3390_recs_per_track(0, 4096)
CPPlace(lba) == Chs(lba, EckdTracks * EckdRecs, EckdRecs)

\* CP looks for a block where the installer put it, on any cylinder, and
\* two blocks are never in the same place.
ASSUME GeometryAssumption ==
  /\ \A lba \in 1..(4 * RECORDS_PER_CYL) : CPPlace(lba) = Place(lba)
  /\ Cardinality({Place(lba) : lba \in 1..(4 * RECORDS_PER_CYL)})
       = 4 * RECORDS_PER_CYL

Places == {Place(lba) : lba \in 1..NBLOCKS}

-----------------------------------------------------------------------------
(* The reference reading of a volume: what the directory says, with the    *)
(* blocks of each file found through its pointer blocks.                   *)

At(dk, lba) == IF Place(lba) \in DOMAIN dk THEN dk[Place(lba)] ELSE BlankBlock

\* The number of blocks of a file at a level: one for PTRS of those below.
BlocksAt(fst) ==
  LET n[lvl \in 0..fst.nlvl] ==
        IF lvl = 0 THEN fst.adbc ELSE ceil_quot(n[lvl - 1], PTRS)
  IN  n

\* The blocks of a file at a level, top level first.
LevelBlocks(dk, fst) ==
  LET level[lvl \in 0..fst.nlvl] ==
        IF lvl = fst.nlvl THEN <<fst.fop>>
        ELSE [b \in 1..BlocksAt(fst)[lvl] |->
                PtrOf(At(dk, level[lvl + 1][((b - 1) \div PTRS) + 1])[(b - 1) % PTRS])]
  IN  level

DataBlocks(dk, fst) == LevelBlocks(dk, fst)[0]

AllBlocks(dk, fst) ==
  FoldSet(LAMBDA lvl, acc : LevelBlocks(dk, fst)[lvl] \o acc, <<>>, 0..fst.nlvl)

\* The records of a file, one after the other.
Contents(dk, fst) ==
  [i \in 1..(fst.aic * fst.lrecl) |->
     At(dk, DataBlocks(dk, fst)[((i - 1) \div DBSIZ) + 1])[(i - 1) % DBSIZ]]

DirFst(dk) == At(dk, DOP0)[0]
MapFst(dk) == At(dk, DOP0)[1]

\* The entries of the directory, the two of the file system included.
Entries(dk) == {e \in Range(Contents(dk, DirFst(dk))) : IsFst(e)}
FilesOf(dk) == {e \in Entries(dk) : e.name \notin {DIRECTOR, ALLOCMAP}}

\* What a reader can learn of the volume: each file and what it holds.
Catalog(dk) == {<<e.name, e.lrecl, Contents(dk, e)>> : e \in FilesOf(dk)}

\* A file can be read: it has one block at the top, every block is there,
\* and its records are in them.  An empty file has no block.
FileSound(dk, fst) ==
  /\ {fst.lrecl, fst.fop, fst.adbc, fst.aic, fst.nlvl} \subseteq Nat
  /\ fst.aic * fst.lrecl <= fst.adbc * DBSIZ
  /\ IF fst.adbc = 0
     THEN fst.fop = 0 /\ fst.nlvl = 0 /\ fst.aic = 0
     ELSE /\ BlocksAt(fst)[fst.nlvl] = 1
          /\ \A lvl \in 0..fst.nlvl : \A b \in 1..BlocksAt(fst)[lvl] :
               LevelBlocks(dk, fst)[lvl][b] \in Nat \ {0}

\* The label leads to the directory, no entry is past the end of it, and
\* every file can be read.
VolumeSound(dk) ==
  LET dir == DirFst(dk)
  IN  /\ At(dk, EDF_LABEL_BLOCK_NO)[0] = [dop |-> DOP0]
      /\ IsFst(dir) /\ FileSound(dk, dir)
      /\ dir.adbc > 0 /\ DataBlocks(dk, dir)[1] = DOP0
      /\ \A b \in 1..dir.adbc, c \in Cells :
           LET e == At(dk, DataBlocks(dk, dir)[b])[c]
           IN  IsFst(e) => e \in Entries(dk)
      /\ \A e \in FilesOf(dk) : FileSound(dk, e)

\* No block of a file or of the directory is in one of the places.
FilesClear(dk, places) ==
  /\ Place(DOP0) \notin places
  /\ \A f \in FilesOf(dk) \cup {DirFst(dk)} :
       /\ FileSound(dk, f)
       /\ \A lvl \in 0..f.nlvl : \A b \in 1..BlocksAt(f)[lvl] :
            Place(LevelBlocks(dk, f)[lvl][b]) \notin places

\* The blocks the allocation map on the volume marks as used.
Marked(dk) ==
  LET ms == DataBlocks(dk, MapFst(dk))
      Slice(b, i) == {((b - 1) * DBSIZ * W) + (i * W) + bit + 1 :
                        bit \in BitsOf(At(dk, ms[b])[i])}
  IN  UNION {Slice(b, i) : b \in DOMAIN ms, i \in Cells}
=============================================================================
