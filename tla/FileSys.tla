------------------------------- MODULE FileSys -------------------------------
(***************************************************************************)
(* The life of a volume: the installer is run on it, more than once and    *)
(* with accidents; then the loader (src/loader/loader_c.c) is IPLed from   *)
(* it, reads the nucleus, and CP mounts the file system and reads it.      *)
(***************************************************************************)
EXTENDS Installer, Edf

VARIABLE nucleus    \* the loader: [state, image]: what it has read

vars == <<disk, ivars, evars, nucleus>>

Init ==
  /\ disk \in Vacant
  /\ before = disk
  /\ phase = "off"
  /\ mem = Fresh
  /\ deck = <<>>
  /\ cards = 0
  /\ dasd_buf = <<>>
  /\ runs = 0
  /\ nucleus = [state |-> "none", image |-> <<>>]
  /\ EInit

\* The loader looks at the first directory block only and takes the file's
\* origin for its one pointer block.  The limit on the size of the nucleus
\* is compared with the entry of the directory, the first one in the block.
CP_FN == "HVF ELF"
MAX_NUCLEUS == (3 * PTRS * DBSIZ) \div 4

\* The i-th block of the nucleus, from 1; the mutant stays on the first.
NucleusLbaFirst(ptrbuf, i) == PtrOf(ptrbuf[0])
NucleusLba(ptrbuf, i) == PtrOf(ptrbuf[i - 1])

readnucleus(dk) ==
  LET label == At(dk, EDF_LABEL_BLOCK_NO)[0]
      dir == At(dk, label.dop)
      hits == {i \in 0..(NFST - 1) : IsFst(dir[i]) /\ dir[i].name = CP_FN}
      fst == dir[Min(hits)]
      ptrbuf == At(dk, fst.fop)
      lbas == [i \in 1..fst.aic |-> NucleusLba(ptrbuf, i)]
  IN  IF \/ ~HasLabel(dk) \/ ~IsFst(dir[0]) \/ dir[0].nlvl # 0
         \/ hits = {} \/ fst.lrecl # DBSIZ
         \/ dir[0].aic * dir[0].lrecl > MAX_NUCLEUS
         \/ fst.fop < 1 \/ \E i \in DOMAIN lbas : lbas[i] < 1
      THEN [state |-> "died", image |-> <<>>]
      ELSE [state |-> "loaded", image |-> Flatten([i \in DOMAIN lbas |-> At(dk, lbas[i])])]

\* IPL from the volume, with whatever the installer has left on it.  What
\* the model remembers of the installation is not needed any more.
IplDasd ==
  /\ phase \in {"stopped", "complete"}
  /\ nucleus' = readnucleus(disk)
  /\ phase' = "ipled"
  /\ deck' = <<>>
  /\ runs' = 0
  /\ before' = disk
  /\ UNCHANGED <<disk, mem, cards, dasd_buf, evars>>

IStep ==
  /\ \/ \E archive \in Archives : IplInstaller(archive)
     \/ \E answer \in {"nodevice", "nodasd", "dasd"} : AskDevice(answer)
     \/ AskFormat
     \/ Mount
     \/ unload_archive
     \/ Writeback
     \/ Complete
     \/ Halt
  /\ UNCHANGED <<evars, nucleus>>

CPStep ==
  /\ phase = "ipled"
  /\ nucleus.state = "loaded"
  /\ \/ \E readable \in BOOLEAN : edf_mount(readable)
     \/ \E t \in Tasks : EStep(t)
  /\ UNCHANGED <<ivars, nucleus>>

Next == IStep \/ IplDasd \/ CPStep

Spec == Init /\ [][Next]_vars

-----------------------------------------------------------------------------
(* Properties.  After the IPL nothing writes to the volume: what is said   *)
(* of it is said of the states before.                                     *)

\* What the archive in the reader is to leave on the volume.
Wanted ==
  {LET te == table[mb.arch]
       n == ceil_quot(mb.size, te.lrecl)
   IN  <<te.fn, te.lrecl,
         [i \in 1..(n * te.lrecl) |->
            Record(te, DataOf(mb), (i - 1) \div te.lrecl)[((i - 1) % te.lrecl) + 1]]>> :
   mb \in {x \in Range(deck) : x.arch \in DOMAIN table}}

\* An installation is all or nothing: whenever it stops, the files on the
\* volume are those it found there, or those and the whole archive, with
\* every record in its place; and they are the latter when the installer
\* says that it is complete (writeback_buffers goes from the newest block
\* to the oldest, and the first directory block is the oldest).
CrashSafe ==
  phase # "ipled" /\ HasLabel(disk) =>
    /\ Catalog(disk) \in {Catalog(before), Catalog(before) \cup Wanted}
    /\ phase \in {"ask", "mount", "unload"} => Catalog(disk) = Catalog(before)
    /\ phase = "complete" => Catalog(disk) = Catalog(before) \cup Wanted

\* What is on the volume, in the reader's sense, changes only when
\* writeback_buffers writes a block that a file or the directory is in: new
\* files, the allocation map and the boot blocks, which are written while
\* the archive is unloaded, can be written at any moment.
BootPlaces == {Place(1), Place(2)}
CatalogKept ==
  [][/\ HasLabel(disk)
     /\ Catalog(disk') # Catalog(disk)
     /\ FilesClear(disk, BootPlaces)
     => /\ phase = "writeback"
        /\ ~FilesClear(disk, {Place(WritebackNext(mem).lba)})]_disk

\* At every moment each block the directory on the volume leads to belongs
\* to one file, in one place of it, and is marked as used in the allocation
\* map on the volume: a crash may lose free blocks, it never lets a block be
\* handed out twice.  Every pointer of every file leads to a block, at every
\* level: it can be read to its end.  A crash between two directory blocks
\* may leave entries past the end of the directory, which edf_lookup does
\* not know from others (it looks at every slot of a block), never one while
\* the directory is one block, the only one the loader accepts.
BlocksOwned ==
  phase # "ipled" /\ HasLabel(disk) =>
    /\ \A e \in Entries(disk) : FileSound(disk, e)
    /\ DirFst(disk).nlvl = 0 => VolumeSound(disk)
    /\ LET all == FoldSet(LAMBDA e, acc : AllBlocks(disk, e) \o acc, <<>>, Entries(disk))
       IN  /\ IsInjective(all)
           /\ Range(all) \cup {1, 2, 3} \subseteq Marked(disk)
           /\ Range(all) \cap {1, 2, 3} = {}

Entry(name) == {e \in FilesOf(disk) : e.name = name}

\* What a task reads through the cache is what is on the volume, however the
\* tasks interleave and whichever allocations and reads fail, unless the
\* status of a failed read was dropped on the way (d3390_read); a file is
\* reported missing only when it is, and a record refused only when it is
\* past the end, longer than a block, or in a file with pointer blocks,
\* which edf_read_rec does not support.
ReadsAreFaithful ==
  \A t \in Tasks :
    LET k == task[t]
    IN  k.pc = "done" /\ ~k.bad =>
          \/ k.res.err \in {"ENOMEM", "EIO"}
          \/ k.res.err = "ENOENT" /\ Entry(k.op.name) = {}
          \/ \E e \in Entry(k.op.name) :
               LET rec == k.op.kind = "rec"
                   c == Contents(disk, e)
                   from == IF rec THEN k.op.recno * e.lrecl ELSE 0
                   len == IF rec THEN e.lrecl ELSE Len(c)
               IN  \/ k.res.err = "EINVAL"
                      /\ \/ rec /\ (e.nlvl # 0 \/ e.lrecl > DBSIZ \/ k.op.recno >= e.aic)
                         \/ e.adbc = 0
                   \/ /\ k.res.err = "0"
                      /\ k.res.cells = SubSeq(c, from + 1, from + len)

\* The nucleus the loader enters is the one that was installed, if it has
\* more than one block: the loader takes the block at the file's origin for
\* a pointer block without looking at NLVL.
NucleusLoads ==
  nucleus.state = "loaded" =>
    \E e \in Entry(CP_FN) : e.nlvl = 1 => nucleus.image = Contents(disk, e)
=============================================================================
