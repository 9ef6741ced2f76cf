--------------------------------- MODULE Edf ---------------------------------
(***************************************************************************)
(* CP's view of the volume: the file system and the block cache            *)
(* (src/cp/fs/edf.c, src/cp/fs/bcache.c), read by several tasks.           *)
(*                                                                         *)
(* fs->lock covers fs->files and the cache of the directory; file->lock    *)
(* covers the cache of a file in edf_read_rec.  guest_ipl_nss and          *)
(* __copy_segment call bcache_read with no lock: two tasks that IPL the    *)
(* same named saved system walk and extend one list at the same time.      *)
(* A task may be preempted anywhere, so bcache_read is split where it      *)
(* reads or changes the shared list, allocates or waits for the device.    *)
(***************************************************************************)
EXTENDS Volume

CONSTANTS Tasks, Ops,
          MaxFaults     \* bound: allocations and reads that fail

\* Callers ask for printable names; those of the two files of the file
\* system itself are not.
ASSUME EdfAssumption ==
  /\ "none" \notin Tasks
  /\ \A op \in Ops : /\ op.name \notin {DIRECTOR, ALLOCMAP}
                      /\ \/ op.kind = "nss"
                         \/ op.kind = "rec" /\ op.recno \in Nat

VARIABLES up,       \* "down", "mounted" or "failed"
          files,    \* fs->files: file objects, the directory first
          fslock,   \* holder of fs->lock, or None
          task,     \* what each task is doing
          faults    \* how many allocations and reads have failed

evars == <<up, files, fslock, task, faults>>

\* A step that may fail does, as far as the bound allows.
Fault(failed) ==
  /\ failed => faults < MaxFaults
  /\ faults' = IF failed THEN faults + 1 ELSE faults

None == "none"
Idle == [pc |-> "idle", op |-> None, file |-> 0, cont |-> None, frames |-> <<>>,
         lba |-> 0, tail |-> 0, bad |-> FALSE, want |-> <<>>, got |-> <<>>,
         res |-> [err |-> None, cells |-> <<>>]]

NoData == <<>>
Junk == [c \in Cells |-> [junk |-> c]]

\* A file: its FST, the entries of its cache, the ones a walk of the list
\* from its head meets, the entry the head calls the last, and the lock.
File(fst) == [fst |-> fst, ents |-> <<>>, list |-> <<>>, last |-> 0, lock |-> None]

\* list_add_tail behind the entry tail (0 is the head), which was the last
\* when it was looked at: what has been linked behind tail since then is not
\* met any more, and an entry behind one that is not met is not met either.
ListAddTail(list, tail, new) ==
  LET p == IF tail = 0 THEN 0 ELSE SelectInSeq(list, LAMBDA e : e = tail)
  IN  IF tail # 0 /\ p = 0 THEN list ELSE Append(SubSeq(list, 1, p), new)

__bcache_add(file, level, blk, lba, bad, tail) ==
  LET new == Len(file.ents) + 1
  IN  [file EXCEPT !.ents = Append(@, [level |-> level, blk |-> blk, lba |-> lba,
                                       data |-> NoData, bad |-> bad]),
                   !.list = ListAddTail(@, tail, new),
                   !.last = new]

EInit ==
  /\ up = "down"
  /\ files = <<>>
  /\ fslock = None
  /\ task = [t \in Tasks |-> Idle]
  /\ faults = 0

-----------------------------------------------------------------------------
(* edf_mount and __init_dir: read the label and the first directory block. *)

GoodLabel == DOMAIN At(disk, EDF_LABEL_BLOCK_NO)[0] = {"dop"}
Dop == At(disk, EDF_LABEL_BLOCK_NO)[0].dop
GoodDirectory ==
  /\ IsFst(At(disk, Dop)[0]) /\ At(disk, Dop)[0].name = DIRECTOR
  /\ IsFst(At(disk, Dop)[1]) /\ At(disk, Dop)[1].name = ALLOCMAP

edf_mount(readable) ==
  /\ up = "down"
  /\ Fault(~readable)
  /\ IF readable /\ GoodLabel /\ GoodDirectory
     THEN /\ up' = "mounted"
          /\ files' = <<__bcache_add(File(At(disk, Dop)[0]), 0, 0, Dop, FALSE, 0)>>
     ELSE /\ up' = "failed"
          /\ UNCHANGED files
  /\ UNCHANGED <<disk, fslock, task>>

-----------------------------------------------------------------------------
(* edf_lookup.                                                             *)

Cached(name) == SelectInSeq(files, LAMBDA f : f.fst.name = name)

Done(k, err, cells) == [Idle EXCEPT !.pc = "done", !.op = k.op, !.bad = k.bad,
                                    !.res = [err |-> err, cells |-> cells]]

\* Go on to bcache_read the first of the blocks want of a file.
Reading(k, file, cont, want) ==
  [k EXCEPT !.pc = "search", !.file = file, !.cont = cont, !.want = want,
            !.frames = <<[level |-> 0, blk |-> Head(want), ent |-> 0]>>]

edf_lookup(t, op, storage) ==
  /\ up = "mounted"
  /\ task[t].pc = "idle"
  /\ Fault(~storage)
  /\ fslock = None
  /\ LET c == Cached(op.name)
         me == [Idle EXCEPT !.op = op]
     IN  IF c # 0
         THEN /\ task' = [task EXCEPT ![t] = [me EXCEPT !.pc = "open", !.file = c]]
              /\ UNCHANGED <<files, fslock>>
         ELSE IF ~storage
         THEN /\ task' = [task EXCEPT ![t] = Done(me, "ENOMEM", <<>>)]
              /\ UNCHANGED <<files, fslock>>
         ELSE /\ fslock' = t
              /\ files' = Append(files, File(NoFst))
              /\ task' = [task EXCEPT ![t] =
                            Reading(me, 1, "dir", [b \in 1..files[1].fst.adbc |-> b - 1])]
  /\ UNCHANGED <<disk, up>>

\* A directory block has been read: the file's entry is in it, or it is not.
ScanDirectory(t, fs, block, bad) ==
  LET k == [task[t] EXCEPT !.bad = @ \/ bad]
      hits == {i \in 0..(NFST - 1) : IsFst(block[i]) /\ block[i].name = k.op.name}
      rest == Tail(k.want)
  IN  IF hits # {}
      THEN /\ files' = [fs EXCEPT ![Len(fs)].fst = block[Min(hits)]]
           /\ fslock' = None
           /\ task' = [task EXCEPT ![t] = [Idle EXCEPT !.pc = "open", !.op = k.op,
                                             !.file = Len(fs), !.bad = k.bad]]
      ELSE IF rest # <<>>
      THEN /\ files' = fs
           /\ task' = [task EXCEPT ![t] = Reading(k, 1, "dir", rest)]
           /\ UNCHANGED fslock
      ELSE /\ files' = Front(fs)
           /\ fslock' = None
           /\ task' = [task EXCEPT ![t] = Done(k, "ENOENT", <<>>)]

-----------------------------------------------------------------------------
(* What the callers do with a block, or with an error.                     *)

Flatten(bs) == [i \in 1..(Len(bs) * DBSIZ) |-> bs[((i - 1) \div DBSIZ) + 1][(i - 1) % DBSIZ]]

\* edf_read_rec leaves the record, __copy_segment the file.
Result(k, blocks) ==
  LET fst == files[k.file].fst
      off == IF k.cont = "rec" THEN (k.op.recno * fst.lrecl) % DBSIZ ELSE 0
      len == IF k.cont = "rec" THEN fst.lrecl ELSE fst.aic * fst.lrecl
  IN  SubSeq(Flatten(blocks), off + 1, off + len)

Unlock(fs, k) == IF k.cont = "rec" THEN [fs EXCEPT ![k.file].lock = None] ELSE fs

Deliver(t, fs, block, bad) ==
  LET k == [task[t] EXCEPT !.bad = @ \/ bad]
      got == Append(k.got, block)
      rest == Tail(k.want)
  IN  /\ UNCHANGED fslock
      /\ IF rest # <<>>
         THEN /\ files' = fs
              /\ task' = [task EXCEPT ![t] =
                            Reading([k EXCEPT !.got = got], k.file, k.cont, rest)]
         ELSE /\ files' = Unlock(fs, k)
              /\ task' = [task EXCEPT ![t] = Done(k, "0", Result(k, got))]

\* bcache_read returns a block: to itself one level down, or to its caller.
Return(t, fs, block, bad) ==
  LET k == task[t]
      up1 == Front(k.frames)
  IN  IF up1 # <<>>
      THEN /\ task' = [task EXCEPT ![t] =
                         [k EXCEPT !.pc = "add", !.frames = up1,
                                   !.lba = PtrOf(block[Last(up1).blk % PTRS]),
                                   !.bad = @ \/ bad]]
           /\ files' = fs
           /\ UNCHANGED fslock
      ELSE IF k.cont = "dir" THEN ScanDirectory(t, fs, block, bad)
      ELSE Deliver(t, fs, block, bad)

\* An error goes up through every level to the caller, which gives up.
Fail(t, err, bad) ==
  LET k == [task[t] EXCEPT !.bad = @ \/ bad]
  IN  /\ task' = [task EXCEPT ![t] = Done(k, err, <<>>)]
      /\ files' = IF k.cont = "dir" THEN Front(files) ELSE Unlock(files, k)
      /\ fslock' = IF k.cont = "dir" THEN None ELSE fslock

-----------------------------------------------------------------------------
(* edf_read_rec and guest_ipl_nss.                                         *)

edf_read_rec(t) ==
  /\ task[t].pc = "open"
  /\ task[t].op.kind = "rec"
  /\ LET k == task[t]
         f == files[k.file]
         blk == (k.op.recno * f.fst.lrecl) \div DBSIZ
         off == (k.op.recno * f.fst.lrecl) % DBSIZ
     IN  /\ f.lock = None
         /\ IF f.fst.nlvl # 0 \/ f.fst.lrecl > DBSIZ \/ k.op.recno >= f.fst.aic
            THEN /\ task' = [task EXCEPT ![t] = Done(k, "EINVAL", <<>>)]
                 /\ UNCHANGED files
            ELSE /\ files' = [files EXCEPT ![k.file].lock = t]
                 /\ task' = [task EXCEPT ![t] =
                      Reading(k, k.file, "rec",
                        IF off + f.fst.lrecl > DBSIZ THEN <<blk, blk + 1>> ELSE <<blk>>)]
  /\ UNCHANGED <<disk, up, fslock, faults>>

\* The header is in the first block; __copy_segment reads on to the end.
guest_ipl_nss(t) ==
  /\ task[t].pc = "open"
  /\ task[t].op.kind = "nss"
  /\ LET n == files[task[t].file].fst.adbc
     IN  task' = [task EXCEPT ![t] =
           Reading(@, @.file, "nss", [b \in 1..(IF n = 0 THEN 1 ELSE n) |-> b - 1])]
  /\ UNCHANGED <<disk, up, files, fslock, faults>>

-----------------------------------------------------------------------------
(* bcache_read, step by step.                                              *)

\* The entry for a block at a level; the mutant forgets the level.
AnyLevelHit(e, level, blk) == e.blk = blk
Hit(e, level, blk) == e.level = level /\ e.blk = blk

bcache_search(t) ==
  /\ task[t].pc = "search"
  /\ LET k == task[t]
         f == files[k.file]
         top == Last(k.frames)
         i == SelectInSeq(f.list, LAMBDA e : Hit(f.ents[e], top.level, top.blk))
         n == Len(k.frames)
     IN  task' = [task EXCEPT ![t] =
           IF i # 0 THEN [@ EXCEPT !.pc = "found", !.frames[n].ent = f.list[i]]
           ELSE IF top.level = f.fst.nlvl
           THEN [@ EXCEPT !.pc = "add", !.lba = f.fst.fop, !.frames[n].blk = 0]
           ELSE [@ EXCEPT !.frames = Append(k.frames, [level |-> top.level + 1,
                                                       blk |-> top.blk \div PTRS,
                                                       ent |-> 0])]]
  /\ UNCHANGED <<disk, up, files, fslock, faults>>

\* __bcache_add has its storage, and list_add_tail has read the list's tail...
bcache_tail(t) ==
  /\ task[t].pc = "add"
  /\ task' = [task EXCEPT ![t].pc = "link", ![t].tail = files[task[t].file].last]
  /\ UNCHANGED <<disk, up, files, fslock, faults>>

\* ...and links the entry behind it.
bcache_link(t) ==
  /\ task[t].pc = "link"
  /\ LET k == task[t]
         top == Last(k.frames)
     IN  /\ files' = [files EXCEPT ![k.file] =
                        __bcache_add(@, top.level, top.blk, k.lba, k.bad, k.tail)]
         /\ task' = [task EXCEPT ![t].pc = "found", ![t].lba = 0, ![t].tail = 0,
                       ![t].frames[Len(k.frames)].ent = Len(files[k.file].ents) + 1]
  /\ UNCHANGED <<disk, up, fslock, faults>>

\* found: the data is there, or a page for it has been allocated.
bcache_found(t) ==
  /\ task[t].pc = "found"
  /\ UNCHANGED faults
  /\ LET e == files[task[t].file].ents[Last(task[t].frames).ent]
     IN  IF e.data # NoData THEN Return(t, files, e.data, e.bad)
         ELSE /\ task' = [task EXCEPT ![t].pc = "io"]
              /\ UNCHANGED <<files, fslock>>
  /\ UNCHANGED <<disk, up>>

\* bdev_read_block and d3390_read return.  The status the device presents
\* is in ioop.err, which is dropped: a failed read looks like a good one
\* and leaves in the buffer what was there.
bcache_io(t, good) ==
  /\ task[t].pc = "io"
  /\ Fault(~good)
  /\ LET k == task[t]
         n == Last(k.frames).ent
         e == files[k.file].ents[n]
         block == IF good THEN At(disk, e.lba) ELSE Junk
     IN  IF e.lba < 1 THEN Fail(t, "EINVAL", e.bad)
         ELSE Return(t, [files EXCEPT ![k.file].ents[n].data = block,
                                      ![k.file].ents[n].bad = e.bad \/ ~good],
                     block, e.bad \/ ~good)
  /\ UNCHANGED <<disk, up>>

\* There is no storage for an entry or a page, or the I/O was refused.
bcache_fail(t) ==
  /\ task[t].pc \in {"add", "found", "io"}
  /\ Fault(TRUE)
  /\ task[t].pc = "found" =>
       files[task[t].file].ents[Last(task[t].frames).ent].data = NoData
  /\ Fail(t, IF task[t].pc = "io" THEN "EIO" ELSE "ENOMEM", FALSE)
  /\ UNCHANGED <<disk, up>>

EStep(t) ==
  \/ \E op \in Ops, storage \in BOOLEAN : edf_lookup(t, op, storage)
  \/ edf_read_rec(t)
  \/ guest_ipl_nss(t)
  \/ bcache_search(t)
  \/ bcache_tail(t)
  \/ bcache_link(t)
  \/ bcache_found(t)
  \/ \E good \in BOOLEAN : bcache_io(t, good)
  \/ bcache_fail(t)
=============================================================================
