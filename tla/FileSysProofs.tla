---------------------------- MODULE FileSysProofs ----------------------------
(***************************************************************************)
(* Proofs about FileSys: what the loader and CP read from a sound volume   *)
(* (VolumeSound) is what is on it, for blocks, volumes and files of every  *)
(* size, any number of tasks and any number of failures.  The invariant    *)
(* says of each entry of a cache for which block of which file it is, and  *)
(* of each task how far it is in the search of a block and which blocks it *)
(* has read; what a volume says of a file is defined by recursion over the *)
(* levels, so that the induction is over the level, by a least             *)
(* counterexample (LeastNumber).                                           *)
(*                                                                         *)
(* Of the installer: none of its writes changes a file, or the directory,  *)
(* unless it is a write of writeback_buffers to one of their blocks.       *)
(***************************************************************************)
EXTENDS FileSys, SequenceTheorems, WellFoundedInduction, TLAPS

-----------------------------------------------------------------------------
(* The blocks of a file, level by level (BlocksAt and LevelBlocks).        *)

\* A set of natural numbers has a least member.
LEMMA LeastNumber ==
    ASSUME NEW T, T \subseteq Nat, T # {}
    PROVE  \E m \in T : \A k \in T : m <= k
<1>1. IsWellFoundedOn(OpToRel(<, Nat), Nat)
    BY NatLessThanWellFounded, Zenon
<1>2. \E x \in T : \A y \in T : ~ (<<y, x>> \in OpToRel(<, Nat))
    BY <1>1, WFMin, Zenon
<1>3. PICK x \in T : \A y \in T : ~ (<<y, x>> \in OpToRel(<, Nat))
    BY <1>2, Zenon
<1>4. ASSUME NEW y \in T PROVE ~(y < x)
  <2>1. ~ (<<y, x>> \in OpToRel(<, Nat)) /\ y \in Nat /\ x \in Nat
      BY <1>3, Zenon
  <2> QED BY <2>1, Zenon DEF OpToRel
<1>5. \E m \in T : \A y \in T : ~(y < m)
    BY <1>3, <1>4, Zenon
<1> QED BY <1>5

\* The equation of BlocksAt.
IsCount(n, f, k) ==
    n = [lvl \in 0..k |-> IF lvl = 0 THEN f.adbc ELSE ceil_quot(n[lvl - 1], PTRS)]

LEMMA CountExists ==
    ASSUME NEW f, NEW k \in Nat
    PROVE  \E n : IsCount(n, f, k)
<1> DEFINE T == {d \in Nat : ~ \E n : IsCount(n, f, d)}
<1>1. SUFFICES ASSUME T # {} PROVE FALSE
    OBVIOUS
<1>2. PICK m \in T : \A d \in T : m <= d
    BY <1>1, LeastNumber
<1>3. CASE m = 0
  <2> DEFINE n == [lvl \in 0..0 |-> f.adbc]
  <2>1. IsCount(n, f, 0)
      BY DEF IsCount
  <2> QED BY <1>3, <2>1
<1>4. CASE m # 0
  <2>1. m \in Nat /\ m - 1 \in Nat /\ m - 1 \notin T
      BY <1>2, <1>4
  <2>2. PICK g : IsCount(g, f, m - 1)
      BY <2>1
  <2> DEFINE n == [lvl \in 0..m |-> IF lvl < m THEN g[lvl] ELSE ceil_quot(g[m - 1], PTRS)]
  <2>3. ASSUME NEW i \in 0..m
        PROVE  n[i] = IF i = 0 THEN f.adbc ELSE ceil_quot(n[i - 1], PTRS)
    <3>1. CASE i = 0
        BY <3>1, <2>1, <2>2, <1>4 DEF IsCount
    <3>2. CASE i # 0
      <4>1. i - 1 \in 0..m /\ i - 1 < m /\ i - 1 \in 0..(m - 1)
          BY <3>2, <2>1
      <4>2. n[i - 1] = g[i - 1]
          BY <4>1
      <4>3. CASE i < m
        <5>1. i \in 0..(m - 1) /\ n[i] = g[i]
            BY <4>3, <2>1
        <5>2. g[i] = ceil_quot(g[i - 1], PTRS)
            BY <5>1, <3>2, <2>2 DEF IsCount
        <5> QED BY <5>1, <5>2, <4>2, <3>2
      <4>4. CASE i = m
          BY <4>4, <4>2, <3>2, <2>1
      <4> QED BY <4>3, <4>4, <2>1
    <3> QED BY <3>1, <3>2
  <2>4. IsCount(n, f, m)
    <3>1. PICK v : v = n
        OBVIOUS
    <3>2. v = [i \in 0..m |-> v[i]]
        BY <3>1
    <3> HIDE DEF n
    <3>3. \A i \in 0..m : v[i] = IF i = 0 THEN f.adbc ELSE ceil_quot(v[i - 1], PTRS)
        BY <3>1, <2>3, Zenon
    <3>4. v = [i \in 0..m |-> IF i = 0 THEN f.adbc ELSE ceil_quot(v[i - 1], PTRS)]
        BY <3>2, <3>3
    <3> QED BY <3>1, <3>4 DEF IsCount
  <2> QED BY <2>4, <1>2
<1> QED BY <1>3, <1>4

LEMMA CountIsCount ==
    ASSUME NEW f, f.nlvl \in Nat
    PROVE  IsCount(BlocksAt(f), f, f.nlvl)
<1>1. BlocksAt(f) = CHOOSE n : IsCount(n, f, f.nlvl)
    BY DEF BlocksAt, IsCount
<1> QED BY <1>1, CountExists

\* The blocks of a level, given those of the one above.
Below(dk, f, lvl, above) ==
    [b \in 1..BlocksAt(f)[lvl] |->
        PtrOf(At(dk, above[((b - 1) \div PTRS) + 1])[(b - 1) % PTRS])]

\* The equation of LevelBlocks, from a level up.
IsLevels(w, dk, f, from) ==
    w = [lvl \in from..f.nlvl |->
            IF lvl = f.nlvl THEN <<f.fop>> ELSE Below(dk, f, lvl, w[lvl + 1])]

LEMMA LevelsExist ==
    ASSUME NEW dk, NEW f, f.nlvl \in Nat
    PROVE  \E w : IsLevels(w, dk, f, 0)
<1> DEFINE L == f.nlvl
           T == {d \in Nat : d <= L /\ ~ \E w : IsLevels(w, dk, f, L - d)}
<1>1. SUFFICES ASSUME T # {} PROVE FALSE
  <2>1. L \notin T /\ L - L = 0 /\ L <= L /\ L \in Nat
      BY <1>1
  <2> QED BY <2>1
<1>2. PICK m \in T : \A d \in T : m <= d
    BY <1>1, LeastNumber
<1>3. m \in Nat /\ m <= L /\ L \in Nat /\ ~ \E w : IsLevels(w, dk, f, L - m)
    BY <1>2
<1>4. CASE m = 0
  <2> DEFINE w == [lvl \in L..L |-> <<f.fop>>]
  <2>1. \A lvl \in L..L : lvl = L
      BY <1>3
  <2>2. w = [lvl \in L..L |->
               IF lvl = f.nlvl THEN <<f.fop>> ELSE Below(dk, f, lvl, w[lvl + 1])]
      BY <2>1
  <2>3. IsLevels(w, dk, f, L)
      BY <2>2 DEF IsLevels
  <2>4. L - m = L
      BY <1>3, <1>4
  <2> QED BY <2>3, <2>4, <1>3
<1>5. CASE m # 0
  <2>1. m - 1 \in Nat /\ m - 1 <= L /\ m - 1 \notin T
      BY <1>2, <1>3, <1>5
  <2>2. PICK g : IsLevels(g, dk, f, L - (m - 1))
      BY <2>1
  <2>3. PICK a \in Nat : a = L - m /\ L - (m - 1) = a + 1 /\ a < L
      BY <1>3, <1>5
  <2> DEFINE w == [lvl \in a..L |-> IF lvl = a THEN Below(dk, f, a, g[a + 1]) ELSE g[lvl]]
  <2>4. ASSUME NEW i \in a..L
        PROVE  w[i] = IF i = L THEN <<f.fop>> ELSE Below(dk, f, i, w[i + 1])
    <3>1. i \in Int /\ (i # L => i + 1 \in a..L /\ i + 1 # a /\ i + 1 \in (a + 1)..L)
          /\ (i # a => i \in (a + 1)..L)
        BY <2>3, <1>3
    <3>2. i # L => w[i + 1] = g[i + 1]
        BY <3>1
    <3>3. CASE i = a
        BY <3>3, <3>2, <2>3
    <3>4. CASE i # a
      <4>1. w[i] = g[i]
          BY <3>4
      <4>2. g[i] = IF i = L THEN <<f.fop>> ELSE Below(dk, f, i, g[i + 1])
          BY <3>1, <3>4, <2>2, <2>3 DEF IsLevels
      <4> QED BY <4>1, <4>2, <3>2
    <3> QED BY <3>3, <3>4
  <2>5. IsLevels(w, dk, f, a)
    <3>1. PICK v : v = w
        OBVIOUS
    <3>2. v = [i \in a..L |-> v[i]]
        BY <3>1
    <3> HIDE DEF w
    <3>3. \A i \in a..L : v[i] = IF i = L THEN <<f.fop>> ELSE Below(dk, f, i, v[i + 1])
        BY <3>1, <2>4, Zenon
    <3>4. v = [i \in a..L |-> IF i = L THEN <<f.fop>> ELSE Below(dk, f, i, v[i + 1])]
        BY <3>2, <3>3
    <3> QED BY <3>1, <3>4 DEF IsLevels
  <2> QED BY <2>5, <2>3, <1>3
<1> QED BY <1>4, <1>5

LEMMA LevelsAreLevels ==
    ASSUME NEW dk, NEW f, f.nlvl \in Nat
    PROVE  IsLevels(LevelBlocks(dk, f), dk, f, 0)
<1>1. LevelBlocks(dk, f) = CHOOSE w : IsLevels(w, dk, f, 0)
    BY DEF LevelBlocks, IsLevels, Below
<1> QED BY <1>1, LevelsExist

-----------------------------------------------------------------------------
(* The invariant.                                                          *)

\* A block of a file, numbered from 0 at each level; an empty file has one
\* that is nowhere.
InFile(f, lvl, b) ==
  /\ lvl \in 0..f.nlvl
  /\ b \in Nat
  /\ b < BlocksAt(f)[lvl] \/ (f.adbc = 0 /\ b = 0)

\* Where it is, and what is there.
Lba(dk, f, lvl, b) == LevelBlocks(dk, f)[lvl][b + 1]
Right(dk, f, lvl, b) == At(dk, Lba(dk, f, lvl, b))

\* What a read leaves in a buffer.
Bufs(dk) == {dk[p] : p \in DOMAIN dk} \cup {BlankBlock, Junk}

\* An entry of the cache of a file: for a block of it; it holds the block,
\* unless a status was dropped.
EntryOK(dk, f, e) ==
  /\ InFile(f, e.level, e.blk)
  /\ e.lba \in {0, Lba(dk, f, e.level, e.blk)}
  /\ e.data \in {NoData, Junk, Right(dk, f, e.level, e.blk)}
  /\ ~e.bad => /\ e.lba = Lba(dk, f, e.level, e.blk)
               /\ e.data \in {NoData, Right(dk, f, e.level, e.blk)}

CacheEntry(dk) == [level : Nat, blk : Nat, lba : Nat, data : Bufs(dk) \cup {NoData},
                   bad : BOOLEAN]
EntriesOf(dk, f) == {e \in CacheEntry(dk) : EntryOK(dk, f, e)}

Fsts(dk) == FilesOf(dk) \cup {DirFst(dk), NoFst}

FileObject(dk) == [fst : Fsts(dk), ents : Seq(CacheEntry(dk)), list : Seq(Nat),
                   last : Nat, lock : Tasks \cup {None}]

FileOK(dk, f) == /\ f \in FileObject(dk)
                 /\ f.ents \in Seq(EntriesOf(dk, f.fst))
                 /\ f.list \in Seq(1..Len(f.ents))

\* The file that is being looked up is the last, and nobody knows it yet.
Known(fs, lk, i) == i \in 1..Len(fs) /\ (lk # None => i # Len(fs))

FilesOK(dk, fs, lk) ==
  /\ fs \in Seq(FileObject(dk))
  /\ \A i \in 1..Len(fs) : FileOK(dk, fs[i])
  /\ Len(fs) >= 1
  /\ fs[1].fst = DirFst(dk) /\ DirFst(dk).name = DIRECTOR
  /\ \A i \in 2..Len(fs) : Known(fs, lk, i) => fs[i].fst \in FilesOf(dk)
  /\ lk \in Tasks \cup {None}
  /\ lk # None => Len(fs) >= 2 /\ fs[Len(fs)] = File(NoFst)

\* The file a task has opened.
Target(dk, fs, lk, k) ==
  /\ k.file \in 2..Len(fs)
  /\ Known(fs, lk, k.file)
  /\ fs[k.file].fst \in FilesOf(dk)
  /\ fs[k.file].fst.name = k.op.name

Offset(k, f) == (k.op.recno * f.lrecl) % DBSIZ
FirstBlock(k, f) == IF k.cont = "rec" THEN (k.op.recno * f.lrecl) \div DBSIZ ELSE 0
BlocksWanted(k, f) ==
  IF k.cont = "rec" THEN IF Offset(k, f) + f.lrecl > DBSIZ THEN 2 ELSE 1
  ELSE IF f.adbc = 0 THEN 1 ELSE f.adbc

\* The blocks it still wants, one after the other.
WantOK(k, f) ==
  /\ k.want \in Seq(Nat) /\ k.want # <<>>
  /\ k.want[1] + Len(k.want) = FirstBlock(k, f) + BlocksWanted(k, f)
  /\ \A j \in 1..Len(k.want) : k.want[j] = k.want[1] + j - 1
  /\ k.cont = "rec" => /\ f.nlvl = 0 /\ f.lrecl <= DBSIZ /\ k.op.recno \in Nat
                       /\ k.op.recno < f.aic
  /\ k.cont = "dir" => k.got = <<>>
  /\ k.cont # "dir" => k.want[1] = FirstBlock(k, f) + Len(k.got)

\* A file's entry is in a block.
NameIn(block, name) == \E i \in Cells : IsFst(block[i]) /\ block[i].name = name

\* Blocks of a file, from b on.
AreBlocks(dk, f, b, got) == \A j \in 1..Len(got) : got[j] = Right(dk, f, 0, b + j - 1)

\* The blocks it has got.
GotOK(dk, k, f) ==
  /\ k.got \in Seq(Bufs(dk))
  /\ ~k.bad =>
       /\ AreBlocks(dk, f, FirstBlock(k, f), k.got)
       /\ k.cont = "dir" =>
            \A b \in 0..(k.want[1] - 1) : ~NameIn(Right(dk, f, 0, b), k.op.name)

\* The levels at which it looks for a block.
Frame == [level : Nat, blk : Nat, ent : Nat]
FramesOK(k, f) ==
  /\ k.frames \in Seq(Frame) /\ k.frames # <<>>
  /\ k.frames[1].blk = k.want[1]
  /\ \A j \in 1..Len(k.frames) : /\ k.frames[j].level = j - 1
                                 /\ InFile(f, j - 1, k.frames[j].blk)
  /\ \A j \in 1..(Len(k.frames) - 1) :
       k.frames[j + 1].blk = k.frames[j].blk \div PTRS

\* What it has found of the block it looks for.
FoundOK(dk, k, f) ==
  LET top == Last(k.frames)
      right == Lba(dk, f.fst, top.level, top.blk)
  IN  /\ k.pc \in {"add", "link"} => k.lba \in {0, right} /\ (k.bad \/ k.lba = right)
      /\ k.pc \in {"found", "io"} => /\ top.ent \in 1..Len(f.ents)
                                     /\ f.ents[top.ent].level = top.level
                                     /\ f.ents[top.ent].blk = top.blk

\* What is said of a result by ReadsAreFaithful.
Faithful(dk, k) ==
  ~k.bad =>
    \/ k.res.err \in {"ENOMEM", "EIO"}
    \/ k.res.err = "ENOENT" /\ {e \in FilesOf(dk) : e.name = k.op.name} = {}
    \/ \E e \in {e \in FilesOf(dk) : e.name = k.op.name} :
         LET rec == k.op.kind = "rec"
             c == Contents(dk, e)
             from == IF rec THEN k.op.recno * e.lrecl ELSE 0
             len == IF rec THEN e.lrecl ELSE Len(c)
         IN  \/ k.res.err = "EINVAL"
                /\ \/ rec /\ (e.nlvl # 0 \/ e.lrecl > DBSIZ \/ k.op.recno >= e.aic)
                   \/ e.adbc = 0
             \/ /\ k.res.err = "0"
                /\ k.res.cells = SubSeq(c, from + 1, from + len)

Busy == {"search", "add", "link", "found", "io"}

BusyOK(dk, fs, lk, t, k) ==
  /\ k.file \in 1..Len(fs)
  /\ IF k.cont = "dir" THEN k.file = 1 /\ lk = t
     ELSE Target(dk, fs, lk, k) /\ k.cont = k.op.kind
  /\ WantOK(k, fs[k.file].fst)
  /\ GotOK(dk, k, fs[k.file].fst)
  /\ FramesOK(k, fs[k.file].fst)
  /\ FoundOK(dk, k, fs[k.file])

Fields == {"pc", "op", "file", "cont", "frames", "lba", "tail", "bad", "want", "got",
           "res"}

TaskOK(dk, fs, lk, t, k) ==
  /\ DOMAIN k = Fields
  /\ k.pc \in {"idle", "open", "done"} \cup Busy
  /\ k.bad \in BOOLEAN /\ k.tail \in Nat /\ k.lba \in Nat
  /\ k.pc # "idle" => k.op \in Ops
  /\ k.pc = "open" => Target(dk, fs, lk, k) /\ k.got = <<>>
  /\ k.pc \in Busy => BusyOK(dk, fs, lk, t, k)
  /\ k.pc = "done" => Faithful(dk, k)

Quiet == /\ up # "mounted"
         /\ files = <<>> /\ fslock = None
         /\ task = [t \in Tasks |-> Idle]

EdfInv ==
  /\ DOMAIN task = Tasks
  /\ \/ Quiet
     \/ /\ up = "mounted"
        /\ FilesOK(disk, files, fslock)
        /\ \A t \in Tasks : TaskOK(disk, files, fslock, t, task[t])

FsInv ==
  IF phase = "ipled" THEN VolumeSound(disk) => EdfInv /\ NucleusLoads
  ELSE Quiet /\ nucleus.state = "none"
-----------------------------------------------------------------------------
(* Arithmetic.                                                             *)

LEMMA DivMod ==
    ASSUME NEW a \in Nat, NEW b \in Nat \ {0}
    PROVE  /\ a \div b \in Nat /\ a % b \in 0..(b - 1)
           /\ a = (a \div b) * b + (a % b)
<1>1. a \div b \in Nat /\ a % b \in 0..(b - 1) /\ a = b * (a \div b) + (a % b)
    OBVIOUS
<1>2. \A q \in Nat : b * q = q * b
    OBVIOUS
<1> QED BY <1>1, <1>2

LEMMA DivModUnique ==
    ASSUME NEW q \in Nat, NEW b \in Nat \ {0}, NEW r \in 0..(b - 1)
    PROVE  (q * b + r) \div b = q /\ (q * b + r) % b = r
OBVIOUS

LEMMA MulMono ==
    ASSUME NEW a \in Nat, NEW b \in Nat, NEW c \in Nat, a <= b
    PROVE  a * c <= b * c /\ a * c \in Nat /\ b * c \in Nat
<1>1. PICK d \in Nat : b = a + d
    BY b - a \in Nat /\ b = a + (b - a)
<1>2. b * c = a * c + d * c
    BY <1>1
<1>3. d * c \in Nat /\ a * c \in Nat
    OBVIOUS
<1> QED BY <1>2, <1>3

LEMMA MulStep == \A a, b \in Nat : (a + 1) * b = a * b + b
OBVIOUS

\* Blocks needed for n cells are enough for each of them.
LEMMA CeilUp ==
    ASSUME NEW n \in Nat, NEW P \in Nat \ {0}
    PROVE  /\ ceil_quot(n, P) \in Nat
           /\ \A b \in Nat : b < n => b \div P \in Nat /\ b \div P < ceil_quot(n, P)
<1>1. n + (P - 1) \in Nat /\ ceil_quot(n, P) = (n + (P - 1)) \div P
    BY DEF ceil_quot
<1>2. PICK c : c = ceil_quot(n, P)
    OBVIOUS
<1>3. PICK s : s = (n + (P - 1)) % P
    OBVIOUS
<1>4. c \in Nat /\ s \in 0..(P - 1) /\ n + (P - 1) = c * P + s
  <2>1. PICK N \in Nat : N = n + (P - 1)
      BY <1>1
  <2>2. c = N \div P /\ s = N % P
      BY <2>1, <1>1, <1>2, <1>3
  <2> QED BY <2>1, <2>2, DivMod, Zenon
<1>5. ASSUME NEW b \in Nat, b < n
      PROVE  b \div P \in Nat /\ b \div P < c
  <2>1. PICK q : q = b \div P
      OBVIOUS
  <2>2. PICK r : r = b % P
      OBVIOUS
  <2>3. q \in Nat /\ r \in 0..(P - 1) /\ b = q * P + r
      BY <2>1, <2>2, DivMod
  <2>4. ASSUME c <= q PROVE FALSE
    <3>1. c * P <= q * P /\ c * P \in Nat /\ q * P \in Nat
        BY <2>4, <2>3, <1>4, MulMono
    <3> QED BY <3>1, <2>3, <1>4, <1>5
  <2> QED BY <2>1, <2>3, <2>4, <1>4
<1> QED BY <1>2, <1>4, <1>5

LEMMA SizeFacts == /\ DBSIZ \in Nat \ {0} /\ DBSIZ >= 3 /\ PTRS = DBSIZ /\ NFST = DBSIZ
                   /\ Cells = 0..(DBSIZ - 1)
BY VolumeAssumption DEF PTRS, NFST, Cells

-----------------------------------------------------------------------------
(* Where the blocks of a sound file are.                                   *)

LEMMA CountNat ==
    ASSUME NEW f, f.nlvl \in Nat, f.adbc \in Nat
    PROVE  /\ BlocksAt(f)[0] = f.adbc
           /\ \A lvl \in 0..f.nlvl : BlocksAt(f)[lvl] \in Nat
           /\ \A lvl \in 0..f.nlvl : lvl # f.nlvl =>
                BlocksAt(f)[lvl + 1] = ceil_quot(BlocksAt(f)[lvl], PTRS)
<1>1. IsCount(BlocksAt(f), f, f.nlvl)
    BY CountIsCount
<1>2. PICK n : n = BlocksAt(f)
    OBVIOUS
<1>3. \A lvl \in 0..f.nlvl : n[lvl] = IF lvl = 0 THEN f.adbc ELSE ceil_quot(n[lvl - 1], PTRS)
    BY <1>1, <1>2 DEF IsCount
<1> DEFINE T == {lvl \in 0..f.nlvl : n[lvl] \notin Nat}
<1>4. ASSUME T # {} PROVE FALSE
  <2>1. PICK m \in T : \A lvl \in T : m <= lvl
    <3>1. T \subseteq Nat
        OBVIOUS
    <3> QED BY <3>1, <1>4, LeastNumber
  <2>2. m # 0 /\ m \in 0..f.nlvl /\ n[m] \notin Nat
      BY <1>3, <2>1
  <2>3. m - 1 \in 0..f.nlvl /\ m - 1 \notin T /\ m - 1 < m
      BY <2>1, <2>2
  <2>4. n[m - 1] \in Nat
      BY <2>3
  <2>5. n[m] = ceil_quot(n[m - 1], PTRS)
      BY <1>3, <2>2
  <2> QED BY <2>2, <2>4, <2>5, CeilUp, SizeFacts
<1>5. ASSUME NEW lvl \in 0..f.nlvl, lvl # f.nlvl
      PROVE  n[lvl + 1] = ceil_quot(n[lvl], PTRS)
  <2>1. lvl + 1 \in 0..f.nlvl /\ lvl + 1 # 0 /\ (lvl + 1) - 1 = lvl
      BY <1>5
  <2> QED BY <2>1, <1>3
<1>6. n[0] = f.adbc
    BY <1>3
<1> QED BY <1>2, <1>4, <1>5, <1>6, Zenon

LEMMA LevelAt ==
    ASSUME NEW dk, NEW f, f.nlvl \in Nat
    PROVE  /\ LevelBlocks(dk, f)[f.nlvl] = <<f.fop>>
           /\ \A lvl \in 0..f.nlvl : lvl # f.nlvl =>
                LevelBlocks(dk, f)[lvl] = Below(dk, f, lvl, LevelBlocks(dk, f)[lvl + 1])
<1>1. IsLevels(LevelBlocks(dk, f), dk, f, 0)
    BY LevelsAreLevels
<1>2. PICK w : w = LevelBlocks(dk, f)
    OBVIOUS
<1>3. f.nlvl \in 0..f.nlvl
    OBVIOUS
<1>4. \A lvl \in 0..f.nlvl :
        w[lvl] = IF lvl = f.nlvl THEN <<f.fop>> ELSE Below(dk, f, lvl, w[lvl + 1])
    BY <1>1, <1>2 DEF IsLevels
<1> QED BY <1>2, <1>3, <1>4

\* The parts of FileSound.
LEMMA SoundFacts ==
    ASSUME NEW dk, NEW f, FileSound(dk, f)
    PROVE  /\ f.lrecl \in Nat /\ f.fop \in Nat /\ f.adbc \in Nat /\ f.aic \in Nat
           /\ f.nlvl \in Nat
           /\ f.aic * f.lrecl <= f.adbc * DBSIZ
           /\ f.adbc = 0 => f.fop = 0 /\ f.nlvl = 0 /\ f.aic = 0
           /\ f.adbc # 0 =>
                /\ BlocksAt(f)[f.nlvl] = 1
                /\ \A lvl \in 0..f.nlvl : \A b \in 1..BlocksAt(f)[lvl] :
                     LevelBlocks(dk, f)[lvl][b] \in Nat \ {0}
<1>1. f.lrecl \in Nat /\ f.fop \in Nat /\ f.adbc \in Nat /\ f.aic \in Nat /\ f.nlvl \in Nat
    BY DEF FileSound
<1> QED BY <1>1 DEF FileSound

LEMMA InFileTop ==
    ASSUME NEW dk, NEW f, FileSound(dk, f), NEW b, InFile(f, f.nlvl, b)
    PROVE  b = 0 /\ Lba(dk, f, f.nlvl, b) = f.fop
<1>1. b = 0
  <2>1. CASE f.adbc = 0
      BY <2>1, SoundFacts, CountNat DEF InFile
  <2>2. CASE f.adbc # 0
      BY <2>2, SoundFacts DEF InFile
  <2> QED BY <2>1, <2>2
<1>2. LevelBlocks(dk, f)[f.nlvl] = <<f.fop>>
    BY SoundFacts, LevelAt
<1> QED BY <1>1, <1>2 DEF Lba

\* The pointer to a block is in the block above it.
LEMMA LbaBelow ==
    ASSUME NEW dk, NEW f, f.nlvl \in Nat, f.adbc \in Nat, NEW lvl \in 0..f.nlvl, NEW b,
           InFile(f, lvl, b), f.adbc # 0, lvl # f.nlvl
    PROVE  Lba(dk, f, lvl, b) = PtrOf(Right(dk, f, lvl + 1, b \div PTRS)[b % PTRS])
<1>1. lvl \in 0..f.nlvl /\ b \in Nat /\ b < BlocksAt(f)[lvl]
    BY DEF InFile
<1>2. PICK n : n = BlocksAt(f)[lvl]
    OBVIOUS
<1>3. n \in Nat /\ b < n
    BY <1>1, <1>2, CountNat
<1>4. LevelBlocks(dk, f)[lvl] = Below(dk, f, lvl, LevelBlocks(dk, f)[lvl + 1])
    BY <1>1, LevelAt
<1>5. PICK w : w = LevelBlocks(dk, f)[lvl + 1]
    OBVIOUS
<1>6. PICK c : c \in 1..n /\ c - 1 = b /\ c = b + 1
    BY <1>1, <1>3
<1>7. Below(dk, f, lvl, w)[c] = PtrOf(At(dk, w[((c - 1) \div PTRS) + 1])[(c - 1) % PTRS])
    BY <1>2, <1>6 DEF Below
<1>8. Below(dk, f, lvl, w)[b + 1] = PtrOf(At(dk, w[(b \div PTRS) + 1])[b % PTRS])
    BY <1>6, <1>7
<1> QED BY <1>4, <1>5, <1>8, Zenon DEF Lba, Right

LEMMA InFileUp ==
    ASSUME NEW dk, NEW f, FileSound(dk, f), NEW lvl, NEW b, InFile(f, lvl, b),
           lvl # f.nlvl
    PROVE  /\ lvl \in Nat /\ b % PTRS \in Cells
           /\ InFile(f, lvl + 1, b \div PTRS)
           /\ Lba(dk, f, lvl, b) = PtrOf(Right(dk, f, lvl + 1, b \div PTRS)[b % PTRS])
<1>1. f.nlvl \in Nat /\ f.adbc \in Nat /\ (f.adbc = 0 => f.nlvl = 0)
    BY SoundFacts
<1>2. lvl \in 0..f.nlvl /\ b \in Nat /\ f.adbc # 0 /\ b < BlocksAt(f)[lvl]
    BY <1>1 DEF InFile
<1>3. PICK n : n = BlocksAt(f)[lvl]
    OBVIOUS
<1>4. n \in Nat /\ BlocksAt(f)[lvl + 1] = ceil_quot(n, PTRS) /\ b < n
    BY <1>1, <1>2, <1>3, CountNat
<1>5. b \div PTRS \in Nat /\ b \div PTRS < BlocksAt(f)[lvl + 1] /\ b % PTRS \in Cells
  <2>1. b \div PTRS \in Nat /\ b \div PTRS < ceil_quot(n, PTRS)
      BY <1>2, <1>4, CeilUp, SizeFacts
  <2>2. b % PTRS \in Cells
      BY <1>2, DivMod, SizeFacts
  <2> QED BY <2>1, <2>2, <1>4
<1>6. InFile(f, lvl + 1, b \div PTRS)
    BY <1>1, <1>2, <1>5 DEF InFile
<1>7. Lba(dk, f, lvl, b) = PtrOf(Right(dk, f, lvl + 1, b \div PTRS)[b % PTRS])
    BY <1>1, <1>2, LbaBelow
<1> QED BY <1>2, <1>5, <1>6, <1>7

LEMMA LbaNat ==
    ASSUME NEW dk, NEW f, FileSound(dk, f), NEW lvl, NEW b, InFile(f, lvl, b)
    PROVE  /\ Lba(dk, f, lvl, b) \in Nat
           /\ f.adbc # 0 => Lba(dk, f, lvl, b) # 0
<1>1. CASE f.adbc = 0
  <2>1. lvl = f.nlvl
      BY <1>1, SoundFacts DEF InFile
  <2>2. Lba(dk, f, f.nlvl, b) = f.fop
      BY <2>1, InFileTop
  <2>3. f.fop = 0
      BY <1>1, SoundFacts
  <2> QED BY <2>1, <2>2, <2>3, <1>1
<1>2. CASE f.adbc # 0
  <2>1. lvl \in 0..f.nlvl /\ b \in Nat /\ b < BlocksAt(f)[lvl]
      BY <1>2 DEF InFile
  <2>2. BlocksAt(f)[lvl] \in Nat
      BY <2>1, SoundFacts, CountNat
  <2>3. b + 1 \in 1..BlocksAt(f)[lvl]
      BY <2>1, <2>2
  <2> QED BY <2>1, <2>3, <1>2, SoundFacts DEF Lba
<1> QED BY <1>1, <1>2
-----------------------------------------------------------------------------
(* Buffers, lists and records.                                             *)

LEMMA MinIn ==
    ASSUME NEW T, T \subseteq Nat, T # {}
    PROVE  Min(T) \in T
<1>1. PICK m \in T : \A k \in T : m <= k
    BY LeastNumber
<1> QED BY <1>1 DEF Min

\* Nothing of what a failed read leaves looks like a pointer or an entry.
LEMMA JunkFacts ==
    ASSUME NEW c \in Cells
    PROVE  PtrOf(Junk[c]) = 0 /\ ~IsFst(Junk[c])
<1>1. Junk[c] = [junk |-> c]
    BY DEF Junk
<1>2. DOMAIN Junk[c] = {"junk"}
    BY <1>1
<1>3. "ptr" \in {"ptr"} /\ "name" \in DOMAIN NoFst
    BY DEF NoFst, Fst
<1>4. "ptr" \notin {"junk"} /\ "name" \notin {"junk"}
    OBVIOUS
<1> QED BY <1>2, <1>3, <1>4 DEF PtrOf, IsFst

LEMMA BufTypes ==
    ASSUME NEW dk
    PROVE  /\ Junk \in Bufs(dk)
           /\ \A lba : At(dk, lba) \in Bufs(dk)
           /\ \A f, lvl, b : Right(dk, f, lvl, b) \in Bufs(dk)
<1>1. \A lba : At(dk, lba) \in Bufs(dk)
    BY DEF At, Bufs
<1> QED BY <1>1 DEF Bufs, Right

\* Where a walk of the list of a file's cache meets an entry.
HitAt(f, lvl, blk) == SelectInSeq(f.list, LAMBDA e : Hit(f.ents[e], lvl, blk))

LEMMA HitFound ==
    ASSUME NEW f, NEW n, f.list \in Seq(1..n), NEW lvl, NEW blk, HitAt(f, lvl, blk) # 0
    PROVE  f.list[HitAt(f, lvl, blk)] \in {e \in 1..n : Hit(f.ents[e], lvl, blk)}
<1> DEFINE I == {j \in 1..Len(f.list) : Hit(f.ents[f.list[j]], lvl, blk)}
<1>1. HitAt(f, lvl, blk) = IF I # {} THEN Min(I) ELSE 0
    BY DEF SelectInSeq, HitAt
<1>2. I # {} /\ HitAt(f, lvl, blk) = Min(I)
    BY <1>1
<1>3. I \subseteq Nat
    OBVIOUS
<1>4. Min(I) \in I
    BY <1>2, <1>3, MinIn
<1>5. PICK i : i = HitAt(f, lvl, blk)
    OBVIOUS
<1>6. i \in 1..Len(f.list) /\ Hit(f.ents[f.list[i]], lvl, blk)
    BY <1>2, <1>4, <1>5
<1>7. f.list[i] \in 1..n
    BY <1>6, ElementOfSeq, Zenon
<1> QED BY <1>5, <1>6, <1>7

LEMMA CachedFound ==
    ASSUME NEW S, files \in Seq(S), NEW name, NEW c, c = Cached(name), c # 0
    PROVE  c \in 1..Len(files) /\ files[c].fst.name = name
<1> DEFINE I == {j \in 1..Len(files) : files[j].fst.name = name}
<1>1. c = IF I # {} THEN Min(I) ELSE 0
    BY DEF SelectInSeq, Cached
<1>2. I # {} /\ c = Min(I)
    BY <1>1
<1>3. I \subseteq Nat
    OBVIOUS
<1>4. Min(I) \in I
    BY <1>2, <1>3, MinIn
<1> QED BY <1>2, <1>4

LEMMA ListAddTailType ==
    ASSUME NEW S, NEW list \in Seq(S), NEW tail, NEW new \in S
    PROVE  ListAddTail(list, tail, new) \in Seq(S)
<1> DEFINE I == {j \in 1..Len(list) : list[j] = tail}
           p == IF tail = 0 THEN 0 ELSE SelectInSeq(list, LAMBDA e : e = tail)
<1>1. p = IF tail = 0 THEN 0 ELSE IF I # {} THEN Min(I) ELSE 0
    BY DEF SelectInSeq
<1>2. I \subseteq Nat
    OBVIOUS
<1>3. I # {} => Min(I) \in I
    BY <1>2, MinIn
<1>4. p \in 0..Len(list)
    BY <1>1, <1>3
<1>5. ListAddTail(list, tail, new)
        = IF tail # 0 /\ p = 0 THEN list ELSE Append(SubSeq(list, 1, p), new)
    BY DEF ListAddTail
<1>6. SubSeq(list, 1, p) \in Seq(S)
  <2> HIDE DEF p
  <2> QED BY <1>4, SubSeqProperties
<1>7. Append(SubSeq(list, 1, p), new) \in Seq(S)
  <2> HIDE DEF p
  <2> QED BY <1>6, AppendProperties
<1> QED BY <1>5, <1>7

LEMMA IdleFacts ==
    /\ DOMAIN Idle = Fields
    /\ Idle.pc = "idle" /\ Idle.op = None /\ Idle.file = 0 /\ Idle.cont = None
    /\ Idle.lba = 0 /\ Idle.tail = 0 /\ Idle.bad = FALSE /\ Idle.got = <<>>
BY DEF Idle, Fields

\* What Reading and Done make of a task.
LEMMA ReadingFacts ==
    ASSUME NEW k, DOMAIN k = Fields, NEW file, NEW cont, NEW want,
           NEW r, r = Reading(k, file, cont, want)
    PROVE  /\ DOMAIN r = Fields /\ r.pc = "search" /\ r.file = file /\ r.cont = cont
           /\ r.want = want
           /\ r.frames = <<[level |-> 0, blk |-> Head(want), ent |-> 0]>>
           /\ r.op = k.op /\ r.lba = k.lba /\ r.tail = k.tail /\ r.bad = k.bad
           /\ r.got = k.got
BY DEF Reading, Fields

LEMMA DoneFacts ==
    ASSUME NEW k, NEW err, NEW cells, NEW r, r = Done(k, err, cells)
    PROVE  /\ DOMAIN r = Fields /\ r.pc = "done" /\ r.op = k.op /\ r.bad = k.bad
           /\ r.lba = 0 /\ r.tail = 0 /\ r.res.err = err /\ r.res.cells = cells
BY DEF Done, Fields, Idle
-----------------------------------------------------------------------------
(* What is read, and what there is.                                        *)

\* A record is in the blocks that are read for it.
LEMMA RecordSpan ==
    ASSUME NEW k, NEW f, k.cont = "rec", k.op.recno \in Nat, k.op.recno < f.aic,
           f.lrecl \in Nat, f.adbc \in Nat, f.aic \in Nat,
           f.aic * f.lrecl <= f.adbc * DBSIZ, f.adbc = 0 => f.aic = 0,
           f.lrecl <= DBSIZ
    PROVE  /\ FirstBlock(k, f) \in Nat /\ Offset(k, f) \in 0..(DBSIZ - 1)
           /\ k.op.recno * f.lrecl \in Nat
           /\ k.op.recno * f.lrecl = FirstBlock(k, f) * DBSIZ + Offset(k, f)
           /\ BlocksWanted(k, f) \in {1, 2}
           /\ FirstBlock(k, f) + BlocksWanted(k, f) <= f.adbc
           /\ k.op.recno * f.lrecl + f.lrecl <= f.aic * f.lrecl
           /\ Offset(k, f) + f.lrecl <= BlocksWanted(k, f) * DBSIZ
<1>1. PICK r : r = k.op.recno
    OBVIOUS
<1>2. PICK x : x = r * f.lrecl
    OBVIOUS
<1>3. PICK b : b = x \div DBSIZ
    OBVIOUS
<1>4. PICK o : o = x % DBSIZ
    OBVIOUS
<1>5. r \in Nat /\ r < f.aic /\ x \in Nat
    BY <1>1, <1>2
<1>6. b \in Nat /\ o \in 0..(DBSIZ - 1) /\ x = b * DBSIZ + o
    BY <1>3, <1>4, <1>5, DivMod, SizeFacts
<1>7. FirstBlock(k, f) = b /\ Offset(k, f) = o
      /\ BlocksWanted(k, f) = IF o + f.lrecl > DBSIZ THEN 2 ELSE 1
    BY <1>1, <1>2, <1>3, <1>4 DEF FirstBlock, Offset, BlocksWanted
<1>8. PICK y : y = f.aic * f.lrecl
    OBVIOUS
<1>9. PICK z : z = f.adbc * DBSIZ
    OBVIOUS
<1>10. x + f.lrecl <= y /\ y \in Nat /\ z \in Nat /\ y <= z
  <2>1. (r + 1) * f.lrecl <= f.aic * f.lrecl /\ f.aic * f.lrecl \in Nat
      BY <1>5, MulMono
  <2>2. (r + 1) * f.lrecl = x + f.lrecl
    <3>1. PICK l \in Nat : l = f.lrecl
        OBVIOUS
    <3> QED BY <3>1, <1>2, <1>5, MulStep
  <2>3. f.adbc * DBSIZ \in Nat
      BY SizeFacts
  <2> QED BY <2>1, <2>2, <2>3, <1>8, <1>9
<1>11. DBSIZ \in Nat /\ b * DBSIZ \in Nat /\ (b + 1) * DBSIZ = b * DBSIZ + DBSIZ
       /\ 1 * DBSIZ = DBSIZ /\ 2 * DBSIZ = DBSIZ + DBSIZ
    BY <1>6, SizeFacts
<1>12. ASSUME o + f.lrecl <= DBSIZ PROVE b + 1 <= f.adbc
  <2>1. SUFFICES ASSUME f.adbc <= b PROVE FALSE
      BY <1>6
  <2>2. z <= b * DBSIZ
      BY <2>1, <1>6, <1>9, MulMono, SizeFacts
  <2>3. f.lrecl = 0
      BY <2>2, <1>6, <1>10, <1>11
  <2>4. x = 0
      BY <2>3, <1>2, <1>5
  <2>5. b = 0
      BY <2>4, <1>3, SizeFacts
  <2> QED BY <2>1, <2>5, <1>5
<1>13. ASSUME o + f.lrecl > DBSIZ PROVE b + 2 <= f.adbc
  <2>1. SUFFICES ASSUME f.adbc <= b + 1 PROVE FALSE
      BY <1>6
  <2>2. z <= (b + 1) * DBSIZ
      BY <2>1, <1>6, <1>9, MulMono, SizeFacts
  <2> QED BY ONLY <2>2, <1>6, <1>10, <1>11, <1>13, f.lrecl \in Nat
<1>14. /\ BlocksWanted(k, f) \in {1, 2}
       /\ b + BlocksWanted(k, f) <= f.adbc
       /\ o + f.lrecl <= BlocksWanted(k, f) * DBSIZ
  <2>1. CASE o + f.lrecl <= DBSIZ
    <3>1. BlocksWanted(k, f) = 1
        BY <2>1, <1>7, <1>6, <1>11
    <3> QED BY <3>1, <1>12, <2>1, <1>11
  <2>2. CASE o + f.lrecl > DBSIZ
    <3>1. BlocksWanted(k, f) = 2
        BY <2>2, <1>7
    <3> QED BY <3>1, <1>13, <2>2, <1>11, <1>6
  <2> QED BY <2>1, <2>2, <1>6, <1>11
<1> QED BY <1>1, <1>2, <1>5, <1>6, <1>7, <1>8, <1>10, <1>14

\* The next block that is wanted is one of the file.
LEMMA WantIn ==
    ASSUME NEW dk, NEW f, FileSound(dk, f), NEW k, WantOK(k, f),
           k.cont \in {"rec", "nss", "dir"}
    PROVE  /\ InFile(f, 0, k.want[1]) /\ k.want[1] \in Nat
           /\ Len(k.want) \in Nat /\ Len(k.want) >= 1
           /\ FirstBlock(k, f) \in Nat /\ BlocksWanted(k, f) \in Nat
<1>1. /\ f.lrecl \in Nat /\ f.adbc \in Nat /\ f.aic \in Nat /\ f.nlvl \in Nat
      /\ f.aic * f.lrecl <= f.adbc * DBSIZ /\ (f.adbc = 0 => f.aic = 0)
    BY SoundFacts
<1>2. BlocksAt(f)[0] = f.adbc /\ 0 \in 0..f.nlvl
    BY <1>1, CountNat
<1>3. PICK w : w = k.want[1]
    OBVIOUS
<1>4. PICK n : n = Len(k.want)
    OBVIOUS
<1>5. w \in Nat /\ n \in Nat /\ n >= 1 /\ w + n = FirstBlock(k, f) + BlocksWanted(k, f)
    BY <1>3, <1>4 DEF WantOK
<1>6. CASE k.cont = "rec"
  <2>1. k.op.recno \in Nat /\ k.op.recno < f.aic /\ f.lrecl <= DBSIZ
      BY <1>6 DEF WantOK
  <2>2. FirstBlock(k, f) \in Nat /\ BlocksWanted(k, f) \in {1, 2}
        /\ FirstBlock(k, f) + BlocksWanted(k, f) <= f.adbc
      BY <1>1, <1>6, <2>1, RecordSpan, Zenon
  <2>3. w < f.adbc
      BY <2>2, <1>5, <1>1
  <2> QED BY <2>2, <2>3, <1>2, <1>3, <1>4, <1>5 DEF InFile
<1>7. CASE k.cont # "rec"
  <2>1. FirstBlock(k, f) = 0 /\ BlocksWanted(k, f) = IF f.adbc = 0 THEN 1 ELSE f.adbc
      BY <1>7 DEF FirstBlock, BlocksWanted
  <2>2. w < f.adbc \/ (f.adbc = 0 /\ w = 0)
    <3>1. CASE f.adbc = 0
        BY <3>1, <2>1, <1>5
    <3>2. CASE f.adbc # 0
        BY <3>2, <2>1, <1>1, <1>5
    <3> QED BY <3>1, <3>2
  <2>3. FirstBlock(k, f) \in Nat /\ BlocksWanted(k, f) \in Nat
      BY <2>1, <1>1
  <2> QED BY <2>2, <2>3, <1>2, <1>3, <1>4, <1>5 DEF InFile
<1> QED BY <1>6, <1>7

\* The n-th cell of a file.
CellAt(dk, f, n) == At(dk, DataBlocks(dk, f)[(n \div DBSIZ) + 1])[n % DBSIZ]

LEMMA FlattenAt ==
    ASSUME NEW dk, NEW f, NEW b \in Nat, NEW got, Len(got) \in Nat,
           AreBlocks(dk, f, b, got),
           NEW n \in Nat, n < Len(got) * DBSIZ
    PROVE  Flatten(got)[n + 1] = CellAt(dk, f, b * DBSIZ + n)
<1>1. PICK q : q = n \div DBSIZ
    OBVIOUS
<1>2. PICK r : r = n % DBSIZ
    OBVIOUS
<1>3. q \in Nat /\ r \in 0..(DBSIZ - 1) /\ n = q * DBSIZ + r
    BY <1>1, <1>2, DivMod, SizeFacts
<1>4. q < Len(got)
  <2>1. SUFFICES ASSUME Len(got) <= q PROVE FALSE
      BY <1>3
  <2>2. Len(got) * DBSIZ <= q * DBSIZ /\ q * DBSIZ \in Nat /\ Len(got) * DBSIZ \in Nat
      BY <2>1, <1>3, MulMono, SizeFacts
  <2> QED BY <2>2, <1>3
<1>5. Len(got) * DBSIZ \in Nat
    BY SizeFacts
<1>6. n + 1 \in 1..(Len(got) * DBSIZ) /\ (n + 1) - 1 = n
    BY <1>5
<1>7. Flatten(got)[n + 1] = got[q + 1][r]
  <2>1. PICK c : c = n + 1
      OBVIOUS
  <2>2. c \in 1..(Len(got) * DBSIZ) /\ c - 1 = n
      BY <2>1, <1>6
  <2>3. Flatten(got)[c] = got[((c - 1) \div DBSIZ) + 1][(c - 1) % DBSIZ]
      BY <2>2 DEF Flatten
  <2> QED BY <2>1, <2>2, <2>3, <1>1, <1>2
<1>8. q + 1 \in 1..Len(got) /\ b + (q + 1) - 1 = b + q
    BY <1>3, <1>4
<1>9. got[q + 1] = Right(dk, f, 0, b + q)
    BY <1>8 DEF AreBlocks
<1>10. (b * DBSIZ + n) \div DBSIZ = b + q /\ (b * DBSIZ + n) % DBSIZ = r
  <2>1. b * DBSIZ + n = (b + q) * DBSIZ + r
      BY <1>3, SizeFacts
  <2>2. PICK e \in Nat : e = b + q
      BY <1>3
  <2>3. (e * DBSIZ + r) \div DBSIZ = e /\ (e * DBSIZ + r) % DBSIZ = r
      BY <1>3, DivModUnique, SizeFacts
  <2> QED BY <2>1, <2>2, <2>3
<1>11. Right(dk, f, 0, b + q) = At(dk, DataBlocks(dk, f)[(b + q) + 1])
    BY DEF Right, Lba, DataBlocks
<1> QED BY <1>7, <1>9, <1>10, <1>11 DEF CellAt

LEMMA ContentsAt ==
    ASSUME NEW dk, NEW f, NEW n \in Nat, f.aic * f.lrecl \in Nat, n < f.aic * f.lrecl
    PROVE  Contents(dk, f)[n + 1] = CellAt(dk, f, n)
<1>1. PICK c : c = n + 1
    OBVIOUS
<1>2. c \in 1..(f.aic * f.lrecl) /\ c - 1 = n
    BY <1>1
<1>3. Contents(dk, f)[c] = At(dk, DataBlocks(dk, f)[((c - 1) \div DBSIZ) + 1])[(c - 1) % DBSIZ]
    BY <1>2 DEF Contents
<1> QED BY <1>1, <1>2, <1>3 DEF CellAt

\* A part of one sequence is a part of another.
IsTuple(g, n) == g = [i \in 1..n |-> g[i]]
Agree(g, a, h, b, n) == \A i \in 0..(n - 1) : g[a + i + 1] = h[b + i + 1]

LEMMA SameParts ==
    ASSUME NEW g, NEW m \in Nat, IsTuple(g, m), NEW h, NEW n \in Nat, IsTuple(h, n),
           NEW a \in Nat, NEW b \in Nat, NEW c \in Nat, a + c <= m, b + c <= n,
           Agree(g, a, h, b, c)
    PROVE  SubSeq(g, a + 1, a + c) = SubSeq(h, b + 1, b + c)
<1>1. SubSeq(g, a + 1, a + c) = [i \in 1..c |-> g[i + a]]
    BY DEF IsTuple
<1>2. SubSeq(h, b + 1, b + c) = [i \in 1..c |-> h[i + b]]
    BY DEF IsTuple
<1>3. ASSUME NEW i \in 1..c PROVE g[i + a] = h[i + b]
  <2>1. i - 1 \in 0..(c - 1) /\ a + (i - 1) + 1 = i + a /\ b + (i - 1) + 1 = i + b
      BY ONLY i \in 1..c, a \in Nat, b \in Nat, c \in Nat
  <2> QED BY <2>1 DEF Agree
<1> QED BY <1>1, <1>2, <1>3

LEMMA FlattenIs ==
    ASSUME NEW got
    PROVE  IsTuple(Flatten(got), Len(got) * DBSIZ)
BY DEF Flatten, IsTuple

LEMMA ContentsIs ==
    ASSUME NEW dk, NEW f
    PROVE  IsTuple(Contents(dk, f), f.aic * f.lrecl)
BY DEF Contents, IsTuple

\* What is cut out of the blocks read is what the file holds there.
IsPart(dk, f, b, got, off, len) ==
    SubSeq(Flatten(got), off + 1, off + len)
      = SubSeq(Contents(dk, f), b * DBSIZ + off + 1, b * DBSIZ + off + len)

LEMMA PartOfFile ==
    ASSUME NEW dk, NEW f, NEW b \in Nat, NEW got, Len(got) \in Nat,
           AreBlocks(dk, f, b, got),
           NEW off \in Nat, NEW len \in Nat, off + len <= Len(got) * DBSIZ,
           f.aic * f.lrecl \in Nat, b * DBSIZ + off + len <= f.aic * f.lrecl
    PROVE  IsPart(dk, f, b, got, off, len)
<1>1. PICK m : m = Len(got) * DBSIZ
    OBVIOUS
<1>2. PICK n : n = f.aic * f.lrecl
    OBVIOUS
<1>3. PICK a : a = b * DBSIZ
    OBVIOUS
<1>4. m \in Nat /\ n \in Nat /\ a \in Nat
    BY <1>1, <1>2, <1>3, SizeFacts
<1>5. PICK g : g = Flatten(got)
    OBVIOUS
<1>6. PICK h : h = Contents(dk, f)
    OBVIOUS
<1>7. IsTuple(g, m) /\ IsTuple(h, n)
    BY <1>1, <1>2, <1>5, <1>6, FlattenIs, ContentsIs
<1>8. off + len <= m /\ a + off + len <= n
    BY <1>1, <1>2, <1>3
<1>9. ASSUME NEW i \in 0..(len - 1)
      PROVE  g[off + i + 1] = h[(a + off) + i + 1]
  <2>1. PICK x \in Nat : x = off + i /\ x < m /\ a + x < n
      BY <1>4, <1>8
  <2>2. g[x + 1] = CellAt(dk, f, a + x)
    <3>1. x < Len(got) * DBSIZ
        BY <2>1, <1>1
    <3>2. Flatten(got)[x + 1] = CellAt(dk, f, b * DBSIZ + x)
        BY <3>1, FlattenAt
    <3> QED BY <3>2, <1>3, <1>5
  <2>3. PICK y \in Nat : y = a + x
      BY <1>4
  <2>4. h[y + 1] = CellAt(dk, f, y)
    <3>1. y < f.aic * f.lrecl
        BY <2>1, <2>3, <1>2
    <3>2. Contents(dk, f)[y + 1] = CellAt(dk, f, y)
        BY <3>1, ContentsAt, Zenon
    <3> QED BY <3>2, <1>6
  <2>5. (a + off) + i + 1 = y + 1 /\ off + i + 1 = x + 1
      BY <2>1, <2>3, <1>4
  <2> QED BY <2>2, <2>3, <2>4, <2>5
<1>10. PICK c \in Nat : c = a + off
    BY <1>4
<1>11. c + len <= n
    BY <1>8, <1>10
<1>12. Agree(g, off, h, c, len)
    BY <1>9, <1>10 DEF Agree
<1>13. SubSeq(g, off + 1, off + len) = SubSeq(h, c + 1, c + len)
    BY <1>4, <1>7, <1>8, <1>11, <1>12, SameParts
<1> QED BY <1>3, <1>5, <1>6, <1>10, <1>13, Zenon DEF IsPart
\* What the caller makes of all the blocks it wanted is what the file holds.
LEMMA ResultIsRight ==
    ASSUME NEW dk, NEW f, f \in FilesOf(dk), FileSound(dk, f), NEW k, WantOK(k, f),
           k.cont = k.op.kind, k.cont \in {"rec", "nss"}, f.name = k.op.name,
           NEW got, Len(got) \in Nat, Len(got) = BlocksWanted(k, f),
           AreBlocks(dk, f, FirstBlock(k, f), got),
           NEW r, r.op = k.op, r.res.err = "0",
           r.res.cells =
             SubSeq(Flatten(got),
                    (IF k.cont = "rec" THEN (k.op.recno * f.lrecl) % DBSIZ ELSE 0) + 1,
                    (IF k.cont = "rec" THEN (k.op.recno * f.lrecl) % DBSIZ ELSE 0)
                      + (IF k.cont = "rec" THEN f.lrecl ELSE f.aic * f.lrecl))
    PROVE  Faithful(dk, r)
<1>1. /\ f.lrecl \in Nat /\ f.adbc \in Nat /\ f.aic \in Nat
      /\ f.aic * f.lrecl <= f.adbc * DBSIZ /\ (f.adbc = 0 => f.aic = 0)
    BY SoundFacts
<1>2. PICK size : size = f.aic * f.lrecl
    OBVIOUS
<1>3. size \in Nat /\ Len(Contents(dk, f)) = size
    BY <1>1, <1>2 DEF Contents
<1>4. f \in {e \in FilesOf(dk) : e.name = r.op.name}
    OBVIOUS
<1>5. CASE k.cont = "rec"
  <2>1. PICK from : from = k.op.recno * f.lrecl
      OBVIOUS
  <2>2. PICK b : b = FirstBlock(k, f)
      OBVIOUS
  <2>3. PICK off : off = Offset(k, f)
      OBVIOUS
  <2>4. k.op.recno \in Nat /\ k.op.recno < f.aic /\ f.lrecl <= DBSIZ
      BY <1>5 DEF WantOK
  <2>5. /\ b \in Nat /\ off \in 0..(DBSIZ - 1) /\ from \in Nat
        /\ from = b * DBSIZ + off
        /\ from + f.lrecl <= size
        /\ off + f.lrecl <= Len(got) * DBSIZ
      BY <1>1, <1>2, <1>5, <2>1, <2>2, <2>3, <2>4, RecordSpan
  <2>6. SubSeq(Flatten(got), off + 1, off + f.lrecl)
          = SubSeq(Contents(dk, f), b * DBSIZ + off + 1, b * DBSIZ + off + f.lrecl)
    <3>1. off \in Nat /\ AreBlocks(dk, f, b, got) /\ f.aic * f.lrecl \in Nat
          /\ b * DBSIZ + off + f.lrecl <= f.aic * f.lrecl
        BY <1>2, <1>3, <2>2, <2>5
    <3>2. PICK len \in Nat : len = f.lrecl
        BY <1>1
    <3>3. off + len <= Len(got) * DBSIZ /\ b * DBSIZ + off + len <= f.aic * f.lrecl
        BY <3>1, <3>2, <2>5
    <3>4. b \in Nat /\ Len(got) \in Nat
        BY <2>5
    <3>5. IsPart(dk, f, b, got, off, len)
        BY <3>1, <3>3, <3>4, PartOfFile
    <3> QED BY <3>2, <3>5, Zenon DEF IsPart
  <2>7. r.res.cells = SubSeq(Flatten(got), off + 1, off + f.lrecl)
      BY <1>5, <2>3 DEF Offset
  <2>8. r.res.cells = SubSeq(Contents(dk, f), r.op.recno * f.lrecl + 1,
                             r.op.recno * f.lrecl + f.lrecl)
      BY <2>1, <2>5, <2>6, <2>7
  <2>9. r.op.kind = "rec"
      BY <1>5
  <2> QED BY <1>4, <2>8, <2>9 DEF Faithful
<1>6. CASE k.cont # "rec"
  <2>1. FirstBlock(k, f) = 0 /\ BlocksWanted(k, f) = IF f.adbc = 0 THEN 1 ELSE f.adbc
      BY <1>6 DEF FirstBlock, BlocksWanted
  <2>2. r.res.cells = SubSeq(Flatten(got), 0 + 1, 0 + size)
      BY <1>2, <1>6
  <2>3. SubSeq(Flatten(got), 0 + 1, 0 + size)
          = SubSeq(Contents(dk, f), 0 * DBSIZ + 0 + 1, 0 * DBSIZ + 0 + size)
    <3>1. 0 * DBSIZ = 0 /\ DBSIZ \in Nat
        BY SizeFacts
    <3>2. 0 + size <= Len(got) * DBSIZ
      <4>1. f.adbc * DBSIZ <= Len(got) * DBSIZ /\ f.adbc * DBSIZ \in Nat
            /\ Len(got) * DBSIZ \in Nat
        <5>1. f.adbc <= Len(got)
            BY <2>1, <1>1
        <5> QED BY <5>1, <3>1, <1>1, MulMono
      <4> QED BY <4>1, <1>1, <1>2, <1>3
    <3>3. AreBlocks(dk, f, 0, got)
        BY <2>1
    <3>4. f.aic * f.lrecl \in Nat /\ 0 * DBSIZ + 0 + size <= f.aic * f.lrecl
        BY <3>1, <1>2, <1>3
    <3>5. 0 \in Nat /\ size \in Nat /\ Len(got) \in Nat
        BY <1>3
    <3>6. IsPart(dk, f, 0, got, 0, size)
        BY <3>2, <3>3, <3>4, <3>5, PartOfFile
    <3> QED BY <3>6, Zenon DEF IsPart
  <2>4. 0 * DBSIZ + 0 + 1 = 0 + 1 /\ 0 * DBSIZ + 0 + size = 0 + size
      BY <1>3, SizeFacts
  <2>5. r.op.kind # "rec"
      BY <1>6
  <2>6. r.res.cells = SubSeq(Contents(dk, f), 0 + 1, 0 + Len(Contents(dk, f)))
      BY <2>2, <2>3, <2>4, <1>3
  <2> QED BY <1>4, <2>5, <2>6 DEF Faithful
<1> QED BY <1>5, <1>6

-----------------------------------------------------------------------------
(* What a task relies on is kept by the others.                            *)

Grown(f, f2) ==
  /\ f2.fst = f.fst
  /\ Len(f.ents) <= Len(f2.ents)
  /\ \A n \in 1..Len(f.ents) : /\ f2.ents[n].level = f.ents[n].level
                               /\ f2.ents[n].blk = f.ents[n].blk

FilesKept(fs, lk, fs2, lk2) ==
  \A i : Known(fs, lk, i) => Known(fs2, lk2, i) /\ Grown(fs[i], fs2[i])

LEMMA FileTypes ==
    ASSUME NEW dk, NEW fs, NEW lk, FilesOK(dk, fs, lk), NEW i \in 1..Len(fs)
    PROVE  /\ Len(fs) \in Nat /\ Len(fs[i].ents) \in Nat /\ Len(fs[i].list) \in Nat
           /\ fs[i] \in FileObject(dk) /\ FileOK(dk, fs[i])
           /\ fs[i].fst \in Fsts(dk)
<1>1. fs[i] \in FileObject(dk) /\ FileOK(dk, fs[i]) /\ Len(fs) \in Nat
    BY DEF FilesOK
<1>2. fs[i].fst \in Fsts(dk) /\ fs[i].ents \in Seq(CacheEntry(dk)) /\ fs[i].list \in Seq(Nat)
    BY <1>1 DEF FileObject
<1> QED BY <1>1, <1>2

LEMMA DirectoryKnown ==
    ASSUME NEW dk, NEW fs, NEW lk, FilesOK(dk, fs, lk)
    PROVE  Known(fs, lk, 1)
BY DEF FilesOK, Known

LEMMA TaskKept ==
    ASSUME NEW dk, NEW fs, NEW lk, NEW fs2, NEW lk2, NEW t, NEW k,
           FilesOK(dk, fs, lk), FilesOK(dk, fs2, lk2), FilesKept(fs, lk, fs2, lk2),
           lk = t => lk2 = t, TaskOK(dk, fs, lk, t, k)
    PROVE  TaskOK(dk, fs2, lk2, t, k)
<1>1. ASSUME Target(dk, fs, lk, k)
      PROVE  Target(dk, fs2, lk2, k)
  <2>1. Known(fs, lk, k.file) /\ k.file \in 2..Len(fs)
      BY <1>1 DEF Target
  <2>2. Known(fs2, lk2, k.file) /\ fs2[k.file].fst = fs[k.file].fst
      BY <2>1 DEF FilesKept, Grown
  <2>3. Len(fs) \in Nat /\ Len(fs2) \in Nat
      BY DEF FilesOK
  <2>4. k.file \in 2..Len(fs2)
      BY <2>1, <2>2, <2>3 DEF Known
  <2> QED BY <1>1, <2>2, <2>4 DEF Target
<1>2. ASSUME BusyOK(dk, fs, lk, t, k)
      PROVE  BusyOK(dk, fs2, lk2, t, k)
  <2>1. Known(fs, lk, k.file)
      BY <1>2, DirectoryKnown DEF BusyOK, Target
  <2>2. /\ Known(fs2, lk2, k.file) /\ fs2[k.file].fst = fs[k.file].fst
        /\ Len(fs[k.file].ents) <= Len(fs2[k.file].ents)
        /\ \A n \in 1..Len(fs[k.file].ents) :
             /\ fs2[k.file].ents[n].level = fs[k.file].ents[n].level
             /\ fs2[k.file].ents[n].blk = fs[k.file].ents[n].blk
      BY <2>1 DEF FilesKept, Grown
  <2>3. k.file \in 1..Len(fs) /\ k.file \in 1..Len(fs2)
      BY <2>1, <2>2 DEF Known
  <2>4. Len(fs[k.file].ents) \in Nat /\ Len(fs2[k.file].ents) \in Nat
      BY <2>3, FileTypes
  <2>5. FoundOK(dk, k, fs2[k.file])
    <3>1. FoundOK(dk, k, fs[k.file])
        BY <1>2 DEF BusyOK
    <3>2. PICK top : top = Last(k.frames)
        OBVIOUS
    <3>3. PICK f, f2 : f = fs[k.file] /\ f2 = fs2[k.file]
        OBVIOUS
    <3>4. /\ k.pc \in {"add", "link"} =>
               LET right == Lba(dk, f.fst, top.level, top.blk)
               IN  k.lba \in {0, right} /\ (k.bad \/ k.lba = right)
          /\ k.pc \in {"found", "io"} => /\ top.ent \in 1..Len(f.ents)
                                         /\ f.ents[top.ent].level = top.level
                                         /\ f.ents[top.ent].blk = top.blk
        BY <3>1, <3>2, <3>3, Zenon DEF FoundOK
    <3>5. k.pc \in {"found", "io"} => /\ top.ent \in 1..Len(f2.ents)
                                     /\ f2.ents[top.ent].level = top.level
                                     /\ f2.ents[top.ent].blk = top.blk
      <4>1. /\ Len(f.ents) \in Nat /\ Len(f2.ents) \in Nat /\ Len(f.ents) <= Len(f2.ents)
            /\ \A n \in 1..Len(f.ents) : /\ f2.ents[n].level = f.ents[n].level
                                          /\ f2.ents[n].blk = f.ents[n].blk
          BY <3>3, <2>2, <2>4
      <4> QED BY <3>4, <4>1
    <3>6. f2.fst = f.fst
        BY <3>3, <2>2
    <3> QED BY <3>2, <3>3, <3>4, <3>5, <3>6, Zenon DEF FoundOK
  <2>6. k.cont # "dir" => Target(dk, fs2, lk2, k) /\ k.cont = k.op.kind
      BY <1>1, <1>2 DEF BusyOK
  <2> QED BY <1>2, <2>2, <2>3, <2>5, <2>6 DEF BusyOK
<1>3. k.pc = "open" => Target(dk, fs2, lk2, k) /\ k.got = <<>>
    BY <1>1 DEF TaskOK
<1>4. k.pc \in Busy => BusyOK(dk, fs2, lk2, t, k)
    BY <1>2 DEF TaskOK
<1> QED BY <1>3, <1>4 DEF TaskOK
LEMMA FilesSame ==
    ASSUME NEW dk, NEW fs, NEW lk, FilesOK(dk, fs, lk)
    PROVE  FilesKept(fs, lk, fs, lk)
<1>1. ASSUME NEW i, Known(fs, lk, i) PROVE Grown(fs[i], fs[i])
  <2>1. Len(fs[i].ents) \in Nat
      BY <1>1, FileTypes DEF Known
  <2> QED BY <2>1 DEF Grown
<1> QED BY <1>1 DEF FilesKept

\* A file of which the cache has grown, or that is locked or unlocked.
Replaced(fs, i, f2, fs2) == fs2 = [fs EXCEPT ![i] = f2]

LEMMA FileReplaced ==
    ASSUME NEW dk, NEW fs, NEW lk, FilesOK(dk, fs, lk), NEW i, Known(fs, lk, i),
           NEW f2, FileOK(dk, f2), Grown(fs[i], f2),
           NEW fs2, Replaced(fs, i, f2, fs2)
    PROVE  /\ FilesOK(dk, fs2, lk) /\ FilesKept(fs, lk, fs2, lk)
           /\ Len(fs2) = Len(fs) /\ fs2[i] = f2
           /\ \A j \in 1..Len(fs) : j # i => fs2[j] = fs[j]
<1>1. f2 \in FileObject(dk) /\ fs \in Seq(FileObject(dk)) /\ i \in 1..Len(fs)
      /\ Len(fs) \in Nat
    BY DEF FileOK, FilesOK, Known
<1>2. fs2 \in Seq(FileObject(dk)) /\ Len(fs2) = Len(fs) /\ fs2[i] = f2
      /\ \A j \in 1..Len(fs) : j # i => fs2[j] = fs[j]
    BY <1>1 DEF Replaced
<1>3. \A j \in 1..Len(fs) : fs2[j].fst = fs[j].fst
    BY <1>2 DEF Grown
<1>4. \A j : Known(fs2, lk, j) <=> Known(fs, lk, j)
    BY <1>2 DEF Known
<1>5. \A j \in 1..Len(fs2) : FileOK(dk, fs2[j])
    BY <1>2 DEF FilesOK
<1>6. 1 \in 1..Len(fs) /\ Len(fs) \in 1..Len(fs)
    BY DEF FilesOK
<1>7. lk # None => Len(fs2) >= 2 /\ fs2[Len(fs2)] = File(NoFst)
    BY <1>2, <1>6 DEF FilesOK, Known
<1>8. FilesOK(dk, fs2, lk)
  <2>1. fs2[1].fst = DirFst(dk) /\ DirFst(dk).name = DIRECTOR /\ Len(fs2) >= 1
        /\ lk \in Tasks \cup {None}
      BY <1>2, <1>3, <1>6 DEF FilesOK
  <2>2. \A j \in 2..Len(fs2) : Known(fs2, lk, j) => fs2[j].fst \in FilesOf(dk)
      BY <1>1, <1>2, <1>3, <1>4 DEF FilesOK
  <2> QED BY <1>2, <1>5, <1>7, <2>1, <2>2 DEF FilesOK
<1>9. FilesKept(fs, lk, fs2, lk)
  <2>1. ASSUME NEW j, Known(fs, lk, j) PROVE Known(fs2, lk, j) /\ Grown(fs[j], fs2[j])
    <3>1. Known(fs2, lk, j) /\ j \in 1..Len(fs)
        BY <2>1, <1>4 DEF Known
    <3>2. CASE j = i
        BY <3>1, <3>2, <1>2
    <3>3. CASE j # i
        BY <3>1, <3>3, <1>2, <2>1, FilesSame DEF FilesKept
    <3> QED BY <3>1, <3>2, <3>3
  <2> QED BY <2>1 DEF FilesKept
<1> QED BY <1>2, <1>8, <1>9

-----------------------------------------------------------------------------
(* A sound volume.                                                         *)

LEMMA FstSound ==
    ASSUME NEW dk, VolumeSound(dk), NEW f \in Fsts(dk)
    PROVE  FileSound(dk, f)
<1>1. FileSound(dk, DirFst(dk)) /\ \A e \in FilesOf(dk) : FileSound(dk, e)
    BY DEF VolumeSound
<1>2. FileSound(dk, NoFst)
  <2>1. /\ NoFst.lrecl = 0 /\ NoFst.fop = 0 /\ NoFst.adbc = 0 /\ NoFst.aic = 0
        /\ NoFst.nlvl = 0
      BY DEF NoFst, Fst
  <2>2. 0 * 0 <= 0 * DBSIZ
      BY SizeFacts
  <2> QED BY <2>1, <2>2 DEF FileSound
<1> QED BY <1>1, <1>2 DEF Fsts

LEMMA DirectorySound ==
    ASSUME NEW dk, VolumeSound(dk)
    PROVE  /\ FileSound(dk, DirFst(dk)) /\ DirFst(dk).adbc \in Nat /\ DirFst(dk).adbc # 0
           /\ DirFst(dk) \in Fsts(dk) /\ DirFst(dk).nlvl \in Nat
           /\ InFile(DirFst(dk), 0, 0) /\ Lba(dk, DirFst(dk), 0, 0) = DOP0
<1>1. FileSound(dk, DirFst(dk)) /\ DirFst(dk).adbc > 0
      /\ DataBlocks(dk, DirFst(dk))[1] = DOP0
    BY DEF VolumeSound
<1>2. DirFst(dk).adbc \in Nat /\ DirFst(dk).nlvl \in Nat
    BY <1>1, SoundFacts
<1>3. BlocksAt(DirFst(dk))[0] = DirFst(dk).adbc
    BY <1>2, CountNat
<1>4. InFile(DirFst(dk), 0, 0)
    BY <1>1, <1>2, <1>3 DEF InFile
<1>5. Lba(dk, DirFst(dk), 0, 0) = DOP0
    BY <1>1 DEF Lba, DataBlocks
<1> QED BY <1>1, <1>2, <1>4, <1>5 DEF Fsts

\* An entry in a block of the directory is one of the directory.
LEMMA EntryInBlock ==
    ASSUME NEW dk, VolumeSound(dk), NEW b \in 0..(DirFst(dk).adbc - 1), NEW c \in Cells,
           IsFst(Right(dk, DirFst(dk), 0, b)[c])
    PROVE  Right(dk, DirFst(dk), 0, b)[c] \in Entries(dk)
<1>1. DirFst(dk).adbc \in Nat
    BY DirectorySound
<1>2. PICK d \in 1..DirFst(dk).adbc : d = b + 1
    BY <1>1
<1>3. Right(dk, DirFst(dk), 0, b) = At(dk, DataBlocks(dk, DirFst(dk))[d])
    BY <1>2 DEF Right, Lba, DataBlocks
<1> QED BY <1>2, <1>3 DEF VolumeSound

\* A name that is in no block of it is that of no file.
LEMMA NameNowhere ==
    ASSUME NEW dk, VolumeSound(dk), NEW name,
           \A b \in 0..(DirFst(dk).adbc - 1) : ~NameIn(Right(dk, DirFst(dk), 0, b), name)
    PROVE  {e \in FilesOf(dk) : e.name = name} = {}
<1> DEFINE dir == DirFst(dk)
<1>1. SUFFICES ASSUME NEW e \in FilesOf(dk), e.name = name PROVE FALSE
    OBVIOUS
<1>2. e \in Range(Contents(dk, dir)) /\ IsFst(e)
    BY DEF FilesOf, Entries
<1>3. /\ dir.lrecl \in Nat /\ dir.aic \in Nat /\ dir.adbc \in Nat
      /\ dir.aic * dir.lrecl <= dir.adbc * DBSIZ
    BY DirectorySound, SoundFacts
<1>4. PICK size \in Nat : size = dir.aic * dir.lrecl
    BY <1>3
<1>5. DOMAIN Contents(dk, dir) = 1..size
    BY <1>4 DEF Contents
<1>6. PICK i \in 1..size : e = Contents(dk, dir)[i]
    BY <1>2, <1>5 DEF Range
<1>7. PICK n \in Nat : n + 1 = i /\ n < size
    BY i - 1 \in Nat /\ (i - 1) + 1 = i /\ i - 1 < size
<1>8. e = CellAt(dk, dir, n)
    BY <1>4, <1>6, <1>7, ContentsAt
<1>9. PICK q : q = n \div DBSIZ
    OBVIOUS
<1>10. PICK r : r = n % DBSIZ
    OBVIOUS
<1>11. q \in Nat /\ r \in Cells /\ n = q * DBSIZ + r /\ r \in Nat
  <2>1. /\ n \div DBSIZ \in Nat /\ n % DBSIZ \in 0..(DBSIZ - 1)
        /\ n = (n \div DBSIZ) * DBSIZ + (n % DBSIZ)
      BY <1>7, DivMod, SizeFacts
  <2> HIDE DEF dir
  <2> QED BY <2>1, <1>9, <1>10, SizeFacts
<1>12. q < dir.adbc
  <2>1. SUFFICES ASSUME dir.adbc <= q PROVE FALSE
      BY <1>3, <1>11
  <2>2. dir.adbc * DBSIZ <= q * DBSIZ /\ q * DBSIZ \in Nat /\ dir.adbc * DBSIZ \in Nat
      BY <2>1, <1>3, <1>11, MulMono, SizeFacts
  <2> QED BY <2>2, <1>3, <1>4, <1>7, <1>11
<1>13. e = Right(dk, dir, 0, q)[r]
    BY <1>8, <1>9, <1>10 DEF CellAt, Right, Lba, DataBlocks
<1>14. q \in 0..(dir.adbc - 1)
    BY <1>3, <1>11, <1>12
<1> QED BY <1>1, <1>2, <1>11, <1>13, <1>14 DEF NameIn

-----------------------------------------------------------------------------
(* The cache of a file.                                                    *)

LEMMA EmptyFile ==
    ASSUME NEW dk, NEW f \in Fsts(dk)
    PROVE  FileOK(dk, File(f)) /\ File(f).fst = f /\ File(f).ents = <<>> /\ File(f).lock = None
BY DEF File, FileOK, FileObject

LEMMA EntryAdded ==
    ASSUME NEW dk, VolumeSound(dk), NEW f, FileOK(dk, f), NEW level, NEW blk,
           InFile(f.fst, level, blk),
           NEW lba \in Nat, lba \in {0, Lba(dk, f.fst, level, blk)}, NEW bad \in BOOLEAN,
           bad \/ lba = Lba(dk, f.fst, level, blk), NEW tail,
           NEW f2, f2 = __bcache_add(f, level, blk, lba, bad, tail)
    PROVE  /\ FileOK(dk, f2) /\ Grown(f, f2)
           /\ Len(f.ents) + 1 \in 1..Len(f2.ents)
           /\ f2.ents[Len(f.ents) + 1].level = level /\ f2.ents[Len(f.ents) + 1].blk = blk
<1> DEFINE e == [level |-> level, blk |-> blk, lba |-> lba, data |-> NoData, bad |-> bad]
<1>1. f.fst \in Fsts(dk) /\ f.ents \in Seq(CacheEntry(dk)) /\ f.list \in Seq(Nat)
      /\ f.last \in Nat /\ f.lock \in Tasks \cup {None}
      /\ f.ents \in Seq(EntriesOf(dk, f.fst)) /\ f.list \in Seq(1..Len(f.ents))
      /\ f = [fst |-> f.fst, ents |-> f.ents, list |-> f.list, last |-> f.last,
              lock |-> f.lock]
    BY DEF FileOK, FileObject
<1>2. FileSound(dk, f.fst)
    BY <1>1, FstSound
<1>3. level \in Nat /\ blk \in Nat
    BY <1>2, SoundFacts DEF InFile
<1>4. e \in CacheEntry(dk)
    BY <1>3 DEF CacheEntry
<1>6. EntryOK(dk, f.fst, e)
    BY DEF EntryOK
<1>7. e \in EntriesOf(dk, f.fst)
    BY <1>4, <1>6 DEF EntriesOf
<1>8. PICK n : n = Len(f.ents)
    OBVIOUS
<1>9. PICK ents : ents = Append(f.ents, e)
    OBVIOUS
<1>10. PICK list : list = ListAddTail(f.list, tail, n + 1)
    OBVIOUS
<1>11. f2 = [fst |-> f.fst, ents |-> ents, list |-> list, last |-> n + 1, lock |-> f.lock]
  <2>1. f2 = [f EXCEPT !.ents = ents, !.list = list, !.last = n + 1]
      BY <1>8, <1>9, <1>10 DEF __bcache_add
  <2> QED BY <2>1, <1>1
<1>12. n \in Nat /\ Len(ents) = n + 1 /\ \A i \in 1..n : ents[i] = f.ents[i]
    BY <1>1, <1>8, <1>9
<1>13. ents[n + 1] = e /\ ents \in Seq(CacheEntry(dk)) /\ ents \in Seq(EntriesOf(dk, f.fst))
  <2> HIDE DEF e
  <2> QED BY <1>1, <1>4, <1>7, <1>8, <1>9
<1>14. list \in Seq(1..(n + 1)) /\ list \in Seq(Nat)
  <2>1. f.list \in Seq(1..(n + 1)) /\ n + 1 \in 1..(n + 1)
      BY <1>1, <1>8, <1>12
  <2>2. list \in Seq(1..(n + 1))
      BY <2>1, <1>10, ListAddTailType
  <2> QED BY <2>2, <1>12
<1>15. FileOK(dk, f2)
    BY <1>1, <1>11, <1>12, <1>13, <1>14 DEF FileOK, FileObject
<1>16. Grown(f, f2)
    BY <1>8, <1>11, <1>12 DEF Grown
<1> QED BY <1>8, <1>11, <1>12, <1>13, <1>15, <1>16
\* A block that is in the cache is the right one, unless a status was dropped.
LEMMA EntryHolds ==
    ASSUME NEW dk, NEW f, FileOK(dk, f), NEW n \in 1..Len(f.ents), NEW e, e = f.ents[n]
    PROVE  /\ e \in CacheEntry(dk) /\ EntryOK(dk, f.fst, e)
           /\ e.data # NoData =>
                /\ e.data \in Bufs(dk)
                /\ e.data \in {Junk, Right(dk, f.fst, e.level, e.blk)}
                /\ ~e.bad => e.data = Right(dk, f.fst, e.level, e.blk)
<1>1. e \in EntriesOf(dk, f.fst)
    BY DEF FileOK
<1>2. e \in CacheEntry(dk) /\ EntryOK(dk, f.fst, e)
    BY <1>1 DEF EntriesOf
<1>3. ASSUME e.data # NoData
      PROVE  /\ e.data \in Bufs(dk)
             /\ e.data \in {Junk, Right(dk, f.fst, e.level, e.blk)}
             /\ ~e.bad => e.data = Right(dk, f.fst, e.level, e.blk)
  <2>1. e.data \in Bufs(dk)
      BY <1>2, <1>3 DEF CacheEntry
  <2> QED BY <2>1, <1>2, <1>3 DEF EntryOK
<1> QED BY <1>2, <1>3

\* A block has been read into the cache, or it only looks as if.
WithBlock(f, n, block, bad) ==
    [f EXCEPT !.ents = [f.ents EXCEPT ![n] = [f.ents[n] EXCEPT !.data = block, !.bad = bad]]]

LEMMA EntryRead ==
    ASSUME NEW dk, NEW f, FileOK(dk, f), NEW n \in 1..Len(f.ents), NEW e, e = f.ents[n],
           ~(e.lba < 1), NEW good \in BOOLEAN, NEW block,
           block = IF good THEN At(dk, e.lba) ELSE Junk,
           NEW bad \in BOOLEAN, bad <=> (e.bad \/ ~good),
           NEW f2, f2 = WithBlock(f, n, block, bad)
    PROVE  /\ FileOK(dk, f2) /\ Grown(f, f2) /\ Len(f2.ents) = Len(f.ents)
           /\ block \in Bufs(dk)
           /\ block \in {Junk, Right(dk, f.fst, e.level, e.blk)}
           /\ ~bad => block = Right(dk, f.fst, e.level, e.blk)
<1>1. e \in CacheEntry(dk) /\ EntryOK(dk, f.fst, e)
    BY EntryHolds
<1>2. PICK e2 : e2 = [e EXCEPT !.data = block, !.bad = bad]
    OBVIOUS
<1>3. block \in Bufs(dk)
    BY BufTypes
<1>4. e.lba = Lba(dk, f.fst, e.level, e.blk) /\ e.bad \in BOOLEAN
    BY <1>1 DEF EntryOK, CacheEntry
<1>5. /\ e2 \in CacheEntry(dk) /\ e2.level = e.level /\ e2.blk = e.blk /\ e2.lba = e.lba
      /\ e2.data = block /\ e2.bad = bad
    BY <1>1, <1>2, <1>3 DEF CacheEntry
<1>6. /\ block \in {Junk, Right(dk, f.fst, e.level, e.blk)}
      /\ ~bad => block = Right(dk, f.fst, e.level, e.blk)
    BY <1>4 DEF Right
<1>7. EntryOK(dk, f.fst, e2)
    BY <1>1, <1>4, <1>5, <1>6 DEF EntryOK
<1>8. e2 \in EntriesOf(dk, f.fst)
    BY <1>5, <1>7 DEF EntriesOf
<1>9. f.fst \in Fsts(dk) /\ f.ents \in Seq(CacheEntry(dk)) /\ f.list \in Seq(Nat)
      /\ f.last \in Nat /\ f.lock \in Tasks \cup {None}
      /\ f.ents \in Seq(EntriesOf(dk, f.fst)) /\ f.list \in Seq(1..Len(f.ents))
      /\ f = [fst |-> f.fst, ents |-> f.ents, list |-> f.list, last |-> f.last,
              lock |-> f.lock]
    BY DEF FileOK, FileObject
<1>10. PICK ents : ents = [f.ents EXCEPT ![n] = e2]
    OBVIOUS
<1>11. f2 = [fst |-> f.fst, ents |-> ents, list |-> f.list, last |-> f.last,
             lock |-> f.lock]
  <2>1. f2 = [f EXCEPT !.ents = ents]
    <3>1. e2 = [f.ents[n] EXCEPT !.data = block, !.bad = bad]
        BY <1>2, Zenon
    <3>2. ents = [f.ents EXCEPT ![n] = [f.ents[n] EXCEPT !.data = block, !.bad = bad]]
        BY <3>1, <1>10, Zenon
    <3>3. WithBlock(f, n, block, bad) = [f EXCEPT !.ents = ents]
        BY ONLY <3>2 DEF WithBlock
    <3> QED BY <3>3
  <2> QED BY <2>1, <1>9
<1>12. /\ ents \in Seq(CacheEntry(dk)) /\ ents \in Seq(EntriesOf(dk, f.fst))
       /\ Len(ents) = Len(f.ents) /\ Len(f.ents) \in Nat
       /\ \A i \in 1..Len(f.ents) : ents[i] = IF i = n THEN e2 ELSE f.ents[i]
    BY <1>5, <1>8, <1>9, <1>10
<1>13. FileOK(dk, f2)
    BY <1>9, <1>11, <1>12 DEF FileOK, FileObject
<1>14. Grown(f, f2)
    BY <1>5, <1>11, <1>12 DEF Grown
<1> QED BY <1>3, <1>6, <1>11, <1>12, <1>13, <1>14

LEMMA FileLocked ==
    ASSUME NEW dk, NEW f, FileOK(dk, f), NEW x \in Tasks \cup {None},
           NEW f2, f2 = [f EXCEPT !.lock = x]
    PROVE  FileOK(dk, f2) /\ Grown(f, f2)
<1>1. f.fst \in Fsts(dk) /\ f.ents \in Seq(CacheEntry(dk)) /\ f.list \in Seq(Nat)
      /\ f.last \in Nat
      /\ f.ents \in Seq(EntriesOf(dk, f.fst)) /\ f.list \in Seq(1..Len(f.ents))
      /\ f = [fst |-> f.fst, ents |-> f.ents, list |-> f.list, last |-> f.last,
              lock |-> f.lock]
    BY DEF FileOK, FileObject
<1>2. f2 = [fst |-> f.fst, ents |-> f.ents, list |-> f.list, last |-> f.last, lock |-> x]
    BY <1>1
<1>3. Len(f.ents) \in Nat
    BY <1>1
<1>4. FileOK(dk, f2)
    BY <1>1, <1>2 DEF FileOK, FileObject
<1> QED BY <1>2, <1>3, <1>4 DEF Grown

-----------------------------------------------------------------------------
(* The steps of a task.                                                    *)

\* What a step of task t makes of the files, of fs->lock and of the task.
Advance(dk, fs, lk, t, fs2, lk2, k2) ==
  /\ FilesOK(dk, fs2, lk2)
  /\ FilesKept(fs, lk, fs2, lk2)
  /\ \A u \in Tasks : u # t /\ lk = u => lk2 = u
  /\ TaskOK(dk, fs2, lk2, t, k2)

LEMMA AdvanceKeeps ==
    ASSUME EdfInv, up = "mounted", up' = up, disk' = disk, NEW t \in Tasks, NEW k2,
           Advance(disk, files, fslock, t, files', fslock', k2),
           task' = [task EXCEPT ![t] = k2]
    PROVE  EdfInv'
<1>1. DOMAIN task = Tasks /\ FilesOK(disk, files, fslock)
      /\ \A u \in Tasks : TaskOK(disk, files, fslock, u, task[u])
    BY DEF EdfInv, Quiet
<1>2. /\ FilesOK(disk, files', fslock') /\ FilesKept(files, fslock, files', fslock')
      /\ \A u \in Tasks : u # t /\ fslock = u => fslock' = u
      /\ TaskOK(disk, files', fslock', t, k2)
    BY DEF Advance
<1>3. ASSUME NEW u \in Tasks PROVE TaskOK(disk, files', fslock', u, task'[u])
  <2>1. CASE u = t
      BY <2>1, <1>1, <1>2
  <2>2. CASE u # t
    <3>1. task'[u] = task[u] /\ TaskOK(disk, files, fslock, u, task[u])
        BY <2>2, <1>1
    <3>2. fslock = u => fslock' = u
        BY <2>2, <1>2
    <3>3. TaskOK(disk, files', fslock', u, task[u])
        BY <3>1, <3>2, <1>1, <1>2, TaskKept
    <3> QED BY <3>1, <3>3
  <2> QED BY <2>1, <2>2
<1>4. DOMAIN task' = Tasks
    BY <1>1
<1>5. up' = "mounted" /\ FilesOK(disk', files', fslock')
    BY <1>2
<1>6. \A u \in Tasks : TaskOK(disk', files', fslock', u, task'[u])
    BY <1>3
<1> QED BY <1>4, <1>5, <1>6, Zenon DEF EdfInv

LEMMA KeptTwice ==
    ASSUME NEW a, NEW la, NEW b, NEW lb, NEW c, NEW lc, NEW dk,
           FilesOK(dk, a, la), FilesOK(dk, b, lb), FilesOK(dk, c, lc),
           FilesKept(a, la, b, lb), FilesKept(b, lb, c, lc)
    PROVE  FilesKept(a, la, c, lc)
<1>1. ASSUME NEW i, Known(a, la, i) PROVE Known(c, lc, i) /\ Grown(a[i], c[i])
  <2>1. Known(b, lb, i) /\ Grown(a[i], b[i])
      BY <1>1 DEF FilesKept
  <2>2. Known(c, lc, i) /\ Grown(b[i], c[i])
      BY <2>1 DEF FilesKept
  <2>3. Len(a[i].ents) \in Nat /\ Len(b[i].ents) \in Nat /\ Len(c[i].ents) \in Nat
      BY <1>1, <2>1, <2>2, FileTypes DEF Known
  <2>4. PICK x, y, z : x = a[i] /\ y = b[i] /\ z = c[i]
      OBVIOUS
  <2>5. Grown(x, z)
      BY <2>1, <2>2, <2>3, <2>4, SMTT(40) DEF Grown
  <2> QED BY <2>2, <2>4, <2>5
<1> QED BY <1>1 DEF FilesKept
\* A task that starts to read the first block it wants.
LEMMA StartRead ==
    ASSUME NEW dk, VolumeSound(dk), NEW fs, NEW lk, FilesOK(dk, fs, lk), NEW t,
           NEW k, DOMAIN k = Fields, k.op \in Ops, k.bad \in BOOLEAN, k.tail \in Nat,
           k.lba \in Nat, NEW file \in 1..Len(fs), NEW cont, NEW want, want # <<>>,
           NEW r, r = Reading(k, file, cont, want),
           cont \in {"rec", "nss", "dir"},
           IF cont = "dir" THEN file = 1 /\ lk = t
           ELSE Target(dk, fs, lk, r) /\ cont = k.op.kind,
           WantOK(r, fs[file].fst), GotOK(dk, r, fs[file].fst)
    PROVE  TaskOK(dk, fs, lk, t, r)
<1>1. /\ DOMAIN r = Fields /\ r.pc = "search" /\ r.file = file /\ r.cont = cont
      /\ r.want = want
      /\ r.frames = <<[level |-> 0, blk |-> Head(want), ent |-> 0]>>
      /\ r.op = k.op /\ r.lba = k.lba /\ r.tail = k.tail /\ r.bad = k.bad
    BY ReadingFacts
<1>2. PICK f : f = fs[file].fst
    OBVIOUS
<1>3. FileSound(dk, f)
    BY <1>2, FileTypes, FstSound
<1>4. InFile(f, 0, r.want[1]) /\ r.want[1] \in Nat
    BY <1>1, <1>2, <1>3, WantIn
<1>5. Head(want) = r.want[1]
  <2>1. want \in Seq(Nat)
      BY <1>1 DEF WantOK
  <2> QED BY <2>1, <1>1
<1>6. FramesOK(r, f)
  <2>1. PICK fr : fr = [level |-> 0, blk |-> Head(want), ent |-> 0]
      OBVIOUS
  <2>2. fr \in Frame /\ fr.level = 0 /\ fr.blk = r.want[1]
      BY <2>1, <1>4, <1>5 DEF Frame
  <2>3. r.frames = <<fr>>
      BY <1>1, <2>1
  <2>4. r.frames \in Seq(Frame) /\ Len(r.frames) = 1 /\ r.frames[1] = fr /\ r.frames # <<>>
      BY <2>2, <2>3
  <2>5. \A j \in 1..Len(r.frames) : /\ r.frames[j].level = j - 1
                                    /\ InFile(f, j - 1, r.frames[j].blk)
    <3>1. ASSUME NEW j \in 1..Len(r.frames)
          PROVE  r.frames[j].level = j - 1 /\ InFile(f, j - 1, r.frames[j].blk)
      <4>1. j = 1 /\ j - 1 = 0
          BY <2>4
      <4> QED BY <4>1, <2>2, <2>4, <1>4
    <3> QED BY <3>1
  <2> QED BY <2>2, <2>4, <2>5 DEF FramesOK
<1>7. FoundOK(dk, r, fs[file])
    BY <1>1 DEF FoundOK
<1>8. BusyOK(dk, fs, lk, t, r)
    BY <1>1, <1>2, <1>6, <1>7 DEF BusyOK
<1> QED BY <1>1, <1>8 DEF TaskOK, Busy

LEMMA DoneOK ==
    ASSUME NEW dk, NEW fs, NEW lk, NEW t, NEW k, k.op \in Ops, k.bad \in BOOLEAN,
           NEW err, NEW cells, NEW r, r = Done(k, err, cells), Faithful(dk, r)
    PROVE  TaskOK(dk, fs, lk, t, r)
BY DoneFacts DEF TaskOK, Busy

\* What a dropped status makes of a task.
LEMMA WorseFacts ==
    ASSUME NEW k, DOMAIN k = Fields, k.bad \in BOOLEAN, NEW bad \in BOOLEAN,
           NEW r, r = [k EXCEPT !.bad = @ \/ bad]
    PROVE  /\ DOMAIN r = Fields /\ r.bad \in BOOLEAN /\ (r.bad <=> k.bad \/ bad)
           /\ r.pc = k.pc /\ r.op = k.op /\ r.file = k.file /\ r.cont = k.cont
           /\ r.frames = k.frames /\ r.lba = k.lba /\ r.tail = k.tail
           /\ r.want = k.want /\ r.got = k.got
BY DEF Fields

LEMMA UnlockKeeps ==
    ASSUME NEW dk, NEW fs, NEW lk, FilesOK(dk, fs, lk), NEW k, Known(fs, lk, k.file),
           NEW fs2, fs2 = Unlock(fs, k)
    PROVE  FilesOK(dk, fs2, lk) /\ FilesKept(fs, lk, fs2, lk)
<1>1. CASE k.cont = "rec"
  <2>1. PICK f2 : f2 = [fs[k.file] EXCEPT !.lock = None]
      OBVIOUS
  <2>2. fs2 = [fs EXCEPT ![k.file] = f2]
      BY <1>1, <2>1 DEF Unlock
  <2>3. FileOK(dk, fs[k.file])
      BY FileTypes DEF Known
  <2>4. FileOK(dk, f2) /\ Grown(fs[k.file], f2)
      BY <2>1, <2>3, FileLocked
  <2>5. PICK i : i = k.file
      OBVIOUS
  <2>6. fs2 = [fs EXCEPT ![i] = f2] /\ Grown(fs[i], f2) /\ Known(fs, lk, i)
      BY <2>2, <2>4, <2>5
  <2>7. Replaced(fs, i, f2, fs2)
      BY <2>6 DEF Replaced
  <2> QED BY <2>4, <2>6, <2>7, FileReplaced
<1>2. CASE k.cont # "rec"
    BY <1>2, FilesSame DEF Unlock
<1> QED BY <1>1, <1>2

\* The file that was not found, or could not be read, is freed.
LEMMA DropLast ==
    ASSUME NEW dk, NEW fs, NEW t \in Tasks, FilesOK(dk, fs, t),
           NEW fs2, fs2 = Front(fs)
    PROVE  FilesOK(dk, fs2, None) /\ FilesKept(fs, t, fs2, None)
<1>1. t # None
    BY EdfAssumption DEF None
<1>2. PICK n : n = Len(fs)
    OBVIOUS
<1>3. fs \in Seq(FileObject(dk)) /\ n \in Nat /\ n >= 2
    BY <1>1, <1>2 DEF FilesOK
<1>4. /\ fs2 \in Seq(FileObject(dk)) /\ Len(fs2) = n - 1
      /\ \A i \in 1..(n - 1) : fs2[i] = fs[i]
    BY <1>2, <1>3 DEF Front
<1>5. \A i : Known(fs, t, i) <=> i \in 1..(n - 1)
    BY <1>1, <1>2, <1>3 DEF Known
<1>6. \A i : Known(fs2, None, i) <=> i \in 1..(n - 1)
    BY <1>3, <1>4 DEF Known
<1>7. FilesOK(dk, fs2, None)
  <2>1. \A i \in 1..Len(fs2) : FileOK(dk, fs2[i])
      BY <1>2, <1>3, <1>4 DEF FilesOK
  <2>2. fs2[1].fst = DirFst(dk) /\ DirFst(dk).name = DIRECTOR /\ Len(fs2) >= 1
      BY <1>3, <1>4 DEF FilesOK
  <2>3. \A i \in 2..Len(fs2) : Known(fs2, None, i) => fs2[i].fst \in FilesOf(dk)
      BY <1>2, <1>3, <1>4, <1>5 DEF FilesOK
  <2> QED BY <1>4, <2>1, <2>2, <2>3 DEF FilesOK
<1>8. FilesKept(fs, t, fs2, None)
    BY <1>4, <1>5, <1>6, FilesSame DEF FilesKept
<1> QED BY <1>7, <1>8

\* A reader that gives up.
LEMMA FailKeeps ==
    ASSUME VolumeSound(disk), NEW t \in Tasks, FilesOK(disk, files, fslock),
           NEW k, k = task[t], TaskOK(disk, files, fslock, t, k), k.pc \in Busy,
           NEW err, NEW bad \in BOOLEAN, Fail(t, err, bad),
           NEW k1, k1 = [k EXCEPT !.bad = @ \/ bad],
           Faithful(disk, Done(k1, err, <<>>))
    PROVE  \E k2 : /\ task' = [task EXCEPT ![t] = k2]
                   /\ Advance(disk, files, fslock, t, files', fslock', k2)
<1>1. DOMAIN k = Fields /\ k.bad \in BOOLEAN /\ k.op \in Ops
      /\ BusyOK(disk, files, fslock, t, k)
    BY DEF TaskOK, Busy
<1>2. k1.op = k.op /\ k1.bad \in BOOLEAN /\ k1.cont = k.cont /\ k1.file = k.file
    BY <1>1, WorseFacts
<1>3. PICK k2 : k2 = Done(k1, err, <<>>)
    OBVIOUS
<1>4. TaskOK(disk, files', fslock', t, k2)
    BY <1>1, <1>2, <1>3, DoneOK
<1>5. task' = [task EXCEPT ![t] = k2]
    BY <1>3 DEF Fail
<1>6. CASE k.cont = "dir"
  <2>1. files' = Front(files) /\ fslock' = None /\ fslock = t
      BY <1>1, <1>2, <1>6 DEF Fail, BusyOK
  <2>2. FilesOK(disk, files', fslock') /\ FilesKept(files, fslock, files', fslock')
      BY <2>1, DropLast
  <2> QED BY <2>1, <2>2, <1>4, <1>5 DEF Advance
<1>7. CASE k.cont # "dir"
  <2>1. files' = Unlock(files, k1) /\ fslock' = fslock
      BY <1>2, <1>7 DEF Fail
  <2>2. Known(files, fslock, k1.file)
      BY <1>1, <1>2, <1>7 DEF BusyOK, Target
  <2>3. FilesOK(disk, files', fslock) /\ FilesKept(files, fslock, files', fslock)
      BY <2>1, <2>2, UnlockKeeps
  <2> QED BY <2>1, <2>3, <1>4, <1>5 DEF Advance
<1> QED BY <1>6, <1>7

\* The blocks that are wanted when one has been read.
LEMMA TailOK ==
    ASSUME NEW k, NEW f, WantOK(k, f), Tail(k.want) # <<>>,
           FirstBlock(k, f) \in Nat, BlocksWanted(k, f) \in Nat, Len(k.got) \in Nat,
           NEW r, r.want = Tail(k.want), r.op = k.op, r.cont = k.cont,
           IF k.cont = "dir" THEN r.got = <<>> ELSE Len(r.got) = Len(k.got) + 1
    PROVE  WantOK(r, f) /\ r.want[1] = k.want[1] + 1
<1>1. PICK w, v, n, a, c, g : /\ w = k.want /\ v = r.want /\ n = Len(k.want)
                             /\ a = FirstBlock(k, f) /\ c = BlocksWanted(k, f)
                             /\ g = Len(k.got)
    OBVIOUS
<1>2. w \in Seq(Nat) /\ w # <<>> /\ v = Tail(w) /\ v # <<>> /\ n = Len(w)
      /\ a \in Nat /\ c \in Nat /\ g \in Nat
    BY <1>1 DEF WantOK
<1>3. n \in Nat /\ n >= 2 /\ v \in Seq(Nat) /\ Len(v) = n - 1
      /\ \A j \in 1..(n - 1) : v[j] = w[j + 1]
  <2>1. n \in Nat /\ n >= 1 /\ v \in Seq(Nat) /\ Len(v) = n - 1
        /\ \A j \in 1..(n - 1) : v[j] = w[j + 1]
      BY <1>2
  <2>2. n # 1
      BY <2>1, <1>2, SMTT(40)
  <2> QED BY <2>1, <2>2
<1>4. /\ w[1] + n = a + c
      /\ \A j \in 1..n : w[j] = w[1] + j - 1
      /\ k.cont # "dir" => w[1] = a + g
  <2>1. WantOK(k, f)
      OBVIOUS
  <2> QED BY <2>1, <1>1, Zenon DEF WantOK
<1>5. w[1] \in Nat /\ 1 \in 1..n /\ 2 \in 1..n /\ 1 \in 1..(n - 1)
    BY <1>2, <1>3, SMTT(40)
<1>6. v[1] = w[1] + 1
  <2>1. v[1] = w[2] /\ w[2] = w[1] + 2 - 1
      BY <1>3, <1>4, <1>5
  <2> QED BY <2>1, <1>5
<1>7. ASSUME NEW j \in 1..Len(v) PROVE v[j] = v[1] + j - 1
  <2>1. j \in 1..(n - 1) /\ j + 1 \in 1..n
      BY <1>3
  <2>2. v[j] = w[j + 1] /\ w[j + 1] = w[1] + (j + 1) - 1
      BY <2>1, <1>3, <1>4
  <2> QED BY <2>1, <2>2, <1>5, <1>6
<1>8. FirstBlock(r, f) = a /\ BlocksWanted(r, f) = c
    BY <1>1 DEF FirstBlock, BlocksWanted, Offset
<1>9. v[1] + Len(v) = a + c
    BY <1>3, <1>4, <1>5, <1>6
<1>10. r.cont # "dir" => v[1] = a + Len(r.got)
  <2>1. SUFFICES ASSUME r.cont # "dir" PROVE v[1] = a + Len(r.got)
      OBVIOUS
  <2>2. w[1] = a + g /\ Len(r.got) = g + 1
      BY <2>1, <1>1, <1>4
  <2> QED BY <2>2, <1>2, <1>6
<1>11. r.cont = "rec" => f.nlvl = 0 /\ f.lrecl <= DBSIZ /\ r.op.recno \in Nat
                         /\ r.op.recno < f.aic
  <2>1. WantOK(k, f)
      OBVIOUS
  <2> QED BY <2>1 DEF WantOK
<1>12. WantOK(r, f)
    BY <1>1, <1>2, <1>3, <1>7, <1>8, <1>9, <1>10, <1>11, Zenon DEF WantOK
<1> QED BY <1>1, <1>6, <1>12

\* The last block that is wanted.
LEMMA LastWanted ==
    ASSUME NEW k, NEW f, WantOK(k, f), Tail(k.want) = <<>>
    PROVE  k.want[1] + 1 = FirstBlock(k, f) + BlocksWanted(k, f)
<1>1. PICK w : w = k.want
    OBVIOUS
<1>2. w \in Seq(Nat) /\ w # <<>> /\ Tail(w) = <<>>
    BY <1>1 DEF WantOK
<1>3. Len(w) = 1
  <2>1. Len(Tail(w)) = Len(w) - 1 /\ Len(w) \in Nat
      BY <1>2
  <2>2. Len(Tail(w)) = 0
    <3>1. Len(<<>>) = 0
        OBVIOUS
    <3> QED BY <3>1, <1>2, Zenon
  <2> QED BY <2>1, <2>2
<1> QED BY <1>1, <1>3 DEF WantOK

\* Looking for a name in a block of the directory (ScanDirectory).
LEMMA ScanKeeps ==
    ASSUME VolumeSound(disk), NEW t \in Tasks, NEW fs, FilesOK(disk, fs, fslock),
           NEW k, k = task[t], TaskOK(disk, fs, fslock, t, k), k.pc \in Busy,
           k.cont = "dir", NEW block, NEW bad \in BOOLEAN,
           block \in {Junk, Right(disk, fs[k.file].fst, 0, k.want[1])},
           ~bad => block = Right(disk, fs[k.file].fst, 0, k.want[1]),
           ScanDirectory(t, fs, block, bad)
    PROVE  \E k2 : /\ task' = [task EXCEPT ![t] = k2]
                   /\ Advance(disk, fs, fslock, t, files', fslock', k2)
<1>1. /\ DOMAIN k = Fields /\ k.bad \in BOOLEAN /\ k.op \in Ops /\ k.tail \in Nat
      /\ k.lba \in Nat /\ BusyOK(disk, fs, fslock, t, k)
    BY DEF TaskOK, Busy
<1>2. t # None
    BY EdfAssumption DEF None
<1>3. k.file = 1 /\ fslock = t /\ fs[1].fst = DirFst(disk) /\ Len(fs) \in Nat
      /\ Len(fs) >= 2 /\ fs[Len(fs)] = File(NoFst) /\ fs \in Seq(FileObject(disk))
    BY <1>1, <1>2 DEF BusyOK, FilesOK
<1>4. PICK dir : dir = DirFst(disk)
    OBVIOUS
<1>5. FileSound(disk, dir) /\ dir.adbc \in Nat /\ dir.adbc # 0
    BY <1>4, DirectorySound
<1>6. WantOK(k, dir) /\ GotOK(disk, k, dir)
    BY <1>1, <1>3, <1>4 DEF BusyOK
<1>7. PICK w : w = k.want[1]
    OBVIOUS
<1>8. FirstBlock(k, dir) = 0 /\ BlocksWanted(k, dir) = dir.adbc
    BY <1>5 DEF FirstBlock, BlocksWanted
<1>9. w \in Nat /\ w < dir.adbc /\ Len(k.want) \in Nat
  <2>1. InFile(dir, 0, w) /\ w \in Nat /\ Len(k.want) \in Nat /\ Len(k.want) >= 1
      BY <1>5, <1>6, <1>7, WantIn
  <2>2. w + Len(k.want) = dir.adbc
      BY <1>6, <1>7, <1>8, <1>5 DEF WantOK
  <2> QED BY <2>1, <2>2, <1>5
<1>10. block \in {Junk, Right(disk, dir, 0, w)} /\ (~bad => block = Right(disk, dir, 0, w))
    BY <1>3, <1>4, <1>7
<1>11. PICK k1 : k1 = [k EXCEPT !.bad = @ \/ bad]
    OBVIOUS
<1>12. /\ DOMAIN k1 = Fields /\ k1.bad \in BOOLEAN /\ (k1.bad <=> k.bad \/ bad)
       /\ k1.op = k.op /\ k1.cont = k.cont /\ k1.want = k.want /\ k1.got = k.got
       /\ k1.tail = k.tail /\ k1.lba = k.lba
    BY <1>1, <1>11, WorseFacts
<1> DEFINE hits == {i \in 0..(NFST - 1) : IsFst(block[i]) /\ block[i].name = k1.op.name}
<1>13. IF hits # {}
       THEN /\ files' = [fs EXCEPT ![Len(fs)].fst = block[Min(hits)]]
            /\ fslock' = None
            /\ task' = [task EXCEPT ![t] = [Idle EXCEPT !.pc = "open", !.op = k1.op,
                                              !.file = Len(fs), !.bad = k1.bad]]
       ELSE IF Tail(k1.want) # <<>>
       THEN /\ files' = fs
            /\ task' = [task EXCEPT ![t] = Reading(k1, 1, "dir", Tail(k1.want))]
            /\ UNCHANGED fslock
       ELSE /\ files' = Front(fs)
            /\ fslock' = None
            /\ task' = [task EXCEPT ![t] = Done(k1, "ENOENT", <<>>)]
    BY <1>11 DEF ScanDirectory
<1>14. CASE hits # {}
  <2>1. hits \subseteq Nat
      BY SizeFacts
  <2>2. PICK i : i = Min(hits)
      OBVIOUS
  <2>3. i \in Cells /\ IsFst(block[i]) /\ block[i].name = k.op.name
    <3>1. i \in hits
        BY <1>14, <2>1, <2>2, MinIn
    <3> QED BY <3>1, <1>12, SizeFacts
  <2>4. block = Right(disk, dir, 0, w)
      BY <2>3, <1>10, JunkFacts
  <2>5. PICK e : e = block[i]
      OBVIOUS
  <2>6. e \in FilesOf(disk) /\ e.name = k.op.name
    <3>1. w \in 0..(dir.adbc - 1)
        BY <1>5, <1>9
    <3>2. e \in Entries(disk)
        BY <3>1, <2>3, <2>4, <2>5, <1>4, EntryInBlock
    <3>3. k.op.name \notin {DIRECTOR, ALLOCMAP}
        BY <1>1, EdfAssumption
    <3> QED BY <3>2, <3>3, <2>3, <2>5 DEF FilesOf
  <2>7. PICK n : n = Len(fs)
      OBVIOUS
  <2>8. PICK k2 : k2 = [Idle EXCEPT !.pc = "open", !.op = k1.op, !.file = n, !.bad = k1.bad]
      OBVIOUS
  <2>9. /\ DOMAIN k2 = Fields /\ k2.pc = "open" /\ k2.op = k.op /\ k2.file = n
        /\ k2.bad \in BOOLEAN /\ k2.tail = 0 /\ k2.lba = 0 /\ k2.got = <<>>
      BY <2>8, <1>12, IdleFacts DEF Fields
  <2>10. fslock' = None /\ task' = [task EXCEPT ![t] = k2]
      BY <1>13, <1>14, <2>7, <2>8
  <2>11. files' = [fs EXCEPT ![n] = File(e)]
    <3>1. files' = [fs EXCEPT ![n] = [fs[n] EXCEPT !.fst = e]]
        BY <1>13, <1>14, <2>2, <2>5, <2>7
    <3>2. [File(NoFst) EXCEPT !.fst = e] = File(e)
        BY DEF File
    <3> QED BY <3>1, <3>2, <1>3, <2>7
  <2>12. FileOK(disk, File(e)) /\ File(e).fst = e /\ File(e) \in FileObject(disk)
    <3>1. e \in Fsts(disk)
        BY <2>6 DEF Fsts
    <3> QED BY <3>1, EmptyFile DEF FileOK
  <2>13. /\ n \in Nat /\ n >= 2 /\ files' \in Seq(FileObject(disk)) /\ Len(files') = n
         /\ files'[n] = File(e)
         /\ \A j \in 1..n : j # n => files'[j] = fs[j]
      BY <2>7, <2>11, <2>12, <1>3
  <2>14. \A j : Known(fs, fslock, j) <=> j \in 1..(n - 1)
      BY <2>7, <2>13, <1>2, <1>3 DEF Known
  <2>15. \A j : Known(files', fslock', j) <=> j \in 1..n
      BY <2>10, <2>13 DEF Known
  <2>16. FilesOK(disk, files', fslock')
    <3>1. \A j \in 1..Len(files') : FileOK(disk, files'[j])
        BY <2>7, <2>12, <2>13 DEF FilesOK
    <3>2. files'[1].fst = DirFst(disk) /\ DirFst(disk).name = DIRECTOR /\ Len(files') >= 1
        BY <2>13, <1>3 DEF FilesOK
    <3>3. ASSUME NEW j \in 2..Len(files') PROVE files'[j].fst \in FilesOf(disk)
      <4>1. CASE j = n
          BY <4>1, <2>6, <2>12, <2>13
      <4>2. CASE j # n
          BY <4>2, <2>7, <2>13, <2>14 DEF FilesOK
      <4> QED BY <4>1, <4>2
    <3> QED BY <3>1, <3>2, <3>3, <2>10, <2>13 DEF FilesOK
  <2>17. FilesKept(fs, fslock, files', fslock')
      BY <2>13, <2>14, <2>15, FilesSame DEF FilesKept
  <2>18. Target(disk, files', fslock', k2)
      BY <2>6, <2>9, <2>12, <2>13, <2>15 DEF Target
  <2>19. TaskOK(disk, files', fslock', t, k2)
      BY <2>9, <2>18, <1>1 DEF TaskOK, Busy
  <2>20. \A u \in Tasks : u # t /\ fslock = u => fslock' = u
      BY <1>3
  <2> QED BY <2>10, <2>16, <2>17, <2>19, <2>20 DEF Advance
<1>15. ASSUME hits = {} PROVE ~NameIn(block, k.op.name)
    BY <1>15, <1>12, SizeFacts DEF NameIn
<1>16. ASSUME hits = {}, ~k1.bad
       PROVE  \A b \in 0..w : ~NameIn(Right(disk, dir, 0, b), k.op.name)
  <2>1. ~k.bad /\ ~bad
      BY <1>12, <1>16
  <2>2. \A b \in 0..(w - 1) : ~NameIn(Right(disk, dir, 0, b), k.op.name)
      BY <2>1, <1>6, <1>7 DEF GotOK
  <2>3. ~NameIn(Right(disk, dir, 0, w), k.op.name)
      BY <2>1, <1>10, <1>15, <1>16
  <2> QED BY <2>2, <2>3, <1>9
<1>17. CASE hits = {} /\ Tail(k.want) # <<>>
  <2>1. PICK k2 : k2 = Reading(k1, 1, "dir", Tail(k1.want))
      OBVIOUS
  <2>2. files' = fs /\ task' = [task EXCEPT ![t] = k2] /\ fslock' = fslock
      BY <2>1, <1>12, <1>13, <1>17
  <2>3. /\ k2.file = 1 /\ k2.cont = "dir" /\ k2.want = Tail(k.want) /\ k2.op = k.op
        /\ k2.got = k.got /\ k2.bad = k1.bad
    <3>1. PICK want, file, cont : want = Tail(k1.want) /\ file = 1 /\ cont = "dir"
        OBVIOUS
    <3>2. k2 = Reading(k1, file, cont, want) /\ DOMAIN k1 = Fields
        BY <2>1, <3>1, <1>12
    <3>3. /\ k2.file = file /\ k2.cont = cont /\ k2.want = want /\ k2.op = k1.op
          /\ k2.got = k1.got /\ k2.bad = k1.bad
        BY <3>2 DEF Reading, Fields
    <3> QED BY <3>1, <3>3, <1>12
  <2>4. k.got = <<>>
      BY <1>6 DEF WantOK
  <2>5. WantOK(k2, dir) /\ k2.want[1] = w + 1
    <3>1. FirstBlock(k, dir) \in Nat /\ BlocksWanted(k, dir) \in Nat /\ Len(k.got) \in Nat
        BY <2>4, <1>5, <1>8
    <3>2. WantOK(k, dir) /\ Tail(k.want) # <<>> /\ k2.want = Tail(k.want) /\ k2.op = k.op
          /\ k2.cont = k.cont
          /\ (IF k.cont = "dir" THEN k2.got = <<>> ELSE Len(k2.got) = Len(k.got) + 1)
        BY <2>3, <2>4, <1>6, <1>17
    <3>3. WantOK(k2, dir) /\ k2.want[1] = k.want[1] + 1
        BY <3>1, <3>2, TailOK
    <3> QED BY <3>3, <1>7
  <2>6. GotOK(disk, k2, dir)
    <3>1. k2.got = <<>> /\ k2.got \in Seq(Bufs(disk))
        BY <2>3, <2>4
    <3>2. AreBlocks(disk, dir, FirstBlock(k2, dir), k2.got)
        BY <3>1 DEF AreBlocks
    <3>3. ~k2.bad => \A b \in 0..(k2.want[1] - 1) :
                       ~NameIn(Right(disk, dir, 0, b), k2.op.name)
        BY <2>3, <2>5, <1>9, <1>16, <1>17
    <3> QED BY <3>1, <3>2, <3>3 DEF GotOK
  <2>7. TaskOK(disk, fs, fslock, t, k2)
    <3>1. 1 \in 1..Len(fs) /\ Tail(k1.want) # <<>> /\ "dir" \in {"rec", "nss", "dir"}
        BY <1>3, <1>12, <1>17
    <3>2. WantOK(k2, fs[1].fst) /\ GotOK(disk, k2, fs[1].fst)
        BY <2>5, <2>6, <1>3, <1>4
    <3>3. k1.op \in Ops /\ k1.tail \in Nat /\ k1.lba \in Nat
        BY <1>1, <1>12
    <3> QED BY <3>1, <3>2, <3>3, <2>1, <1>3, <1>12, StartRead
  <2>8. FilesKept(fs, fslock, fs, fslock)
      BY FilesSame
  <2> QED BY <2>2, <2>7, <2>8 DEF Advance
<1>18. CASE hits = {} /\ Tail(k.want) = <<>>
  <2>1. PICK k2 : k2 = Done(k1, "ENOENT", <<>>)
      OBVIOUS
  <2>2. files' = Front(fs) /\ task' = [task EXCEPT ![t] = k2] /\ fslock' = None
      BY <2>1, <1>12, <1>13, <1>18
  <2>3. FilesOK(disk, files', fslock') /\ FilesKept(fs, fslock, files', fslock')
      BY <2>2, <1>3, DropLast
  <2>4. k2.op = k.op /\ k2.bad = k1.bad /\ k2.res.err = "ENOENT"
      BY <2>1, <1>12, DoneFacts
  <2>5. w + 1 = dir.adbc
      BY <1>6, <1>7, <1>8, <1>18, LastWanted, <1>5
  <2>6. Faithful(disk, k2)
    <3>1. SUFFICES ASSUME ~k2.bad
                   PROVE  {e \in FilesOf(disk) : e.name = k2.op.name} = {}
        BY <2>4 DEF Faithful
    <3>2. \A b \in 0..(dir.adbc - 1) : ~NameIn(Right(disk, dir, 0, b), k.op.name)
        BY <3>1, <2>4, <2>5, <1>9, <1>16, <1>18
    <3> QED BY <3>2, <2>4, <1>4, NameNowhere
  <2>7. TaskOK(disk, files', fslock', t, k2)
      BY <2>1, <2>6, <1>1, <1>12, DoneOK
  <2>8. \A u \in Tasks : u # t /\ fslock = u => fslock' = u
      BY <1>3
  <2> QED BY <2>2, <2>3, <2>7, <2>8 DEF Advance
<1> QED BY <1>14, <1>17, <1>18
\* A block for edf_read_rec or __copy_segment (Deliver).
LEMMA DeliverKeeps ==
    ASSUME VolumeSound(disk), NEW t \in Tasks, NEW fs, FilesOK(disk, fs, fslock),
           NEW k, k = task[t], TaskOK(disk, fs, fslock, t, k), k.pc \in Busy,
           k.cont # "dir", files[k.file].fst = fs[k.file].fst,
           NEW block, NEW bad \in BOOLEAN, block \in Bufs(disk),
           ~bad => block = Right(disk, fs[k.file].fst, 0, k.want[1]),
           Deliver(t, fs, block, bad)
    PROVE  \E k2 : /\ task' = [task EXCEPT ![t] = k2]
                   /\ Advance(disk, fs, fslock, t, files', fslock', k2)
<1>1. /\ DOMAIN k = Fields /\ k.bad \in BOOLEAN /\ k.op \in Ops /\ k.tail \in Nat
      /\ k.lba \in Nat /\ BusyOK(disk, fs, fslock, t, k)
    BY DEF TaskOK, Busy
<1>2. Target(disk, fs, fslock, k) /\ k.cont = k.op.kind
    BY <1>1 DEF BusyOK
<1>3. PICK f : f = fs[k.file].fst
    OBVIOUS
<1>4. /\ k.file \in 1..Len(fs) /\ Known(fs, fslock, k.file)
      /\ f \in FilesOf(disk) /\ f.name = k.op.name
    BY <1>1, <1>2, <1>3 DEF BusyOK, Target
<1>5. FileSound(disk, f)
    BY <1>4, FstSound DEF Fsts
<1>6. WantOK(k, f) /\ GotOK(disk, k, f)
    BY <1>1, <1>3 DEF BusyOK
<1>7. k.cont \in {"rec", "nss"} /\ k.cont \in {"rec", "nss", "dir"}
    BY <1>1, <1>2, EdfAssumption
<1>8. PICK w : w = k.want[1]
    OBVIOUS
<1>9. /\ w \in Nat /\ FirstBlock(k, f) \in Nat /\ BlocksWanted(k, f) \in Nat
    BY <1>5, <1>6, <1>7, <1>8, WantIn
<1>10. k.got \in Seq(Bufs(disk)) /\ Len(k.got) \in Nat
    BY <1>6 DEF GotOK
<1>11. w = FirstBlock(k, f) + Len(k.got)
    BY <1>6, <1>8 DEF WantOK
<1>12. ~bad => block = Right(disk, f, 0, w)
    BY <1>3, <1>8
<1>13. PICK k1 : k1 = [k EXCEPT !.bad = @ \/ bad]
    OBVIOUS
<1>14. /\ DOMAIN k1 = Fields /\ k1.bad \in BOOLEAN /\ (k1.bad <=> k.bad \/ bad)
       /\ k1.op = k.op /\ k1.cont = k.cont /\ k1.want = k.want /\ k1.got = k.got
       /\ k1.file = k.file /\ k1.tail = k.tail /\ k1.lba = k.lba
    BY <1>1, <1>13, WorseFacts
<1>15. PICK got : got = Append(k.got, block)
    OBVIOUS
<1>16. /\ got \in Seq(Bufs(disk)) /\ Len(got) = Len(k.got) + 1
       /\ \A j \in 1..Len(k.got) : got[j] = k.got[j]
       /\ got[Len(k.got) + 1] = block
    BY <1>10, <1>15
<1>17. ASSUME ~k1.bad PROVE AreBlocks(disk, f, FirstBlock(k, f), got)
  <2>1. AreBlocks(disk, f, FirstBlock(k, f), k.got) /\ block = Right(disk, f, 0, w)
      BY <1>6, <1>12, <1>14, <1>17 DEF GotOK
  <2>2. PICK a, n : a = FirstBlock(k, f) /\ n = Len(k.got)
      OBVIOUS
  <2>3. a \in Nat /\ n \in Nat /\ w = a + n /\ Len(got) = n + 1
      BY <2>2, <1>9, <1>10, <1>11, <1>16
  <2>4. ASSUME NEW j \in 1..Len(got) PROVE got[j] = Right(disk, f, 0, a + j - 1)
    <3>1. CASE j = n + 1
      <4>1. a + j - 1 = w
          BY <3>1, <2>3
      <4> QED BY <4>1, <3>1, <2>1, <2>2, <1>16
    <3>2. CASE j # n + 1
      <4>1. j \in 1..Len(k.got)
          BY <3>2, <2>2, <2>3
      <4> QED BY <4>1, <2>1, <2>2, <1>16 DEF AreBlocks
    <3> QED BY <3>1, <3>2
  <2> QED BY <2>2, <2>4 DEF AreBlocks
<1>18. /\ fslock' = fslock
       /\ IF Tail(k.want) # <<>>
          THEN /\ files' = fs
               /\ task' = [task EXCEPT ![t] =
                    Reading([k1 EXCEPT !.got = got], k.file, k.cont, Tail(k.want))]
          ELSE /\ files' = Unlock(fs, k1)
               /\ task' = [task EXCEPT ![t] = Done(k1, "0", Result(k1, got))]
    BY <1>13, <1>14, <1>15 DEF Deliver
<1>19. CASE Tail(k.want) # <<>>
  <2>1. PICK k3 : k3 = [k1 EXCEPT !.got = got]
      OBVIOUS
  <2>2. /\ DOMAIN k3 = Fields /\ k3.bad = k1.bad /\ k3.op = k.op /\ k3.tail = k.tail
        /\ k3.lba = k.lba /\ k3.got = got
      BY <2>1, <1>14 DEF Fields
  <2>3. PICK k2 : k2 = Reading(k3, k.file, k.cont, Tail(k.want))
      OBVIOUS
  <2>4. files' = fs /\ task' = [task EXCEPT ![t] = k2] /\ fslock' = fslock
      BY <2>1, <2>3, <1>18, <1>19
  <2>5. /\ k2.file = k.file /\ k2.cont = k.cont /\ k2.want = Tail(k.want) /\ k2.op = k.op
        /\ k2.got = got /\ k2.bad = k1.bad
      BY <2>2, <2>3 DEF Reading, Fields
  <2>6. WantOK(k2, f) /\ k2.want[1] = w + 1
    <3>1. IF k.cont = "dir" THEN k2.got = <<>> ELSE Len(k2.got) = Len(k.got) + 1
        BY <2>5, <1>16
    <3>2. WantOK(k2, f) /\ k2.want[1] = k.want[1] + 1
        BY <3>1, <2>5, <1>6, <1>9, <1>10, <1>19, TailOK
    <3> QED BY <3>2, <1>8
  <2>7. GotOK(disk, k2, f)
    <3>1. FirstBlock(k2, f) = FirstBlock(k, f)
        BY <2>5 DEF FirstBlock
    <3>2. ~k2.bad => AreBlocks(disk, f, FirstBlock(k2, f), k2.got)
        BY <3>1, <2>5, <1>17
    <3> QED BY <3>2, <2>5, <1>16 DEF GotOK
  <2>8. Target(disk, fs, fslock, k2)
      BY <2>5, <1>2 DEF Target
  <2>9. TaskOK(disk, fs, fslock, t, k2)
    <3>1. k3.op \in Ops /\ k3.bad \in BOOLEAN /\ k3.tail \in Nat /\ k3.lba \in Nat
        BY <2>2, <1>1, <1>14
    <3>2. WantOK(k2, fs[k.file].fst) /\ GotOK(disk, k2, fs[k.file].fst)
        BY <2>6, <2>7, <1>3
    <3>3. PICK file, cont, want : file = k.file /\ cont = k.cont /\ want = Tail(k.want)
        OBVIOUS
    <3>4. /\ file \in 1..Len(fs) /\ want # <<>> /\ cont \in {"rec", "nss", "dir"}
          /\ k2 = Reading(k3, file, cont, want)
          /\ (IF cont = "dir" THEN file = 1 /\ fslock = t
              ELSE Target(disk, fs, fslock, k2) /\ cont = k3.op.kind)
        BY <3>3, <2>2, <2>3, <2>8, <1>2, <1>4, <1>7, <1>19
    <3>5. WantOK(k2, fs[file].fst) /\ GotOK(disk, k2, fs[file].fst)
        BY <3>2, <3>3
    <3> QED BY <3>1, <3>4, <3>5, <2>2, StartRead
  <2>10. FilesKept(fs, fslock, fs, fslock)
      BY FilesSame
  <2> QED BY <2>4, <2>9, <2>10 DEF Advance
<1>20. CASE Tail(k.want) = <<>>
  <2>1. PICK cells : cells = Result(k1, got)
      OBVIOUS
  <2>2. PICK k2 : k2 = Done(k1, "0", cells)
      OBVIOUS
  <2>3. files' = Unlock(fs, k1) /\ task' = [task EXCEPT ![t] = k2] /\ fslock' = fslock
      BY <2>1, <2>2, <1>18, <1>20
  <2>4. FilesOK(disk, files', fslock) /\ FilesKept(fs, fslock, files', fslock)
    <3>1. Known(fs, fslock, k1.file)
        BY <1>4, <1>14
    <3> QED BY <3>1, <2>3, UnlockKeeps
  <2>5. k2.op = k.op /\ k2.bad = k1.bad /\ k2.res.err = "0" /\ k2.res.cells = cells
      BY <2>2, <1>14, DoneFacts
  <2>6. Len(got) = BlocksWanted(k, f)
    <3>1. w + 1 = FirstBlock(k, f) + BlocksWanted(k, f)
        BY <1>6, <1>8, <1>20, LastWanted
    <3> QED BY <3>1, <1>9, <1>10, <1>11, <1>16, SMTT(40)
  <2>7. Faithful(disk, k2)
    <3>1. CASE k1.bad
        BY <3>1, <2>5, SMTT(40) DEF Faithful
    <3>2. CASE ~k1.bad
      <4>1. cells = SubSeq(Flatten(got),
                      (IF k.cont = "rec" THEN (k.op.recno * f.lrecl) % DBSIZ ELSE 0) + 1,
                      (IF k.cont = "rec" THEN (k.op.recno * f.lrecl) % DBSIZ ELSE 0)
                        + (IF k.cont = "rec" THEN f.lrecl ELSE f.aic * f.lrecl))
          BY <2>1, <1>3, <1>14, Zenon DEF Result
      <4>2. AreBlocks(disk, f, FirstBlock(k, f), got)
          BY <3>2, <1>17
      <4>3. Len(got) \in Nat
          BY <1>10, <1>16
      <4> QED BY <4>1, <4>2, <4>3, <2>5, <2>6, <1>2, <1>4, <1>5, <1>6, <1>7, ResultIsRight, ZenonT(60)
    <3> QED BY <3>1, <3>2
  <2>8. TaskOK(disk, files', fslock', t, k2)
      BY <2>2, <2>7, <1>1, <1>14, DoneOK
  <2> QED BY <2>3, <2>4, <2>8 DEF Advance
<1> QED BY <1>19, <1>20
\* A reader that is at the same block of the same file.
LEMMA SameReader ==
    ASSUME NEW dk, NEW fs, NEW lk, NEW t, NEW k, BusyOK(dk, fs, lk, t, k), k.op \in Ops,
           NEW k2, DOMAIN k2 = Fields, k2.pc \in Busy, k2.bad \in BOOLEAN,
           k2.tail \in Nat, k2.lba \in Nat,
           k2.file = k.file, k2.cont = k.cont, k2.op = k.op, k2.want = k.want,
           k2.got = k.got, k.bad => k2.bad,
           FramesOK(k2, fs[k.file].fst), FoundOK(dk, k2, fs[k.file])
    PROVE  TaskOK(dk, fs, lk, t, k2)
<1>1. PICK f : f = fs[k.file].fst
    OBVIOUS
<1>2. WantOK(k, f) /\ GotOK(dk, k, f)
    BY <1>1 DEF BusyOK
<1>3. FirstBlock(k2, f) = FirstBlock(k, f) /\ BlocksWanted(k2, f) = BlocksWanted(k, f)
    BY DEF FirstBlock, BlocksWanted, Offset
<1>4. WantOK(k2, f)
    BY <1>2, <1>3 DEF WantOK
<1>5. GotOK(dk, k2, f)
    BY <1>2, <1>3 DEF GotOK
<1>6. Target(dk, fs, lk, k) => Target(dk, fs, lk, k2)
    BY DEF Target
<1>7. BusyOK(dk, fs, lk, t, k2)
    BY <1>1, <1>4, <1>5, <1>6 DEF BusyOK
<1> QED BY <1>7 DEF TaskOK, Busy

\* The level it is at.
LEMMA TopFrame ==
    ASSUME NEW k, NEW f, FramesOK(k, f), NEW n, n = Len(k.frames)
    PROVE  /\ n \in Nat /\ n >= 1 /\ Last(k.frames) = k.frames[n]
           /\ k.frames \in Seq(Frame) /\ k.frames[n] \in Frame
           /\ k.frames[n].level = n - 1 /\ k.frames[n].blk \in Nat
           /\ InFile(f, k.frames[n].level, k.frames[n].blk)
<1>1. n \in Nat /\ n >= 1 /\ Last(k.frames) = k.frames[n] /\ k.frames \in Seq(Frame)
      /\ k.frames[n] \in Frame
    BY DEF FramesOK, Last
<1>2. n \in 1..Len(k.frames)
    BY <1>1
<1>3. k.frames[n].level = n - 1 /\ InFile(f, n - 1, k.frames[n].blk)
    BY <1>2 DEF FramesOK
<1>4. k.frames[n].blk \in Nat
    BY <1>1 DEF Frame
<1> QED BY <1>1, <1>3, <1>4

\* bcache_read returns a block (Return).
LEMMA ReturnKeeps ==
    ASSUME VolumeSound(disk), NEW t \in Tasks, NEW fs, FilesOK(disk, fs, fslock),
           NEW k, k = task[t], TaskOK(disk, fs, fslock, t, k), k.pc \in Busy,
           files[k.file].fst = fs[k.file].fst,
           NEW block, NEW bad \in BOOLEAN, block \in Bufs(disk),
           NEW lvl, NEW blk, lvl = Last(k.frames).level, blk = Last(k.frames).blk,
           block \in {Junk, Right(disk, fs[k.file].fst, lvl, blk)},
           ~bad => block = Right(disk, fs[k.file].fst, lvl, blk),
           Return(t, fs, block, bad)
    PROVE  \E k2 : /\ task' = [task EXCEPT ![t] = k2]
                   /\ Advance(disk, fs, fslock, t, files', fslock', k2)
<1>1. /\ DOMAIN k = Fields /\ k.bad \in BOOLEAN /\ k.op \in Ops /\ k.tail \in Nat
      /\ k.lba \in Nat /\ BusyOK(disk, fs, fslock, t, k)
    BY DEF TaskOK, Busy
<1>2. PICK f : f = fs[k.file].fst
    OBVIOUS
<1>3. k.file \in 1..Len(fs) /\ FramesOK(k, f)
    BY <1>1, <1>2 DEF BusyOK
<1>4. FileSound(disk, f)
    BY <1>2, <1>3, FileTypes, FstSound
<1>5. PICK n : n = Len(k.frames)
    OBVIOUS
<1>6. PICK fr : fr = k.frames
    OBVIOUS
<1>7. /\ n \in Nat /\ n >= 1 /\ fr \in Seq(Frame) /\ n = Len(fr)
      /\ lvl = n - 1 /\ blk = fr[n].blk
      /\ InFile(f, lvl, blk)
  <2>1. /\ n \in Nat /\ n >= 1 /\ Last(k.frames) = k.frames[n]
        /\ k.frames \in Seq(Frame)
        /\ k.frames[n].level = n - 1
        /\ InFile(f, k.frames[n].level, k.frames[n].blk)
      BY <1>3, <1>5, TopFrame
  <2> QED BY <2>1, <1>5, <1>6
<1>8. block \in {Junk, Right(disk, f, lvl, blk)} /\ (~bad => block = Right(disk, f, lvl, blk))
    BY <1>2
<1>9. PICK ups : ups = Front(fr)
    OBVIOUS
<1>10. ups \in Seq(Frame) /\ Len(ups) = n - 1 /\ \A j \in 1..(n - 1) : ups[j] = fr[j]
    BY <1>7, <1>9 DEF Front
<1>11. CASE n # 1
  <2>1. ups # <<>> /\ n >= 2 /\ n - 1 \in Nat /\ n - 1 \in 1..n
      BY <1>7, <1>10, <1>11
  <2>2. PICK top : top = fr[n - 1]
      OBVIOUS
  <2>3. Last(ups) = top
      BY <2>1, <2>2, <1>10 DEF Last
  <2>4. PICK c, lv : c = top.blk /\ lv = n - 2
      OBVIOUS
  <2>5. top.level = lv /\ InFile(f, lv, c) /\ blk = c \div PTRS
    <3>1. PICK j : j = n - 1
        OBVIOUS
    <3>2. j \in 1..n /\ j \in 1..(n - 1) /\ j - 1 = lv /\ j + 1 = n
        BY <3>1, <2>1, <2>4, <1>7
    <3>3. fr[j].level = j - 1 /\ InFile(f, j - 1, fr[j].blk)
        BY <3>2, <1>3, <1>5, <1>6 DEF FramesOK
    <3>4. fr[j + 1].blk = fr[j].blk \div PTRS
        BY <3>2, <1>3, <1>5, <1>6 DEF FramesOK
    <3> QED BY <3>1, <3>2, <3>3, <3>4, <2>2, <2>4, <1>7
  <2>6. lv # f.nlvl /\ lv + 1 = lvl
    <3>1. lvl \in 0..f.nlvl /\ f.nlvl \in Nat
        BY <1>4, <1>7, SoundFacts DEF InFile
    <3> QED BY <3>1, <2>4, <1>7
  <2>7. /\ c % PTRS \in Cells
        /\ Lba(disk, f, lv, c) = PtrOf(Right(disk, f, lvl, blk)[c % PTRS])
    <3>1. /\ c % PTRS \in Cells
          /\ Lba(disk, f, lv, c) = PtrOf(Right(disk, f, lv + 1, c \div PTRS)[c % PTRS])
        BY <2>5, <2>6, <1>4, InFileUp, Zenon
    <3> QED BY <3>1, <2>5, <2>6
  <2>8. PICK lba : lba = PtrOf(block[c % PTRS])
      OBVIOUS
  <2>9. /\ lba \in {0, Lba(disk, f, lv, c)} /\ (bad \/ lba = Lba(disk, f, lv, c))
        /\ lba \in Nat
    <3>1. Lba(disk, f, lv, c) \in Nat
        BY <2>5, <1>4, LbaNat
    <3>2. block = Junk => lba = 0
        BY <2>7, <2>8, JunkFacts
    <3> QED BY <3>1, <3>2, <2>7, <2>8, <1>8
  <2>10. PICK k2 : k2 = [k EXCEPT !.pc = "add", !.frames = ups, !.lba = lba,
                                  !.bad = @ \/ bad]
      OBVIOUS
  <2>11. /\ DOMAIN k2 = Fields /\ k2.pc = "add" /\ k2.frames = ups /\ k2.lba = lba
         /\ k2.bad \in BOOLEAN /\ (k2.bad <=> k.bad \/ bad) /\ k2.tail = k.tail
         /\ k2.file = k.file /\ k2.cont = k.cont /\ k2.op = k.op /\ k2.want = k.want
         /\ k2.got = k.got
      BY <2>10, <1>1 DEF Fields
  <2>12. files' = fs /\ task' = [task EXCEPT ![t] = k2] /\ fslock' = fslock
      BY <2>1, <2>3, <2>4, <2>8, <2>10, <1>6, <1>9 DEF Return
  <2>13. FramesOK(k2, f)
    <3>1. k2.frames \in Seq(Frame) /\ k2.frames # <<>> /\ Len(k2.frames) = n - 1
          /\ \A j \in 1..(n - 1) : k2.frames[j] = k.frames[j]
        BY <2>1, <2>11, <1>6, <1>10
    <3>2. k2.frames[1].blk = k2.want[1]
        BY <3>1, <2>1, <2>11, <1>3 DEF FramesOK
    <3>3. ASSUME NEW j \in 1..Len(k2.frames)
          PROVE  k2.frames[j].level = j - 1 /\ InFile(f, j - 1, k2.frames[j].blk)
      <4>1. j \in 1..n /\ k2.frames[j] = k.frames[j]
          BY <3>1, <1>7
      <4> QED BY <4>1, <1>3, <1>5 DEF FramesOK
    <3>4. ASSUME NEW j \in 1..(Len(k2.frames) - 1)
          PROVE  k2.frames[j + 1].blk = k2.frames[j].blk \div PTRS
      <4>1. j \in 1..(n - 1) /\ j + 1 \in 1..(n - 1)
          BY <3>1, <1>7
      <4>2. k2.frames[j + 1] = k.frames[j + 1] /\ k2.frames[j] = k.frames[j]
          BY <4>1, <3>1
      <4>3. k.frames[j + 1].blk = k.frames[j].blk \div PTRS
          BY <4>1, <1>3, <1>5 DEF FramesOK
      <4> QED BY <4>2, <4>3
    <3> QED BY <3>1, <3>2, <3>3, <3>4 DEF FramesOK
  <2>14. FoundOK(disk, k2, fs[k.file])
    <3>1. Last(k2.frames) = top /\ top.level = lv /\ top.blk = c
        BY <2>3, <2>4, <2>5, <2>11
    <3>2. k2.lba \in {0, Lba(disk, fs[k.file].fst, top.level, top.blk)}
          /\ (k2.bad \/ k2.lba = Lba(disk, fs[k.file].fst, top.level, top.blk))
        BY <3>1, <2>9, <2>11, <1>2
    <3>3. k2.pc \notin {"found", "io"}
        BY <2>11
    <3> QED BY <3>1, <3>2, <3>3 DEF FoundOK
  <2>15. TaskOK(disk, fs, fslock, t, k2)
    <3>1. k2.pc \in Busy /\ k2.tail \in Nat /\ k2.lba \in Nat /\ (k.bad => k2.bad)
        BY <2>9, <2>11, <1>1 DEF Busy
    <3>2. FramesOK(k2, fs[k.file].fst)
        BY <2>13, <1>2
    <3> QED BY <3>1, <3>2, <2>11, <2>14, <1>1, SameReader
  <2>16. FilesKept(fs, fslock, fs, fslock)
      BY FilesSame
  <2> QED BY <2>12, <2>15, <2>16 DEF Advance
<1>12. CASE n = 1
  <2>1. ups = <<>> /\ lvl = 0 /\ blk = k.want[1]
    <3>1. ups = <<>>
        BY <1>10, <1>12
    <3>2. fr[1].blk = k.want[1]
        BY <1>3, <1>6 DEF FramesOK
    <3> QED BY <3>1, <3>2, <1>7, <1>12
  <2>2. block \in {Junk, Right(disk, fs[k.file].fst, 0, k.want[1])}
        /\ (~bad => block = Right(disk, fs[k.file].fst, 0, k.want[1]))
      BY <2>1, <1>2, <1>8
  <2>3. CASE k.cont = "dir"
    <3>1. ScanDirectory(t, fs, block, bad)
        BY <2>1, <2>3, <1>6, <1>9 DEF Return
    <3> QED BY <3>1, <2>2, <2>3, ScanKeeps
  <2>4. CASE k.cont # "dir"
    <3>1. Deliver(t, fs, block, bad)
        BY <2>1, <2>4, <1>6, <1>9 DEF Return
    <3> QED BY <3>1, <2>2, <2>4, DeliverKeeps
  <2> QED BY <2>3, <2>4
<1> QED BY <1>11, <1>12
-----------------------------------------------------------------------------
(* bcache_read, step by step.                                              *)

LEMMA Mounted ==
    ASSUME EdfInv, up = "mounted"
    PROVE  /\ DOMAIN task = Tasks /\ FilesOK(disk, files, fslock)
           /\ \A t \in Tasks : TaskOK(disk, files, fslock, t, task[t])
BY DEF EdfInv, Quiet

\* What is said of a task on its way to a block.
LEMMA ReaderFacts ==
    ASSUME VolumeSound(disk), EdfInv, up = "mounted", NEW t \in Tasks,
           NEW k, k = task[t], k.pc \in Busy
    PROVE  /\ DOMAIN k = Fields /\ k.bad \in BOOLEAN /\ k.op \in Ops /\ k.tail \in Nat
           /\ k.lba \in Nat /\ BusyOK(disk, files, fslock, t, k)
           /\ k.file \in 1..Len(files) /\ Known(files, fslock, k.file)
           /\ FileOK(disk, files[k.file])
           /\ FileSound(disk, files[k.file].fst)
           /\ FramesOK(k, files[k.file].fst)
           /\ FoundOK(disk, k, files[k.file])
           /\ TaskOK(disk, files, fslock, t, k)
<1>1. FilesOK(disk, files, fslock) /\ TaskOK(disk, files, fslock, t, k)
    BY Mounted
<1>2. /\ DOMAIN k = Fields /\ k.bad \in BOOLEAN /\ k.op \in Ops /\ k.tail \in Nat
      /\ k.lba \in Nat /\ BusyOK(disk, files, fslock, t, k)
    BY <1>1 DEF TaskOK, Busy
<1>3. k.file \in 1..Len(files) /\ FramesOK(k, files[k.file].fst)
      /\ FoundOK(disk, k, files[k.file])
    BY <1>2 DEF BusyOK
<1>4. Known(files, fslock, k.file)
    BY <1>1, <1>2, DirectoryKnown DEF BusyOK, Target
<1>5. FileOK(disk, files[k.file]) /\ FileSound(disk, files[k.file].fst)
    BY <1>1, <1>3, FileTypes, FstSound
<1> QED BY <1>1, <1>2, <1>3, <1>4, <1>5

\* A task that goes on with the files as they are.
LEMMA OnlyTask ==
    ASSUME EdfInv, up = "mounted", UNCHANGED <<disk, up, files, fslock>>, NEW t \in Tasks,
           NEW k2, task' = [task EXCEPT ![t] = k2], TaskOK(disk, files, fslock, t, k2)
    PROVE  EdfInv'
<1>1. FilesOK(disk, files, fslock)
    BY Mounted
<1>2. Advance(disk, files, fslock, t, files', fslock', k2)
    BY <1>1, FilesSame DEF Advance
<1> QED BY <1>2, AdvanceKeeps

\* The entry for the block at the level it is at is known.
WithEnt(fr, x) == [fr EXCEPT ![Len(fr)] = [fr[Len(fr)] EXCEPT !.ent = x]]
HasEnt(k, x, k2) == k2.frames = WithEnt(k.frames, x) /\ k2.want = k.want

LEMMA EntSet ==
    ASSUME NEW k, NEW f, FramesOK(k, f), NEW x \in Nat,
           NEW k2, HasEnt(k, x, k2)
    PROVE  /\ FramesOK(k2, f) /\ Last(k2.frames).level = Last(k.frames).level
           /\ Last(k2.frames).blk = Last(k.frames).blk /\ Last(k2.frames).ent = x
<1>0. PICK n : n = Len(k.frames)
    OBVIOUS
<1>1. /\ n \in Nat /\ n >= 1 /\ k.frames \in Seq(Frame) /\ k.frames[n] \in Frame
      /\ Last(k.frames) = k.frames[n]
    BY <1>0, TopFrame
<1>2. PICK fr, gr, e : /\ fr = k.frames /\ gr = k2.frames
                       /\ e = [k.frames[n] EXCEPT !.ent = x]
    OBVIOUS
<1>3. e \in Frame /\ e.level = fr[n].level /\ e.blk = fr[n].blk /\ e.ent = x
    BY <1>1, <1>2 DEF Frame
<1>4. /\ gr \in Seq(Frame) /\ Len(gr) = n /\ gr # <<>>
      /\ \A j \in 1..n : gr[j] = IF j = n THEN e ELSE fr[j]
  <2>1. fr \in Seq(Frame) /\ n = Len(fr) /\ gr = [fr EXCEPT ![n] = e]
      BY <1>0, <1>1, <1>2 DEF HasEnt, WithEnt
  <2> QED BY <2>1, <1>1, <1>3
<1>5. \A j \in 1..n : gr[j].level = fr[j].level /\ gr[j].blk = fr[j].blk
    BY <1>3, <1>4
<1>6. /\ fr[1].blk = k.want[1]
      /\ \A j \in 1..n : fr[j].level = j - 1 /\ InFile(f, j - 1, fr[j].blk)
      /\ \A j \in 1..(n - 1) : fr[j + 1].blk = fr[j].blk \div PTRS
  <2>1. FramesOK(k, f)
      OBVIOUS
  <2> QED BY <2>1, <1>0, <1>2, Zenon DEF FramesOK
<1>7. gr[1].blk = k2.want[1]
    BY <1>1, <1>5, <1>6 DEF HasEnt
<1>8. \A j \in 1..Len(gr) : gr[j].level = j - 1 /\ InFile(f, j - 1, gr[j].blk)
    BY <1>4, <1>5, <1>6
<1>9. ASSUME NEW j \in 1..(Len(gr) - 1) PROVE gr[j + 1].blk = gr[j].blk \div PTRS
  <2>1. j \in 1..(n - 1) /\ j \in 1..n /\ j + 1 \in 1..n
      BY <1>1, <1>4
  <2> QED BY <2>1, <1>5, <1>6
<1>10. FramesOK(k2, f)
    BY <1>2, <1>4, <1>7, <1>8, <1>9, Zenon DEF FramesOK
<1>11. Last(gr) = e
    BY <1>1, <1>4 DEF Last
<1> QED BY <1>1, <1>2, <1>3, <1>10, <1>11

LEMMA SearchKeeps ==
    ASSUME VolumeSound(disk), EdfInv, up = "mounted", NEW t \in Tasks, bcache_search(t)
    PROVE  EdfInv'
<1>1. PICK k : k = task[t]
    BY ZenonT(60)
<1>2. k.pc = "search" /\ k.pc \in Busy
    BY <1>1, Zenon DEF bcache_search, Busy
<1>3. PICK f : f = files[k.file]
    OBVIOUS
<1>4. /\ DOMAIN k = Fields /\ k.bad \in BOOLEAN /\ k.op \in Ops /\ k.tail \in Nat
      /\ k.lba \in Nat /\ BusyOK(disk, files, fslock, t, k)
      /\ FileOK(disk, f) /\ FileSound(disk, f.fst)
      /\ FramesOK(k, f.fst)
    BY <1>1, <1>2, <1>3, ReaderFacts
<1>5. PICK n, fr, top : n = Len(k.frames) /\ fr = k.frames /\ top = k.frames[n]
    OBVIOUS
<1>6. /\ n \in Nat /\ n >= 1 /\ Last(k.frames) = top /\ fr \in Seq(Frame) /\ top \in Frame
      /\ top.level = n - 1 /\ top.blk \in Nat /\ InFile(f.fst, top.level, top.blk)
    BY <1>4, <1>5, TopFrame
<1>7. PICK i : i = HitAt(f, top.level, top.blk)
    OBVIOUS
<1>8. /\ UNCHANGED <<disk, up, files, fslock>>
      /\ task' = [task EXCEPT ![t] =
           IF i # 0 THEN [k EXCEPT !.pc = "found", !.frames[n].ent = f.list[i]]
           ELSE IF top.level = f.fst.nlvl
           THEN [k EXCEPT !.pc = "add", !.lba = f.fst.fop, !.frames[n].blk = 0]
           ELSE [k EXCEPT !.frames = Append(k.frames, [level |-> top.level + 1,
                                                       blk |-> top.blk \div PTRS,
                                                       ent |-> 0])]]
  <2>1. Last(task[t].frames) = top /\ Len(task[t].frames) = n /\ files[task[t].file] = f
      BY <1>1, <1>3, <1>5, <1>6
  <2>2. i = SelectInSeq(files[task[t].file].list,
                        LAMBDA e : Hit(files[task[t].file].ents[e],
                                       Last(task[t].frames).level,
                                       Last(task[t].frames).blk))
      BY <2>1, <1>7 DEF HitAt, SelectInSeq
  <2>3. /\ UNCHANGED <<disk, up, files, fslock>>
        /\ task' = [task EXCEPT ![t] =
             IF i # 0 THEN [@ EXCEPT !.pc = "found", !.frames[n].ent = f.list[i]]
             ELSE IF top.level = f.fst.nlvl
             THEN [@ EXCEPT !.pc = "add", !.lba = f.fst.fop, !.frames[n].blk = 0]
             ELSE [@ EXCEPT !.frames = Append(task[t].frames, [level |-> top.level + 1,
                                                               blk |-> top.blk \div PTRS,
                                                               ent |-> 0])]]
      BY <2>1, <2>2, Zenon DEF bcache_search
  <2> QED BY <2>3, <1>1
<1>9. CASE i # 0
  <2>1. /\ f.list[i] \in 1..Len(f.ents)
        /\ f.ents[f.list[i]].level = top.level /\ f.ents[f.list[i]].blk = top.blk
    <3>1. f.list \in Seq(1..Len(f.ents)) /\ HitAt(f, top.level, top.blk) # 0
        BY <1>4, <1>7, <1>9 DEF FileOK
    <3>2. f.list[HitAt(f, top.level, top.blk)]
            \in {e \in 1..Len(f.ents) : Hit(f.ents[e], top.level, top.blk)}
        BY <3>1, HitFound
    <3> QED BY <3>2, <1>7 DEF Hit
  <2>2. PICK x : x = f.list[i]
      OBVIOUS
  <2>3. x \in 1..Len(f.ents) /\ x \in Nat /\ f.ents[x].level = top.level
        /\ f.ents[x].blk = top.blk
      BY <2>1, <2>2
  <2>4. PICK gr : gr = [fr EXCEPT ![n] = [fr[n] EXCEPT !.ent = x]]
      OBVIOUS
  <2>5. PICK k2 : k2 = [k EXCEPT !.pc = "found", !.frames = gr]
      OBVIOUS
  <2>6. task' = [task EXCEPT ![t] = k2]
      BY <2>2, <2>4, <2>5, <1>5, <1>8, <1>9
  <2>7. /\ DOMAIN k2 = Fields /\ k2.pc = "found" /\ k2.frames = gr /\ k2.lba = k.lba
        /\ k2.bad = k.bad /\ k2.tail = k.tail
        /\ k2.file = k.file /\ k2.cont = k.cont /\ k2.op = k.op /\ k2.want = k.want
        /\ k2.got = k.got
      BY <2>5, <1>4 DEF Fields
  <2>8. /\ FramesOK(k2, f.fst) /\ Last(k2.frames).level = top.level
        /\ Last(k2.frames).blk = top.blk /\ Last(k2.frames).ent = x
    <3>1. HasEnt(k, x, k2)
        BY <2>4, <2>7, <1>5 DEF HasEnt, WithEnt
    <3>2. /\ FramesOK(k2, f.fst) /\ Last(k2.frames).level = Last(k.frames).level
          /\ Last(k2.frames).blk = Last(k.frames).blk /\ Last(k2.frames).ent = x
        BY <3>1, <2>3, <2>7, <1>4, EntSet
    <3> QED BY <3>2, <1>6
  <2>9. FoundOK(disk, k2, f)
      BY <2>3, <2>7, <2>8 DEF FoundOK
  <2>10. TaskOK(disk, files, fslock, t, k2)
      BY <2>7, <2>8, <2>9, <1>3, <1>4, SameReader DEF Busy
  <2> QED BY <2>6, <2>10, <1>8, OnlyTask
<1>10. CASE i = 0 /\ top.level = f.fst.nlvl
  <2>1. top.blk = 0 /\ Lba(disk, f.fst, top.level, top.blk) = f.fst.fop
      BY <1>4, <1>6, <1>10, InFileTop, ZenonT(60)
  <2>2. f.fst.fop \in Nat
      BY <1>4, SoundFacts
  <2>3. [fr EXCEPT ![n].blk = 0] = fr
    <3>1. [top EXCEPT !.blk = 0] = top
        BY <2>1, <1>6 DEF Frame
    <3> QED BY <3>1, <1>5, <1>6
  <2>4. PICK k2 : k2 = [k EXCEPT !.pc = "add", !.lba = f.fst.fop, !.frames = fr]
      OBVIOUS
  <2>5. task' = [task EXCEPT ![t] = k2]
    <3>1. task' = [task EXCEPT ![t] = [k EXCEPT !.pc = "add", !.lba = f.fst.fop,
                                                !.frames[n].blk = 0]]
        BY <1>8, <1>10, Zenon
    <3>2. [k EXCEPT !.pc = "add", !.lba = f.fst.fop, !.frames[n].blk = 0]
            = [k EXCEPT !.pc = "add", !.lba = f.fst.fop, !.frames = [fr EXCEPT ![n].blk = 0]]
        BY <1>4, <1>5 DEF Fields
    <3> QED BY <3>1, <3>2, <2>3, <2>4
  <2>6. /\ DOMAIN k2 = Fields /\ k2.pc = "add" /\ k2.frames = k.frames
        /\ k2.lba = f.fst.fop /\ k2.bad = k.bad /\ k2.tail = k.tail
        /\ k2.file = k.file /\ k2.cont = k.cont /\ k2.op = k.op /\ k2.want = k.want
        /\ k2.got = k.got
      BY <2>4, <1>4, <1>5 DEF Fields
  <2>7. FramesOK(k2, f.fst)
      BY <2>6, <1>4 DEF FramesOK
  <2>8. FoundOK(disk, k2, f)
      BY <2>1, <2>6, <1>5, <1>6 DEF FoundOK
  <2>9. TaskOK(disk, files, fslock, t, k2)
      BY <2>2, <2>6, <2>7, <2>8, <1>3, <1>4, SameReader DEF Busy
  <2> QED BY <2>5, <2>9, <1>8, OnlyTask
<1>11. CASE i = 0 /\ top.level # f.fst.nlvl
  <2>1. PICK e : e = [level |-> top.level + 1, blk |-> top.blk \div PTRS, ent |-> 0]
      OBVIOUS
  <2>2. InFile(f.fst, n, top.blk \div PTRS) /\ top.level + 1 = n
    <3>1. InFile(f.fst, top.level + 1, top.blk \div PTRS)
        BY <1>4, <1>6, <1>11, InFileUp
    <3> QED BY <3>1, <1>6
  <2>3. e \in Frame /\ e.level = n /\ e.blk = top.blk \div PTRS /\ e.blk \in Nat
      BY <2>1, <2>2, <1>6 DEF Frame, InFile
  <2>4. PICK gr : gr = Append(fr, e)
      OBVIOUS
  <2>5. PICK k2 : k2 = [k EXCEPT !.frames = gr]
      OBVIOUS
  <2>6. task' = [task EXCEPT ![t] = k2]
      BY <2>1, <2>4, <2>5, <1>5, <1>8, <1>11
  <2>7. /\ DOMAIN k2 = Fields /\ k2.pc = "search" /\ k2.frames = gr /\ k2.lba = k.lba
        /\ k2.bad = k.bad /\ k2.tail = k.tail
        /\ k2.file = k.file /\ k2.cont = k.cont /\ k2.op = k.op /\ k2.want = k.want
        /\ k2.got = k.got
      BY <2>5, <1>2, <1>4 DEF Fields
  <2>8. /\ gr \in Seq(Frame) /\ Len(gr) = n + 1 /\ gr # <<>> /\ gr[n + 1] = e
        /\ \A j \in 1..n : gr[j] = fr[j]
      BY <2>3, <2>4, <1>5, <1>6
  <2>9. FramesOK(k2, f.fst)
    <3>1. /\ fr[1].blk = k.want[1]
          /\ \A j \in 1..n : fr[j].level = j - 1 /\ InFile(f.fst, j - 1, fr[j].blk)
          /\ \A j \in 1..(n - 1) : fr[j + 1].blk = fr[j].blk \div PTRS
      <4>1. FramesOK(k, f.fst)
          BY <1>4
      <4> QED BY <4>1, <1>5, Zenon DEF FramesOK
    <3>2. ASSUME NEW j \in 1..Len(gr)
          PROVE  gr[j].level = j - 1 /\ InFile(f.fst, j - 1, gr[j].blk)
      <4>1. CASE j = n + 1
        <5>1. j - 1 = n
            BY <4>1, <1>6
        <5> QED BY <5>1, <4>1, <2>2, <2>3, <2>8
      <4>2. CASE j # n + 1
        <5>1. j \in 1..n
            BY <4>2, <2>8, <1>6
        <5> QED BY <5>1, <2>8, <3>1
      <4> QED BY <4>1, <4>2
    <3>3. ASSUME NEW j \in 1..(Len(gr) - 1)
          PROVE  gr[j + 1].blk = gr[j].blk \div PTRS
      <4>1. j \in 1..n
          BY <2>8, <1>6
      <4>2. CASE j = n
          BY <4>1, <4>2, <2>3, <2>8, <1>5
      <4>3. CASE j # n
        <5>1. j \in 1..(n - 1) /\ j + 1 \in 1..n
            BY <4>1, <4>3, <1>6
        <5> QED BY <5>1, <4>1, <2>8, <3>1
      <4> QED BY <4>2, <4>3
    <3>4. gr[1].blk = k2.want[1]
        BY <3>1, <2>7, <2>8, <1>6
    <3> QED BY <3>2, <3>3, <3>4, <2>7, <2>8 DEF FramesOK
  <2>10. FoundOK(disk, k2, f)
      BY <2>7 DEF FoundOK
  <2>11. TaskOK(disk, files, fslock, t, k2)
      BY <2>7, <2>9, <2>10, <1>3, <1>4, SameReader DEF Busy
  <2> QED BY <2>6, <2>11, <1>8, OnlyTask
<1> QED BY <1>9, <1>10, <1>11

LEMMA TailKeeps ==
    ASSUME VolumeSound(disk), EdfInv, up = "mounted", NEW t \in Tasks, bcache_tail(t)
    PROVE  EdfInv'
<1>1. PICK k : k = task[t]
    OBVIOUS
<1>2. k.pc = "add" /\ k.pc \in Busy
    BY <1>1 DEF bcache_tail, Busy
<1>3. PICK f : f = files[k.file]
    OBVIOUS
<1>4. /\ DOMAIN k = Fields /\ k.bad \in BOOLEAN /\ k.op \in Ops /\ k.tail \in Nat
      /\ k.lba \in Nat /\ BusyOK(disk, files, fslock, t, k)
      /\ FileOK(disk, f) /\ FramesOK(k, f.fst) /\ FoundOK(disk, k, f)
    BY <1>1, <1>2, <1>3, ReaderFacts
<1>5. f.last \in Nat
    BY <1>4 DEF FileOK, FileObject
<1>6. DOMAIN task = Tasks
    BY Mounted
<1>7. PICK k2 : k2 = [k EXCEPT !.pc = "link", !.tail = f.last]
    OBVIOUS
<1>8. task' = [task EXCEPT ![t] = k2] /\ UNCHANGED <<disk, up, files, fslock>>
    BY <1>1, <1>3, <1>6, <1>7 DEF bcache_tail
<1>9. /\ DOMAIN k2 = Fields /\ k2.pc = "link" /\ k2.frames = k.frames /\ k2.lba = k.lba
      /\ k2.bad = k.bad /\ k2.tail = f.last
      /\ k2.file = k.file /\ k2.cont = k.cont /\ k2.op = k.op /\ k2.want = k.want
      /\ k2.got = k.got
    BY <1>4, <1>7 DEF Fields
<1>10. FramesOK(k2, f.fst)
    BY <1>4, <1>9 DEF FramesOK
<1>11. FoundOK(disk, k2, f)
    BY <1>2, <1>4, <1>9 DEF FoundOK
<1>12. TaskOK(disk, files, fslock, t, k2)
    BY <1>3, <1>4, <1>5, <1>9, <1>10, <1>11, SameReader DEF Busy
<1> QED BY <1>8, <1>12, OnlyTask
\* An entry is added to the cache of a file (bcache_link).
LEMMA LinkKeeps ==
    ASSUME VolumeSound(disk), EdfInv, up = "mounted", NEW t \in Tasks, bcache_link(t)
    PROVE  EdfInv'
<1>1. PICK k : k = task[t]
    OBVIOUS
<1>2. k.pc = "link" /\ k.pc \in Busy
    BY <1>1 DEF bcache_link, Busy
<1>3. PICK i, f : i = k.file /\ f = files[k.file]
    OBVIOUS
<1>4. /\ DOMAIN k = Fields /\ k.bad \in BOOLEAN /\ k.op \in Ops /\ k.tail \in Nat
      /\ k.lba \in Nat /\ BusyOK(disk, files, fslock, t, k)
      /\ i \in 1..Len(files) /\ Known(files, fslock, i)
      /\ FileOK(disk, f) /\ FramesOK(k, f.fst) /\ FoundOK(disk, k, f)
      /\ TaskOK(disk, files, fslock, t, k)
    BY <1>1, <1>2, <1>3, ReaderFacts
<1>5. PICK top : top = Last(k.frames)
    OBVIOUS
<1>6. top.level \in Nat /\ top.blk \in Nat /\ InFile(f.fst, top.level, top.blk)
      /\ Len(k.frames) \in Nat
  <2>1. PICK n : n = Len(k.frames)
      OBVIOUS
  <2> QED BY <2>1, <1>4, <1>5, TopFrame
<1>7. k.lba \in {0, Lba(disk, f.fst, top.level, top.blk)}
      /\ (k.bad \/ k.lba = Lba(disk, f.fst, top.level, top.blk))
    BY <1>2, <1>4, <1>5 DEF FoundOK
<1>8. PICK f2 : f2 = __bcache_add(f, top.level, top.blk, k.lba, k.bad, k.tail)
    OBVIOUS
<1>9. PICK x : x = Len(f.ents) + 1
    OBVIOUS
<1>10. /\ FileOK(disk, f2) /\ Grown(f, f2)
       /\ x \in 1..Len(f2.ents)
       /\ f2.ents[x].level = top.level /\ f2.ents[x].blk = top.blk
    BY <1>4, <1>6, <1>7, <1>8, <1>9, EntryAdded, SMTT(40)
<1>11. x \in Nat
    BY <1>10
<1>12. PICK fs2 : fs2 = files'
    OBVIOUS
<1>13. Replaced(files, i, f2, fs2) /\ UNCHANGED <<disk, up, fslock>>
  <2>1. files' = [files EXCEPT ![k.file] =
                    __bcache_add(files[k.file], top.level, top.blk, k.lba, k.bad, k.tail)]
        /\ UNCHANGED <<disk, up, fslock>>
      BY <1>1, <1>5, Zenon DEF bcache_link
  <2> QED BY <2>1, <1>3, <1>8, <1>12 DEF Replaced
<1>14. FilesOK(disk, files, fslock) /\ DOMAIN task = Tasks
    BY Mounted
<1>15. FilesOK(disk, fs2, fslock) /\ FilesKept(files, fslock, fs2, fslock) /\ fs2[i] = f2
    BY <1>3, <1>4, <1>10, <1>13, <1>14, FileReplaced
<1>16. TaskOK(disk, fs2, fslock, t, k)
    BY <1>4, <1>14, <1>15, TaskKept
<1>17. BusyOK(disk, fs2, fslock, t, k) /\ FramesOK(k, f2.fst)
    BY <1>2, <1>3, <1>15, <1>16 DEF TaskOK, BusyOK
<1>18. PICK gr : gr = WithEnt(k.frames, x)
    OBVIOUS
<1>19. PICK k2 : k2 = [k EXCEPT !.pc = "found", !.lba = 0, !.tail = 0, !.frames = gr]
    OBVIOUS
<1>20. task' = [task EXCEPT ![t] = k2]
  <2>1. task' = [task EXCEPT ![t].pc = "found", ![t].lba = 0, ![t].tail = 0,
                   ![t].frames[Len(k.frames)].ent = x]
      BY <1>1, <1>3, <1>9 DEF bcache_link
  <2>2. task' = [task EXCEPT ![t] = [k EXCEPT !.pc = "found", !.lba = 0, !.tail = 0,
                                              !.frames[Len(k.frames)].ent = x]]
      BY ZenonT(60), <2>1, <1>1, <1>14
  <2>3. [k EXCEPT !.pc = "found", !.lba = 0, !.tail = 0, !.frames[Len(k.frames)].ent = x]
          = k2
      BY <1>4, <1>18, <1>19 DEF Fields, WithEnt
  <2> QED BY <2>2, <2>3
<1>21. /\ DOMAIN k2 = Fields /\ k2.pc = "found" /\ k2.frames = gr /\ k2.lba = 0
       /\ k2.bad = k.bad /\ k2.tail = 0
       /\ k2.file = k.file /\ k2.cont = k.cont /\ k2.op = k.op /\ k2.want = k.want
       /\ k2.got = k.got
    BY <1>4, <1>19 DEF Fields
<1>22. HasEnt(k, x, k2)
    BY <1>18, <1>21 DEF HasEnt
<1>23. /\ FramesOK(k2, f2.fst) /\ Last(k2.frames).level = top.level
       /\ Last(k2.frames).blk = top.blk /\ Last(k2.frames).ent = x
  <2>1. /\ FramesOK(k2, f2.fst) /\ Last(k2.frames).level = Last(k.frames).level
        /\ Last(k2.frames).blk = Last(k.frames).blk /\ Last(k2.frames).ent = x
      BY <1>11, <1>17, <1>22, EntSet
  <2> QED BY <2>1, <1>5
<1>24. FoundOK(disk, k2, f2)
    BY <1>10, <1>21, <1>23 DEF FoundOK
<1>25. TaskOK(disk, fs2, fslock, t, k2)
  <2>1. k2.pc \in Busy /\ k2.bad \in BOOLEAN /\ k2.tail \in Nat /\ k2.lba \in Nat
        /\ (k.bad => k2.bad)
      BY <1>4, <1>21 DEF Busy
  <2>2. FramesOK(k2, fs2[k.file].fst) /\ FoundOK(disk, k2, fs2[k.file])
      BY <1>3, <1>15, <1>23, <1>24
  <2> QED BY <2>1, <2>2, <1>4, <1>17, <1>21, SameReader
<1>26. Advance(disk, files, fslock, t, files', fslock', k2)
    BY <1>12, <1>13, <1>15, <1>25 DEF Advance
<1> QED BY <1>13, <1>20, <1>26, AdvanceKeeps

\* An entry that a task has found.
LEMMA FoundEntry ==
    ASSUME NEW f, FileOK(disk, f), NEW k, FoundOK(disk, k, f), k.pc \in {"found", "io"},
           NEW n, n = Last(k.frames).ent, NEW e, e = f.ents[n]
    PROVE  /\ n \in 1..Len(f.ents) /\ n \in Nat
           /\ e \in CacheEntry(disk) /\ EntryOK(disk, f.fst, e)
           /\ e.level = Last(k.frames).level /\ e.blk = Last(k.frames).blk
           /\ e.bad \in BOOLEAN /\ e.lba \in Nat
<1>1. n \in 1..Len(f.ents) /\ e.level = Last(k.frames).level
      /\ e.blk = Last(k.frames).blk
    BY DEF FoundOK
<1>2. e \in CacheEntry(disk) /\ EntryOK(disk, f.fst, e)
    BY <1>1, EntryHolds
<1>3. Len(f.ents) \in Nat
    BY DEF FileOK, FileObject
<1> QED BY <1>1, <1>2, <1>3 DEF CacheEntry

LEMMA FoundKeeps ==
    ASSUME VolumeSound(disk), EdfInv, up = "mounted", NEW t \in Tasks, bcache_found(t)
    PROVE  EdfInv'
<1>1. PICK k : k = task[t]
    OBVIOUS
<1>2. k.pc = "found" /\ k.pc \in Busy
    BY <1>1 DEF bcache_found, Busy
<1>3. PICK f : f = files[k.file]
    OBVIOUS
<1>4. /\ DOMAIN k = Fields /\ k.bad \in BOOLEAN /\ k.op \in Ops /\ k.tail \in Nat
      /\ k.lba \in Nat /\ BusyOK(disk, files, fslock, t, k)
      /\ FileOK(disk, f) /\ FramesOK(k, f.fst) /\ FoundOK(disk, k, f)
      /\ TaskOK(disk, files, fslock, t, k)
    BY <1>1, <1>2, <1>3, ReaderFacts
<1>5. PICK n, e : n = Last(k.frames).ent /\ e = f.ents[n]
    OBVIOUS
<1>6. n \in 1..Len(f.ents) /\ e.level = Last(k.frames).level
      /\ e.blk = Last(k.frames).blk /\ e.bad \in BOOLEAN
    BY <1>2, <1>4, <1>5, FoundEntry, SMTT(40)
<1>7. FilesOK(disk, files, fslock)
    BY Mounted, SMTT(40)
<1>8. /\ UNCHANGED <<disk, up>>
      /\ IF e.data # NoData THEN Return(t, files, e.data, e.bad)
         ELSE /\ task' = [task EXCEPT ![t] = [k EXCEPT !.pc = "io"]]
              /\ UNCHANGED <<files, fslock>>
  <2>1. e = files[task[t].file].ents[Last(task[t].frames).ent]
      BY <1>1, <1>3, <1>5
  <2>2. DOMAIN task = Tasks
      BY Mounted
  <2> QED BY <2>1, <2>2, <1>1 DEF bcache_found
<1>9. CASE e.data # NoData
  <2>1. PICK block, bad, lvl, blk : /\ block = e.data /\ bad = e.bad
                                    /\ lvl = Last(k.frames).level
                                    /\ blk = Last(k.frames).blk
      OBVIOUS
  <2>2. /\ block \in Bufs(disk)
        /\ block \in {Junk, Right(disk, f.fst, lvl, blk)}
        /\ ~bad => block = Right(disk, f.fst, lvl, blk)
      BY <2>1, <1>4, <1>5, <1>6, <1>9, EntryHolds
  <2>3. bad \in BOOLEAN /\ Return(t, files, block, bad)
      BY <2>1, <1>6, <1>8, <1>9
  <2>4. \E k2 : /\ task' = [task EXCEPT ![t] = k2]
                /\ Advance(disk, files, fslock, t, files', fslock', k2)
      BY <2>1, <2>2, <2>3, <1>1, <1>2, <1>3, <1>4, <1>7, ReturnKeeps
  <2> QED BY <2>4, <1>8, AdvanceKeeps
<1>10. CASE e.data = NoData
  <2>1. PICK k2 : k2 = [k EXCEPT !.pc = "io"]
      OBVIOUS
  <2>2. task' = [task EXCEPT ![t] = k2] /\ UNCHANGED <<disk, up, files, fslock>>
      BY <2>1, <1>8, <1>10
  <2>3. /\ DOMAIN k2 = Fields /\ k2.pc = "io" /\ k2.frames = k.frames
        /\ k2.lba = k.lba /\ k2.bad = k.bad /\ k2.tail = k.tail
        /\ k2.file = k.file /\ k2.cont = k.cont /\ k2.op = k.op /\ k2.want = k.want
        /\ k2.got = k.got
      BY <2>1, <1>4 DEF Fields
  <2>4. FramesOK(k2, f.fst)
      BY <2>3, <1>4 DEF FramesOK
  <2>5. FoundOK(disk, k2, f)
      BY <2>3, <1>2, <1>4 DEF FoundOK
  <2>6. TaskOK(disk, files, fslock, t, k2)
      BY <2>3, <2>4, <2>5, <1>3, <1>4, SameReader DEF Busy
  <2> QED BY <2>2, <2>6, OnlyTask
<1> QED BY <1>9, <1>10

LEMMA GivesUp ==
    ASSUME VolumeSound(disk), EdfInv, up = "mounted", NEW t \in Tasks,
           NEW k, k = task[t], k.pc \in Busy, UNCHANGED <<disk, up>>,
           NEW err, NEW bad \in BOOLEAN, Fail(t, err, bad),
           NEW k1, k1 = [k EXCEPT !.bad = @ \/ bad],
           Faithful(disk, Done(k1, err, <<>>))
    PROVE  EdfInv'
<1>1. TaskOK(disk, files, fslock, t, k) /\ FilesOK(disk, files, fslock)
    BY Mounted
<1>2. \E k2 : /\ task' = [task EXCEPT ![t] = k2]
              /\ Advance(disk, files, fslock, t, files', fslock', k2)
    BY <1>1, FailKeeps
<1> QED BY <1>2, AdvanceKeeps

LEMMA FaultKeeps ==
    ASSUME VolumeSound(disk), EdfInv, up = "mounted", NEW t \in Tasks, bcache_fail(t)
    PROVE  EdfInv'
<1>1. PICK k : k = task[t]
    OBVIOUS
<1>2. k.pc \in Busy
    BY <1>1 DEF bcache_fail, Busy
<1>3. PICK err : err = IF k.pc = "io" THEN "EIO" ELSE "ENOMEM"
    OBVIOUS
<1>4. PICK bad \in BOOLEAN : bad = FALSE
    OBVIOUS
<1>5. Fail(t, err, bad) /\ UNCHANGED <<disk, up>>
    BY <1>1, <1>3, <1>4 DEF bcache_fail
<1>6. PICK k1 : k1 = [k EXCEPT !.bad = @ \/ bad]
    OBVIOUS
<1>7. PICK r : r = Done(k1, err, <<>>)
    OBVIOUS
<1>8. r.res.err = err
    BY <1>7, DoneFacts
<1>9. Faithful(disk, r)
    BY <1>3, <1>8 DEF Faithful
<1> QED BY <1>1, <1>2, <1>5, <1>6, <1>7, <1>9, GivesUp
\* The reading of a file that has changed in between.
LEMMA AdvanceAfter ==
    ASSUME NEW dk, NEW fs, NEW lk, NEW fs2, NEW t, NEW fs3, NEW lk3, NEW k2,
           FilesOK(dk, fs, lk), FilesOK(dk, fs2, lk), FilesKept(fs, lk, fs2, lk),
           Advance(dk, fs2, lk, t, fs3, lk3, k2)
    PROVE  Advance(dk, fs, lk, t, fs3, lk3, k2)
<1>1. FilesOK(dk, fs3, lk3) /\ FilesKept(fs2, lk, fs3, lk3)
    BY DEF Advance
<1>2. FilesKept(fs, lk, fs3, lk3)
    BY <1>1, KeptTwice
<1> QED BY <1>2 DEF Advance

\* A block is read from the volume (bcache_io).
LEMMA IOKeeps ==
    ASSUME VolumeSound(disk), EdfInv, up = "mounted", NEW t \in Tasks,
           NEW good \in BOOLEAN, bcache_io(t, good)
    PROVE  EdfInv'
<1>1. PICK k : k = task[t]
    BY Zenon
<1>2. k.pc = "io" /\ k.pc \in Busy
    BY <1>1, Zenon DEF bcache_io, Busy
<1>3. PICK i, f : i = k.file /\ f = files[k.file]
    OBVIOUS
<1>4. /\ DOMAIN k = Fields /\ k.bad \in BOOLEAN /\ k.op \in Ops
      /\ BusyOK(disk, files, fslock, t, k)
      /\ i \in 1..Len(files) /\ Known(files, fslock, i)
      /\ FileOK(disk, f) /\ FileSound(disk, f.fst)
      /\ FramesOK(k, f.fst) /\ FoundOK(disk, k, f)
      /\ TaskOK(disk, files, fslock, t, k)
    BY <1>1, <1>2, <1>3, ReaderFacts
<1>5. PICK n, e, lvl, blk : /\ n = Last(k.frames).ent /\ e = f.ents[n]
                            /\ lvl = Last(k.frames).level /\ blk = Last(k.frames).blk
    OBVIOUS
<1>6. /\ n \in 1..Len(f.ents) /\ e.level = lvl /\ e.blk = blk /\ e.bad \in BOOLEAN
      /\ e.lba \in Nat /\ EntryOK(disk, f.fst, e)
    BY <1>2, <1>4, <1>5, FoundEntry
<1>7. FilesOK(disk, files, fslock) /\ DOMAIN task = Tasks
    BY Mounted
<1>8. PICK block : block = IF good THEN At(disk, e.lba) ELSE Junk
    OBVIOUS
<1>9. PICK bad \in BOOLEAN : bad <=> (e.bad \/ ~good)
    BY <1>6, Zenon
<1>10. /\ UNCHANGED <<disk, up>>
       /\ IF e.lba < 1 THEN Fail(t, "EINVAL", e.bad)
          ELSE Return(t, [files EXCEPT ![i].ents[n].data = block,
                                       ![i].ents[n].bad = e.bad \/ ~good],
                      block, e.bad \/ ~good)
  <2>1. /\ i = task[t].file /\ n = Last(task[t].frames).ent
        /\ e = files[task[t].file].ents[Last(task[t].frames).ent]
      BY <1>1, <1>3, <1>5
  <2> QED BY <2>1, <1>8, Zenon DEF bcache_io
<1>11. CASE e.lba < 1
  <2>1. PICK b \in BOOLEAN : b = e.bad
      BY <1>6
  <2>2. PICK k1 : k1 = [k EXCEPT !.bad = @ \/ b]
      OBVIOUS
  <2>3. k1.op = k.op /\ k1.bad \in BOOLEAN /\ (k1.bad <=> k.bad \/ b)
      BY <2>2, <1>4, WorseFacts
  <2>4. PICK err : err = "EINVAL"
      OBVIOUS
  <2>5. PICK r : r = Done(k1, err, <<>>)
      OBVIOUS
  <2>6. r.op = k.op /\ r.bad = k1.bad /\ r.res.err = "EINVAL"
      BY <2>3, <2>4, <2>5, DoneFacts
  <2>7. ASSUME ~r.bad PROVE f.fst.adbc = 0
    <3>1. ~e.bad
        BY <2>1, <2>3, <2>6, <2>7
    <3>2. e.lba = Lba(disk, f.fst, lvl, blk) /\ InFile(f.fst, lvl, blk)
        BY <3>1, <1>6 DEF EntryOK
    <3>3. e.lba = 0
        BY <1>6, <1>11
    <3> QED BY <3>2, <3>3, <1>4, LbaNat
  <2>8. Faithful(disk, r)
    <3>1. SUFFICES ASSUME ~r.bad PROVE Faithful(disk, r)
        BY DEF Faithful
    <3>2. f.fst.adbc = 0
        BY <3>1, <2>7
    <3>3. CASE k.cont = "dir"
      <4>1. f.fst = DirFst(disk)
          BY <3>3, <1>3, <1>4, <1>7 DEF BusyOK, FilesOK
      <4> QED BY <4>1, <3>2, DirectorySound
    <3>4. CASE k.cont # "dir"
      <4>1. f.fst \in FilesOf(disk) /\ f.fst.name = r.op.name
          BY <3>4, <2>6, <1>3, <1>4 DEF BusyOK, Target
      <4>2. f.fst \in {x \in FilesOf(disk) : x.name = r.op.name}
          BY <4>1
      <4> QED BY <4>2, <3>2, <2>6 DEF Faithful
    <3> QED BY <3>3, <3>4
  <2>9. Fail(t, err, b) /\ UNCHANGED <<disk, up>>
      BY <2>1, <2>4, <1>10, <1>11
  <2> QED BY <2>2, <2>5, <2>8, <2>9, <1>1, <1>2, GivesUp
<1>12. CASE ~(e.lba < 1)
  <2>1. PICK f2 : f2 = WithBlock(f, n, block, bad)
      OBVIOUS
  <2>2. /\ FileOK(disk, f2) /\ Grown(f, f2)
        /\ block \in Bufs(disk)
        /\ block \in {Junk, Right(disk, f.fst, e.level, e.blk)}
        /\ ~bad => block = Right(disk, f.fst, e.level, e.blk)
      BY <2>1, <1>4, <1>5, <1>6, <1>8, <1>9, <1>12, EntryRead, SMTT(40)
  <2>3. PICK fs2 : fs2 = [files EXCEPT ![i] = f2]
      OBVIOUS
  <2>4. Return(t, fs2, block, bad)
    <3>1. (e.bad \/ ~good) = bad
        BY <1>6, <1>9
    <3>2. [files EXCEPT ![i].ents[n].data = block, ![i].ents[n].bad = bad] = fs2
      <4>1. /\ files \in Seq(FileObject(disk)) /\ f = files[i] /\ f \in FileObject(disk)
            /\ f.ents \in Seq(CacheEntry(disk)) /\ f.ents[n] \in CacheEntry(disk)
        <5>1. files \in Seq(FileObject(disk)) /\ f = files[i]
            BY <1>3, <1>7, Zenon DEF FilesOK
        <5>2. f \in FileObject(disk)
            BY <1>4, Zenon DEF FileOK
        <5>3. f.ents \in Seq(CacheEntry(disk))
            BY <5>2 DEF FileObject
        <5>4. f.ents[n] \in CacheEntry(disk)
            BY <5>3, <1>6
        <5> QED BY <5>1, <5>2, <5>3, <5>4
      <4>2. PICK d : d = [f.ents[n] EXCEPT !.data = block]
          OBVIOUS
      <4>3. PICK e1 : e1 = [f.ents EXCEPT ![n] = d]
          OBVIOUS
      <4>4. PICK f1 : f1 = [f EXCEPT !.ents = e1]
          OBVIOUS
      <4>5. PICK g1 : g1 = [files EXCEPT ![i] = f1]
          OBVIOUS
      <4>6. [files EXCEPT ![i].ents[n].data = block] = g1
          BY <4>2, <4>3, <4>4, <4>5, <1>3
      <4>7. g1[i] = f1 /\ f1.ents = e1 /\ e1[n] = d
        <5>1. g1[i] = f1
            BY <4>1, <4>5, <1>4
        <5>2. f1.ents = e1
            BY <4>1, <4>4 DEF FileObject
        <5>3. e1[n] = d
            BY <4>1, <4>3, <1>6
        <5> QED BY <5>1, <5>2, <5>3
      <4>8. [g1 EXCEPT ![i].ents[n].bad = bad]
              = [g1 EXCEPT ![i] = [f1 EXCEPT !.ents = [e1 EXCEPT ![n] = [d EXCEPT !.bad = bad]]]]
          BY <4>7
      <4>9. PICK e2 : e2 = [f.ents EXCEPT ![n] = [f.ents[n] EXCEPT !.data = block, !.bad = bad]]
          OBVIOUS
      <4>10. [e1 EXCEPT ![n] = [d EXCEPT !.bad = bad]] = e2
          BY <4>1, <4>2, <4>3, <4>9
      <4>11. [f1 EXCEPT !.ents = e2] = [f EXCEPT !.ents = e2]
          BY <4>1, <4>4 DEF FileObject
      <4>12. [f EXCEPT !.ents = e2] = f2
          BY <4>9, <2>1 DEF WithBlock
      <4>13. [g1 EXCEPT ![i] = f2] = fs2
          BY <4>1, <4>5, <1>4, <2>3
      <4>14. [files EXCEPT ![i].ents[n].data = block, ![i].ents[n].bad = bad]
               = [g1 EXCEPT ![i].ents[n].bad = bad]
          BY <4>6
      <4> QED BY <4>8, <4>10, <4>11, <4>12, <4>13, <4>14
    <3> QED BY <3>1, <3>2, <1>10, <1>12
  <2>5. /\ FilesOK(disk, fs2, fslock) /\ FilesKept(files, fslock, fs2, fslock)
        /\ fs2[i] = f2
    <3>1. Replaced(files, i, f2, fs2)
        BY <2>3 DEF Replaced
    <3> QED BY <3>1, <2>2, <1>3, <1>4, <1>7, FileReplaced
  <2>6. files[k.file].fst = fs2[k.file].fst /\ fs2[k.file].fst = f.fst
      BY <2>2, <2>5, <1>3 DEF Grown
  <2>7. TaskOK(disk, fs2, fslock, t, k)
      BY <2>5, <1>4, <1>7, TaskKept
  <2>8. block \in {Junk, Right(disk, fs2[k.file].fst, lvl, blk)}
        /\ (~bad => block = Right(disk, fs2[k.file].fst, lvl, blk))
      BY <2>2, <2>6, <1>6
  <2>9. \E k2 : /\ task' = [task EXCEPT ![t] = k2]
                /\ Advance(disk, fs2, fslock, t, files', fslock', k2)
      BY <2>2, <2>4, <2>5, <2>6, <2>7, <2>8, <1>1, <1>2, <1>5, ReturnKeeps
  <2>10. PICK k2 : /\ task' = [task EXCEPT ![t] = k2]
                   /\ Advance(disk, fs2, fslock, t, files', fslock', k2)
      BY <2>9
  <2>11. Advance(disk, files, fslock, t, files', fslock', k2)
      BY <2>5, <2>10, <1>7, AdvanceAfter
  <2> QED BY <2>10, <2>11, <1>10, AdvanceKeeps
<1> QED BY <1>11, <1>12
-----------------------------------------------------------------------------
(* edf_lookup, edf_read_rec and guest_ipl_nss.                             *)

\* The first m blocks of a file.
LEMMA AllWanted ==
    ASSUME NEW m \in Nat, m # 0, NEW want, want = [b \in 1..m |-> b - 1]
    PROVE  /\ want \in Seq(Nat) /\ Len(want) = m /\ want # <<>> /\ want[1] = 0
           /\ \A j \in 1..Len(want) : want[j] = want[1] + j - 1
<1>1. want \in Seq(Nat) /\ Len(want) = m /\ 1 \in 1..m
    OBVIOUS
<1>2. want[1] = 0 /\ \A j \in 1..m : want[j] = j - 1
    BY <1>1
<1>3. want # <<>>
    BY <1>1
<1>4. ASSUME NEW j \in 1..m PROVE want[j] = want[1] + j - 1
    BY <1>2
<1> QED BY <1>1, <1>2, <1>3, <1>4

LEMMA LookupKeeps ==
    ASSUME VolumeSound(disk), EdfInv, up = "mounted", NEW t \in Tasks, NEW op \in Ops,
           NEW storage \in BOOLEAN, edf_lookup(t, op, storage)
    PROVE  EdfInv'
<1>1. FilesOK(disk, files, fslock) /\ fslock = None /\ UNCHANGED <<disk, up>>
    BY Mounted DEF edf_lookup
<1>2. files \in Seq(FileObject(disk)) /\ Len(files) \in Nat /\ Len(files) >= 1
      /\ files[1].fst = DirFst(disk) /\ DirFst(disk).name = DIRECTOR
    BY <1>1 DEF FilesOK
<1>3. op.name \notin {DIRECTOR, ALLOCMAP} /\ t # None
    BY EdfAssumption DEF None
<1>4. PICK c : c = Cached(op.name)
    OBVIOUS
<1>5. PICK me : me = [Idle EXCEPT !.op = op]
    OBVIOUS
<1>6. /\ DOMAIN me = Fields /\ me.pc = "idle" /\ me.op = op /\ me.lba = 0
      /\ me.tail = 0 /\ ~me.bad /\ me.bad \in BOOLEAN /\ me.got = <<>>
    BY <1>5 DEF Idle, Fields
<1>7. IF c # 0
      THEN /\ task' = [task EXCEPT ![t] = [me EXCEPT !.pc = "open", !.file = c]]
           /\ UNCHANGED <<files, fslock>>
      ELSE IF ~storage
      THEN /\ task' = [task EXCEPT ![t] = Done(me, "ENOMEM", <<>>)]
           /\ UNCHANGED <<files, fslock>>
      ELSE /\ fslock' = t
           /\ files' = Append(files, File(NoFst))
           /\ task' = [task EXCEPT ![t] =
                         Reading(me, 1, "dir", [b \in 1..files[1].fst.adbc |-> b - 1])]
    BY <1>4, <1>5 DEF edf_lookup
<1>8. CASE c # 0
  <2>1. c \in 1..Len(files) /\ files[c].fst.name = op.name
      BY <1>2, <1>4, <1>8, CachedFound
  <2>2. c \in 2..Len(files)
      BY <2>1, <1>2, <1>3
  <2>3. Known(files, fslock, c)
      BY <2>1, <1>1 DEF Known
  <2>4. files[c].fst \in FilesOf(disk)
      BY <2>2, <2>3, <1>1 DEF FilesOK
  <2>5. PICK k2 : k2 = [me EXCEPT !.pc = "open", !.file = c]
      OBVIOUS
  <2>6. /\ DOMAIN k2 = Fields /\ k2.pc = "open" /\ k2.file = c /\ k2.op = op /\ k2.lba = 0
        /\ k2.tail = 0 /\ k2.bad \in BOOLEAN /\ k2.got = <<>>
      BY <2>5, <1>6 DEF Fields
  <2>7. Target(disk, files, fslock, k2)
      BY <2>1, <2>2, <2>3, <2>4, <2>6 DEF Target
  <2>8. TaskOK(disk, files, fslock, t, k2)
      BY <2>6, <2>7 DEF TaskOK, Busy
  <2> QED BY <2>5, <2>8, <1>1, <1>7, <1>8, OnlyTask
<1>9. CASE c = 0 /\ ~storage
  <2>1. PICK k2 : k2 = Done(me, "ENOMEM", <<>>)
      OBVIOUS
  <2>2. k2.res.err = "ENOMEM"
      BY <2>1, DoneFacts
  <2>3. Faithful(disk, k2)
      BY <2>2 DEF Faithful
  <2>4. TaskOK(disk, files, fslock, t, k2)
      BY <2>1, <2>3, <1>6, DoneOK
  <2> QED BY <2>1, <2>4, <1>1, <1>7, <1>9, OnlyTask
<1>10. CASE c = 0 /\ storage
  <2>1. PICK dir, n, fs2 : dir = DirFst(disk) /\ n = Len(files) /\ fs2 = files'
      OBVIOUS
  <2>2. FileSound(disk, dir) /\ dir.adbc \in Nat /\ dir.adbc # 0
      BY <2>1, DirectorySound
  <2>3. PICK want : want = [b \in 1..dir.adbc |-> b - 1]
      OBVIOUS
  <2>4. PICK k2 : k2 = Reading(me, 1, "dir", want)
      OBVIOUS
  <2>5. fslock' = t /\ fs2 = Append(files, File(NoFst)) /\ task' = [task EXCEPT ![t] = k2]
      BY <2>1, <2>3, <2>4, <1>2, <1>7, <1>10
  <2>6. NoFst \in Fsts(disk) /\ FileOK(disk, File(NoFst)) /\ File(NoFst) \in FileObject(disk)
    <3>1. NoFst \in Fsts(disk)
        BY DEF Fsts
    <3> QED BY <3>1, EmptyFile DEF FileOK
  <2>7. /\ n \in Nat /\ n >= 1 /\ fs2 \in Seq(FileObject(disk)) /\ Len(fs2) = n + 1
        /\ fs2[n + 1] = File(NoFst) /\ \A j \in 1..n : fs2[j] = files[j]
      BY <2>1, <2>5, <2>6, <1>2
  <2>8. \A j : Known(files, fslock, j) <=> j \in 1..n
      BY <2>1, <1>1 DEF Known
  <2>9. \A j : Known(fs2, t, j) <=> j \in 1..n
      BY <2>7, <1>3 DEF Known
  <2>10. FilesOK(disk, fs2, t)
    <3>1. \A j \in 1..Len(fs2) : FileOK(disk, fs2[j])
      <4>1. ASSUME NEW j \in 1..(n + 1) PROVE FileOK(disk, fs2[j])
        <5>1. CASE j = n + 1
            BY <5>1, <2>6, <2>7
        <5>2. CASE j # n + 1
          <6>1. j \in 1..n
              BY <5>2, <2>7
          <6> QED BY <6>1, <2>1, <2>7, <1>1 DEF FilesOK
        <5> QED BY <5>1, <5>2
      <4> QED BY <4>1, <2>7
    <3>2. fs2[1].fst = DirFst(disk) /\ DirFst(disk).name = DIRECTOR /\ Len(fs2) >= 1
        BY <2>7, <1>2
    <3>3. \A j \in 2..Len(fs2) : Known(fs2, t, j) => fs2[j].fst \in FilesOf(disk)
        BY <2>1, <2>7, <2>8, <2>9, <1>1 DEF FilesOK
    <3>4. t # None => Len(fs2) >= 2 /\ fs2[Len(fs2)] = File(NoFst)
        BY <2>7
    <3> QED BY <3>1, <3>2, <3>3, <3>4, <2>7 DEF FilesOK
  <2>11. FilesKept(files, fslock, fs2, t)
    <3>1. FilesKept(files, fslock, files, fslock)
        BY <1>1, FilesSame
    <3> QED BY <3>1, <2>7, <2>8, <2>9 DEF FilesKept
  <2>12. /\ k2.want = want /\ k2.cont = "dir" /\ k2.got = <<>> /\ k2.op = op
         /\ ~k2.bad
      BY <2>4, <1>6 DEF Reading, Fields
  <2>13. want \in Seq(Nat) /\ Len(want) = dir.adbc /\ want # <<>> /\ want[1] = 0
         /\ \A j \in 1..Len(want) : want[j] = want[1] + j - 1
      BY <2>2, <2>3, AllWanted
  <2>14. WantOK(k2, dir)
    <3>1. FirstBlock(k2, dir) = 0 /\ BlocksWanted(k2, dir) = dir.adbc
        BY <2>2, <2>12 DEF FirstBlock, BlocksWanted
    <3>2. want[1] + Len(want) = FirstBlock(k2, dir) + BlocksWanted(k2, dir)
        BY <3>1, <2>2, <2>13
    <3> QED BY <3>2, <2>12, <2>13 DEF WantOK
  <2>15. GotOK(disk, k2, dir)
    <3>1. AreBlocks(disk, dir, FirstBlock(k2, dir), k2.got) /\ k2.got \in Seq(Bufs(disk))
        BY <2>12 DEF AreBlocks
    <3>2. \A b \in 0..(k2.want[1] - 1) : ~NameIn(Right(disk, dir, 0, b), k2.op.name)
        BY <2>12, <2>13
    <3> QED BY <3>1, <3>2 DEF GotOK
  <2>16. TaskOK(disk, fs2, t, t, k2)
    <3>1. PICK file, cont : file = 1 /\ cont = "dir"
        OBVIOUS
    <3>2. /\ file \in 1..Len(fs2) /\ cont \in {"rec", "nss", "dir"}
          /\ k2 = Reading(me, file, cont, want)
          /\ (IF cont = "dir" THEN file = 1 /\ t = t
              ELSE Target(disk, fs2, t, k2) /\ cont = me.op.kind)
        BY <3>1, <2>4, <2>7
    <3>3. WantOK(k2, fs2[file].fst) /\ GotOK(disk, k2, fs2[file].fst)
        BY <3>1, <2>1, <2>7, <2>14, <2>15, <1>2
    <3>4. me.op \in Ops /\ me.bad \in BOOLEAN /\ me.tail \in Nat /\ me.lba \in Nat
        BY <1>6
    <3> QED BY <3>2, <3>3, <3>4, <2>10, <2>13, <1>6, StartRead
  <2>17. \A u \in Tasks : u # t /\ fslock = u => t = u
      BY <1>1, EdfAssumption DEF None
  <2>18. Advance(disk, files, fslock, t, files', fslock', k2)
      BY <2>1, <2>5, <2>10, <2>11, <2>16, <2>17 DEF Advance
  <2> QED BY <2>5, <2>18, <1>1, AdvanceKeeps
<1> QED BY <1>8, <1>9, <1>10

\* A task that has opened a file.
LEMMA OpenFacts ==
    ASSUME VolumeSound(disk), EdfInv, up = "mounted", NEW t \in Tasks,
           NEW k, k = task[t], k.pc = "open", NEW f, f = files[k.file].fst
    PROVE  /\ DOMAIN k = Fields /\ k.bad \in BOOLEAN /\ k.op \in Ops /\ k.tail \in Nat
           /\ k.lba \in Nat /\ k.got = <<>>
           /\ Target(disk, files, fslock, k)
           /\ k.file \in 1..Len(files) /\ Known(files, fslock, k.file)
           /\ FileOK(disk, files[k.file])
           /\ f \in FilesOf(disk) /\ f.name = k.op.name /\ FileSound(disk, f)
<1>1. FilesOK(disk, files, fslock) /\ TaskOK(disk, files, fslock, t, k)
    BY Mounted
<1>2. /\ DOMAIN k = Fields /\ k.bad \in BOOLEAN /\ k.op \in Ops /\ k.tail \in Nat
      /\ k.lba \in Nat /\ k.got = <<>> /\ Target(disk, files, fslock, k)
    BY <1>1 DEF TaskOK, Busy
<1>3. k.file \in 1..Len(files) /\ Known(files, fslock, k.file)
      /\ f \in FilesOf(disk) /\ f.name = k.op.name
    BY <1>2 DEF Target, Known
<1>4. FileOK(disk, files[k.file]) /\ FileSound(disk, f)
    BY <1>1, <1>3, FileTypes, FstSound
<1> QED BY <1>2, <1>3, <1>4

LEMMA ReadRecKeeps ==
    ASSUME VolumeSound(disk), EdfInv, up = "mounted", NEW t \in Tasks, edf_read_rec(t)
    PROVE  EdfInv'
<1>1. PICK k : k = task[t]
    OBVIOUS
<1>2. k.pc = "open" /\ k.op.kind = "rec" /\ UNCHANGED <<disk, up, fslock>>
    BY <1>1 DEF edf_read_rec
<1>3. PICK i, f : i = k.file /\ f = files[k.file].fst
    OBVIOUS
<1>4. /\ DOMAIN k = Fields /\ k.bad \in BOOLEAN /\ k.op \in Ops /\ k.tail \in Nat
      /\ k.lba \in Nat /\ k.got = <<>> /\ Target(disk, files, fslock, k)
      /\ i \in 1..Len(files) /\ Known(files, fslock, i) /\ FileOK(disk, files[i])
      /\ f \in FilesOf(disk) /\ f.name = k.op.name /\ FileSound(disk, f)
    BY <1>1, <1>2, <1>3, OpenFacts
<1>5. FilesOK(disk, files, fslock)
    BY Mounted
<1>6. k.op.recno \in Nat
    BY <1>2, <1>4, EdfAssumption
<1>7. PICK blk, off : blk = (k.op.recno * f.lrecl) \div DBSIZ
                      /\ off = (k.op.recno * f.lrecl) % DBSIZ
    OBVIOUS
<1>8. PICK want : want = IF off + f.lrecl > DBSIZ THEN <<blk, blk + 1>> ELSE <<blk>>
    OBVIOUS
<1>9. IF f.nlvl # 0 \/ f.lrecl > DBSIZ \/ k.op.recno >= f.aic
      THEN /\ task' = [task EXCEPT ![t] = Done(k, "EINVAL", <<>>)]
           /\ UNCHANGED files
      ELSE /\ files' = [files EXCEPT ![i] = [files[i] EXCEPT !.lock = t]]
           /\ task' = [task EXCEPT ![t] = Reading(k, i, "rec", want)]
    BY <1>1, <1>3, <1>7, <1>8 DEF edf_read_rec
<1>10. CASE f.nlvl # 0 \/ f.lrecl > DBSIZ \/ k.op.recno >= f.aic
  <2>1. PICK k2 : k2 = Done(k, "EINVAL", <<>>)
      OBVIOUS
  <2>2. k2.op = k.op /\ k2.res.err = "EINVAL"
      BY <2>1, DoneFacts
  <2>3. f \in {e \in FilesOf(disk) : e.name = k2.op.name}
      BY <2>2, <1>4
  <2>4. Faithful(disk, k2)
      BY <2>2, <2>3, <1>2, <1>10 DEF Faithful
  <2>5. TaskOK(disk, files, fslock, t, k2)
      BY <2>1, <2>4, <1>4, DoneOK
  <2> QED BY <2>1, <2>5, <1>2, <1>9, <1>10, OnlyTask
<1>11. CASE ~(f.nlvl # 0 \/ f.lrecl > DBSIZ \/ k.op.recno >= f.aic)
  <2>1. f.nlvl = 0 /\ f.lrecl <= DBSIZ /\ k.op.recno < f.aic /\ f.lrecl \in Nat
    <3>1. f.nlvl \in Nat /\ f.lrecl \in Nat /\ f.aic \in Nat /\ DBSIZ \in Nat
        BY <1>4, SoundFacts, SizeFacts
    <3> QED BY <3>1, <1>6, <1>11
  <2>2. PICK f2 : f2 = [files[i] EXCEPT !.lock = t]
      OBVIOUS
  <2>3. FileOK(disk, f2) /\ Grown(files[i], f2)
      BY <2>2, <1>4, FileLocked
  <2>4. PICK fs2 : fs2 = files'
      OBVIOUS
  <2>5. Replaced(files, i, f2, fs2)
      BY <2>2, <2>4, <1>9, <1>11 DEF Replaced
  <2>6. FilesOK(disk, fs2, fslock) /\ FilesKept(files, fslock, fs2, fslock)
        /\ fs2[i] = f2 /\ Len(fs2) = Len(files)
      BY <2>3, <2>5, <1>4, <1>5, FileReplaced
  <2>7. PICK k2 : k2 = Reading(k, i, "rec", want)
      OBVIOUS
  <2>8. task' = [task EXCEPT ![t] = k2]
      BY <2>7, <1>9, <1>11
  <2>9. /\ k2.want = want /\ k2.cont = "rec" /\ k2.got = <<>> /\ k2.op = k.op
        /\ k2.bad = k.bad /\ k2.file = i
      BY <2>7, <1>4 DEF Reading, Fields
  <2>10. blk \in Nat /\ off \in Nat
    <3>1. k.op.recno * f.lrecl \in Nat
        BY <2>1, <1>6
    <3>2. (k.op.recno * f.lrecl) \div DBSIZ \in Nat
          /\ (k.op.recno * f.lrecl) % DBSIZ \in 0..(DBSIZ - 1)
        BY <3>1, DivMod, SizeFacts
    <3> QED BY <3>2, <1>7
  <2>11. FirstBlock(k2, f) = blk /\ Offset(k2, f) = off
         /\ BlocksWanted(k2, f) = IF off + f.lrecl > DBSIZ THEN 2 ELSE 1
      BY <2>9, <1>7 DEF FirstBlock, Offset, BlocksWanted
  <2>12. /\ want \in Seq(Nat) /\ want # <<>> /\ want[1] = blk
         /\ Len(want) = BlocksWanted(k2, f)
         /\ \A j \in 1..Len(want) : want[j] = want[1] + j - 1
    <3>1. CASE off + f.lrecl > DBSIZ
      <4>1. want = <<blk, blk + 1>> /\ BlocksWanted(k2, f) = 2
          BY <3>1, <2>11, <1>8
      <4> QED BY <4>1, <2>10
    <3>2. CASE ~(off + f.lrecl > DBSIZ)
      <4>1. want = <<blk>> /\ BlocksWanted(k2, f) = 1
          BY <3>2, <2>11, <1>8
      <4> QED BY <4>1, <2>10
    <3> QED BY <3>1, <3>2
  <2>13. WantOK(k2, f)
    <3>1. want[1] + Len(want) = FirstBlock(k2, f) + BlocksWanted(k2, f)
        BY <2>11, <2>12
    <3>2. Len(k2.got) = 0
      <4>1. Len(<<>>) = 0
          OBVIOUS
      <4> QED BY <4>1, <2>9, Zenon
    <3>3. want[1] = FirstBlock(k2, f) + Len(k2.got)
        BY <3>2, <2>10, <2>11, <2>12
    <3> QED BY <3>1, <3>3, <2>1, <2>9, <2>12, <1>6 DEF WantOK
  <2>14. GotOK(disk, k2, f)
    <3>1. AreBlocks(disk, f, FirstBlock(k2, f), k2.got) /\ k2.got \in Seq(Bufs(disk))
        BY <2>9 DEF AreBlocks
    <3> QED BY <3>1, <2>9 DEF GotOK
  <2>15. Target(disk, fs2, fslock, k2)
    <3>1. Known(fs2, fslock, i) /\ f2.fst = f
        BY <2>3, <2>6, <1>3, <1>4 DEF FilesKept, Grown
    <3>2. i \in 2..Len(fs2)
        BY <2>6, <1>3, <1>4 DEF Target
    <3> QED BY <3>1, <3>2, <2>6, <2>9, <1>4 DEF Target
  <2>16. TaskOK(disk, fs2, fslock, t, k2)
    <3>1. PICK cont : cont = "rec"
        OBVIOUS
    <3>2. /\ i \in 1..Len(fs2) /\ cont \in {"rec", "nss", "dir"}
          /\ k2 = Reading(k, i, cont, want)
          /\ (IF cont = "dir" THEN i = 1 /\ fslock = t
              ELSE Target(disk, fs2, fslock, k2) /\ cont = k.op.kind)
        BY <3>1, <2>6, <2>7, <2>15, <1>2, <1>4
    <3>3. WantOK(k2, fs2[i].fst) /\ GotOK(disk, k2, fs2[i].fst)
      <4>1. fs2[i].fst = f
          BY <2>3, <2>6, <1>3 DEF Grown
      <4> QED BY <4>1, <2>13, <2>14
    <3> QED BY <3>2, <3>3, <2>6, <2>12, <1>4, StartRead
  <2>17. Advance(disk, files, fslock, t, files', fslock', k2)
      BY <2>4, <2>6, <2>16, <1>2 DEF Advance
  <2> QED BY <2>8, <2>17, <1>2, AdvanceKeeps
<1> QED BY <1>10, <1>11

LEMMA IplNssKeeps ==
    ASSUME VolumeSound(disk), EdfInv, up = "mounted", NEW t \in Tasks, guest_ipl_nss(t)
    PROVE  EdfInv'
<1>1. PICK k : k = task[t]
    OBVIOUS
<1>2. k.pc = "open" /\ k.op.kind = "nss" /\ UNCHANGED <<disk, up, files, fslock>>
    BY <1>1 DEF guest_ipl_nss
<1>3. PICK i, f : i = k.file /\ f = files[k.file].fst
    OBVIOUS
<1>4. /\ DOMAIN k = Fields /\ k.bad \in BOOLEAN /\ k.op \in Ops /\ k.tail \in Nat
      /\ k.lba \in Nat /\ k.got = <<>> /\ Target(disk, files, fslock, k)
      /\ i \in 1..Len(files) /\ FileSound(disk, f)
    BY <1>1, <1>2, <1>3, OpenFacts
<1>5. FilesOK(disk, files, fslock) /\ DOMAIN task = Tasks
    BY Mounted
<1>6. PICK m : m = IF f.adbc = 0 THEN 1 ELSE f.adbc
    OBVIOUS
<1>7. m \in Nat /\ m # 0
    BY <1>4, <1>6, SoundFacts
<1>8. PICK want : want = [b \in 1..m |-> b - 1]
    OBVIOUS
<1>9. want \in Seq(Nat) /\ Len(want) = m /\ want # <<>> /\ want[1] = 0
      /\ \A j \in 1..Len(want) : want[j] = want[1] + j - 1
    BY <1>7, <1>8, AllWanted
<1>10. PICK k2 : k2 = Reading(k, i, "nss", want)
    BY ZenonT(60)
<1>11. task' = [task EXCEPT ![t] = k2]
    BY <1>1, <1>3, <1>6, <1>8, <1>10 DEF guest_ipl_nss
<1>12. /\ k2.want = want /\ k2.cont = "nss" /\ k2.got = <<>> /\ k2.op = k.op
       /\ k2.bad = k.bad /\ k2.file = i
    BY <1>10, <1>4 DEF Reading, Fields
<1>13. FirstBlock(k2, f) = 0 /\ BlocksWanted(k2, f) = m
    BY <1>6, <1>12 DEF FirstBlock, BlocksWanted
<1>14. WantOK(k2, f)
  <2>1. want[1] + Len(want) = FirstBlock(k2, f) + BlocksWanted(k2, f)
      BY <1>7, <1>9, <1>13
  <2>2. Len(k2.got) = 0
    <3>1. Len(<<>>) = 0
        OBVIOUS
    <3> QED BY <3>1, <1>12, Zenon
  <2>3. want[1] = FirstBlock(k2, f) + Len(k2.got)
      BY <2>2, <1>9, <1>13
  <2> QED BY <2>1, <2>3, <1>9, <1>12 DEF WantOK
<1>15. GotOK(disk, k2, f)
  <2>1. AreBlocks(disk, f, FirstBlock(k2, f), k2.got) /\ k2.got \in Seq(Bufs(disk))
      BY <1>12 DEF AreBlocks
  <2> QED BY <2>1, <1>12 DEF GotOK
<1>16. Target(disk, files, fslock, k2)
    BY <1>3, <1>4, <1>12 DEF Target
<1>17. TaskOK(disk, files, fslock, t, k2)
  <2>1. PICK cont : cont = "nss"
      OBVIOUS
  <2>2. /\ cont \in {"rec", "nss", "dir"} /\ k2 = Reading(k, i, cont, want)
        /\ (IF cont = "dir" THEN i = 1 /\ fslock = t
            ELSE Target(disk, files, fslock, k2) /\ cont = k.op.kind)
      BY <2>1, <1>2, <1>10, <1>16
  <2>3. WantOK(k2, files[i].fst) /\ GotOK(disk, k2, files[i].fst)
      BY <1>3, <1>14, <1>15
  <2> QED BY <2>2, <2>3, <1>4, <1>5, <1>9, StartRead
<1> QED BY <1>2, <1>11, <1>17, OnlyTask
-----------------------------------------------------------------------------
(* CP: mounting the file system, and the tasks.                            *)

LEMMA MountKeeps ==
    ASSUME VolumeSound(disk), EdfInv, NEW readable \in BOOLEAN, edf_mount(readable)
    PROVE  EdfInv'
<1>1. up = "down" /\ UNCHANGED <<disk, fslock, task>>
    BY DEF edf_mount
<1>2. files = <<>> /\ fslock = None /\ task = [t \in Tasks |-> Idle]
    BY <1>1 DEF EdfInv, Quiet
<1>3. CASE readable /\ GoodLabel /\ GoodDirectory
  <2>1. PICK dir : dir = DirFst(disk)
      OBVIOUS
  <2>2. Dop = DOP0
    <3>1. At(disk, EDF_LABEL_BLOCK_NO)[0] = [dop |-> DOP0]
        BY DEF VolumeSound
    <3> QED BY <3>1 DEF Dop
  <2>3. At(disk, Dop)[0] = dir /\ dir.name = DIRECTOR
      BY <2>1, <2>2, <1>3 DEF GoodDirectory, DirFst
  <2>4. dir \in Fsts(disk) /\ InFile(dir, 0, 0) /\ Lba(disk, dir, 0, 0) = DOP0
      BY <2>1, DirectorySound
  <2>5. PICK lba \in Nat : lba = DOP0
      BY DEF DOP0
  <2>6. PICK bad \in BOOLEAN : bad = FALSE
      OBVIOUS
  <2>7. PICK f : f = File(dir)
      OBVIOUS
  <2>8. FileOK(disk, f) /\ f.fst = dir
      BY <2>4, <2>7, EmptyFile
  <2>9. PICK level, tail : level = 0 /\ tail = 0
      OBVIOUS
  <2>10. PICK f2 : f2 = __bcache_add(f, level, level, lba, bad, tail)
      OBVIOUS
  <2>11. FileOK(disk, f2) /\ Grown(f, f2)
    <3>1. InFile(f.fst, level, level) /\ lba \in {0, Lba(disk, f.fst, level, level)}
          /\ (bad \/ lba = Lba(disk, f.fst, level, level))
        BY <2>4, <2>5, <2>8, <2>9
    <3> QED BY <3>1, <2>8, <2>10, EntryAdded
  <2>12. up' = "mounted" /\ files' = <<f2>>
      BY <2>2, <2>3, <2>5, <2>6, <2>7, <2>9, <2>10, <1>3 DEF edf_mount
  <2>13. PICK fs2 : fs2 = files'
      OBVIOUS
  <2>14. fs2 = <<f2>> /\ f2.fst = dir /\ f2 \in FileObject(disk)
      BY <2>8, <2>11, <2>12, <2>13 DEF Grown, FileOK
  <2>15. fs2 \in Seq(FileObject(disk)) /\ Len(fs2) = 1 /\ fs2[1] = f2
      BY <2>14
  <2>16. FilesOK(disk, fs2, None)
    <3>1. \A i \in 1..Len(fs2) : FileOK(disk, fs2[i])
        BY <2>11, <2>15
    <3>2. \A i \in 2..Len(fs2) : Known(fs2, None, i) => fs2[i].fst \in FilesOf(disk)
        BY <2>15
    <3> QED BY <3>1, <3>2, <2>1, <2>3, <2>14, <2>15 DEF FilesOK
  <2>17. ASSUME NEW t \in Tasks PROVE TaskOK(disk, fs2, None, t, task[t])
    <3>1. task[t] = Idle /\ Idle.bad \in BOOLEAN
        BY <1>2, IdleFacts
    <3> QED BY <3>1, IdleFacts DEF TaskOK, Busy
  <2>18. DOMAIN task' = Tasks /\ fslock' = None /\ task' = task /\ disk' = disk
      BY <1>1, <1>2
  <2> QED BY <2>12, <2>13, <2>16, <2>17, <2>18, Zenon DEF EdfInv
<1>4. CASE ~(readable /\ GoodLabel /\ GoodDirectory)
  <2>1. up' = "failed" /\ files' = files
      BY <1>4 DEF edf_mount
  <2> QED BY <2>1, <1>1, <1>2 DEF EdfInv, Quiet
<1> QED BY <1>3, <1>4

LEMMA TaskKeeps ==
    ASSUME VolumeSound(disk), EdfInv, NEW t \in Tasks, EStep(t)
    PROVE  EdfInv'
<1>1. up = "mounted"
  <2>1. SUFFICES ASSUME up # "mounted" PROVE FALSE
      OBVIOUS
  <2>2. task[t].pc = "idle"
      BY <2>1, IdleFacts DEF EdfInv, Quiet
  <2> QED BY <2>1, <2>2, Zenon DEF EStep, edf_lookup, edf_read_rec, guest_ipl_nss, bcache_search,
             bcache_tail, bcache_link, bcache_found, bcache_io, bcache_fail
<1>2. CASE \E op \in Ops, storage \in BOOLEAN : edf_lookup(t, op, storage)
    BY <1>1, <1>2, LookupKeeps
<1>3. CASE edf_read_rec(t)
    BY <1>1, <1>3, ReadRecKeeps
<1>4. CASE guest_ipl_nss(t)
    BY <1>1, <1>4, IplNssKeeps
<1>5. CASE bcache_search(t)
    BY <1>1, <1>5, SearchKeeps
<1>6. CASE bcache_tail(t)
    BY <1>1, <1>6, TailKeeps
<1>7. CASE bcache_link(t)
    BY <1>1, <1>7, LinkKeeps
<1>8. CASE bcache_found(t)
    BY <1>1, <1>8, FoundKeeps
<1>9. CASE \E good \in BOOLEAN : bcache_io(t, good)
    BY <1>1, <1>9, IOKeeps
<1>10. CASE bcache_fail(t)
    BY <1>1, <1>10, FaultKeeps
<1> QED BY <1>2, <1>3, <1>4, <1>5, <1>6, <1>7, <1>8, <1>9, <1>10 DEF EStep

-----------------------------------------------------------------------------
(* The loader.                                                             *)

\* The blocks of a file with one pointer block are what it says they are.
LEMMA PointerBlock ==
    ASSUME NEW dk, NEW f, FileSound(dk, f), f.nlvl = 1, NEW q \in Nat, q < f.adbc
    PROVE  Lba(dk, f, 0, q) = PtrOf(At(dk, f.fop)[q])
<1>1. f.adbc \in Nat /\ BlocksAt(f)[0] = f.adbc /\ 0 \in 0..f.nlvl /\ 0 # f.nlvl
    BY SoundFacts, CountNat
<1>2. InFile(f, 0, q)
    BY <1>1 DEF InFile
<1>3. /\ InFile(f, 0 + 1, q \div PTRS)
      /\ Lba(dk, f, 0, q) = PtrOf(Right(dk, f, 0 + 1, q \div PTRS)[q % PTRS])
    BY <1>1, <1>2, InFileUp
<1>4. 0 + 1 = f.nlvl
    OBVIOUS
<1>5. q \div PTRS = 0 /\ Lba(dk, f, f.nlvl, q \div PTRS) = f.fop
    BY <1>3, <1>4, InFileTop
<1>6. q % PTRS = q
  <2>1. PICK d, m : d = q \div PTRS /\ m = q % PTRS
      OBVIOUS
  <2>2. d \in Nat /\ m \in 0..(DBSIZ - 1) /\ q = d * DBSIZ + m
      BY <2>1, DivMod, SizeFacts
  <2>3. d = 0
      BY <2>1, <1>5
  <2> QED BY <2>1, <2>2, <2>3, SizeFacts
<1> QED BY <1>3, <1>4, <1>5, <1>6 DEF Right

LEMMA LoaderReads ==
    ASSUME NEW dk, VolumeSound(dk), readnucleus(dk).state = "loaded"
    PROVE  \E e \in FilesOf(dk) :
             /\ e.name = CP_FN
             /\ e.nlvl = 1 => readnucleus(dk).image = Contents(dk, e)
<1> DEFINE dir == At(dk, DOP0)
           hits == {i \in 0..(NFST - 1) : IsFst(dir[i]) /\ dir[i].name = CP_FN}
           fst == dir[Min(hits)]
           lbas == [i \in 1..fst.aic |-> NucleusLba(At(dk, fst.fop), i)]
           blocks == [i \in DOMAIN lbas |-> At(dk, lbas[i])]
<1>1. At(dk, EDF_LABEL_BLOCK_NO)[0].dop = DOP0
    BY DEF VolumeSound
<1>2. /\ hits # {} /\ fst.lrecl = DBSIZ
      /\ readnucleus(dk).image = Flatten(blocks)
  <2>1. ASSUME hits = {} \/ fst.lrecl # DBSIZ PROVE FALSE
    <3>1. readnucleus(dk).state = "died"
        BY <2>1, <1>1 DEF readnucleus
    <3> QED BY <3>1
  <2>2. readnucleus(dk) \in {[state |-> "died", image |-> <<>>],
                             [state |-> "loaded", image |-> Flatten(blocks)]}
      BY <1>1 DEF readnucleus
  <2>3. readnucleus(dk) = [state |-> "loaded", image |-> Flatten(blocks)]
    <3> HIDE DEF blocks
    <3>1. [state |-> "died", image |-> <<>>].state = "died"
        OBVIOUS
    <3> QED BY <2>2, <3>1
  <2>4. readnucleus(dk).image = Flatten(blocks)
    <3> HIDE DEF blocks
    <3> QED BY <2>3
  <2> QED BY <2>1, <2>4
<1>3. PICK i : i = Min(hits)
    OBVIOUS
<1>4. i \in Cells /\ IsFst(dir[i]) /\ dir[i].name = CP_FN
  <2>1. hits \subseteq Nat
      BY SizeFacts
  <2>2. i \in hits
      BY <2>1, <1>2, <1>3, MinIn
  <2> QED BY <2>2, SizeFacts
<1>5. PICK e : e = fst
    OBVIOUS
<1>6. e = dir[i] /\ e.name = CP_FN /\ e.lrecl = DBSIZ
    BY <1>2, <1>3, <1>4, <1>5
<1>7. e \in FilesOf(dk)
  <2>1. Right(dk, DirFst(dk), 0, 0) = dir /\ 0 \in 0..(DirFst(dk).adbc - 1)
      BY DirectorySound DEF Right
  <2>2. e \in Entries(dk)
      BY <2>1, <1>4, <1>6, EntryInBlock
  <2>3. e.name \notin {DIRECTOR, ALLOCMAP}
      BY <1>6, ZenonT(60) DEF CP_FN, DIRECTOR, ALLOCMAP
  <2> QED BY <2>2, <2>3 DEF FilesOf
<1>8. ASSUME e.nlvl = 1
      PROVE  Flatten(blocks) = Contents(dk, e)
  <2>1. FileSound(dk, e)
      BY <1>7, FstSound DEF Fsts
  <2>2. e.aic \in Nat /\ e.adbc \in Nat /\ e.aic * e.lrecl <= e.adbc * DBSIZ
      BY <2>1, SoundFacts
  <2>3. e.aic <= e.adbc
    <3>1. SUFFICES ASSUME e.adbc + 1 <= e.aic PROVE FALSE
        BY <2>2
    <3>2. (e.adbc + 1) * DBSIZ <= e.aic * DBSIZ
        BY <3>1, <2>2, MulMono, SizeFacts
    <3>3. (e.adbc + 1) * DBSIZ = e.adbc * DBSIZ + DBSIZ
        BY <2>2, MulStep, SizeFacts
    <3>4. e.adbc * DBSIZ \in Nat /\ e.aic * DBSIZ \in Nat
        BY <2>2, SizeFacts
    <3> QED BY <3>2, <3>3, <3>4, <2>2, <1>6, SizeFacts, SMTT(40)
  <2>4. PICK bs, a : bs = blocks /\ a = e.aic
      OBVIOUS
  <2>5. bs = [j \in 1..a |-> At(dk, PtrOf(At(dk, e.fop)[j - 1]))] /\ Len(bs) = a
      BY <2>2, <2>4, <1>5 DEF NucleusLba
  <2>6. ASSUME NEW j \in 1..Len(bs) PROVE bs[j] = Right(dk, e, 0, 0 + j - 1)
    <3>1. PICK q \in Nat : q = j - 1 /\ q < a /\ 0 + j - 1 = q
      <4>1. a \in Nat /\ j \in 1..a
          BY <2>2, <2>4, <2>5
      <4> QED BY ONLY <4>1
    <3>2. Lba(dk, e, 0, q) = PtrOf(At(dk, e.fop)[q])
        BY <3>1, <2>1, <2>2, <2>3, <2>4, <1>8, PointerBlock
    <3> QED BY <3>1, <3>2, <2>5 DEF Right
  <2>7. AreBlocks(dk, e, 0, bs)
      BY <2>6 DEF AreBlocks
  <2>8. PICK n : n = Len(bs) * DBSIZ
      OBVIOUS
  <2>9. n \in Nat /\ n = e.aic * e.lrecl
      BY <2>2, <2>4, <2>5, <2>8, <1>6, SizeFacts
  <2>10. PICK g, h : g = Flatten(bs) /\ h = Contents(dk, e)
      OBVIOUS
  <2>11. IsTuple(g, n) /\ IsTuple(h, n)
      BY <2>8, <2>9, <2>10, FlattenIs, ContentsIs
  <2>12. ASSUME NEW j \in 1..n PROVE g[j] = h[j]
    <3>1. PICK x \in Nat : j = x + 1 /\ x < n
      <4>1. j \in 1..n /\ n \in Nat
          BY <2>9
      <4>2. j - 1 \in Nat /\ j = (j - 1) + 1 /\ j - 1 < n
          BY ONLY <4>1
      <4> QED BY <4>2
    <3>2. Flatten(bs)[x + 1] = CellAt(dk, e, 0 * DBSIZ + x)
      <4>1. PICK b \in Nat : b = 0
          BY Zenon
      <4>2. Len(bs) \in Nat /\ AreBlocks(dk, e, b, bs) /\ x < Len(bs) * DBSIZ
          BY <4>1, <3>1, <2>2, <2>4, <2>5, <2>7, <2>8, Zenon
      <4>3. Flatten(bs)[x + 1] = CellAt(dk, e, b * DBSIZ + x)
          BY <4>2, FlattenAt, SMTT(40)
      <4> QED BY <4>1, <4>3
    <3>3. Contents(dk, e)[x + 1] = CellAt(dk, e, x)
        BY <3>1, <2>9, ContentsAt
    <3>4. 0 * DBSIZ + x = x
        BY SizeFacts
    <3> QED BY <3>1, <3>2, <3>3, <3>4, <2>10
  <2>13. g = h
      BY <2>11, <2>12 DEF IsTuple
  <2> QED BY <2>4, <2>10, <2>13
<1> HIDE DEF fst, blocks
<1> QED BY <1>2, <1>6, <1>7, <1>8

-----------------------------------------------------------------------------
(* The whole.                                                              *)

LEMMA InstallerSteps ==
    ASSUME IStep
    PROVE  phase # "ipled" /\ phase' # "ipled" /\ UNCHANGED <<evars, nucleus>>
<1>1. ASSUME unload_archive
      PROVE  phase = "unload" /\ phase' \in {"unload", "stopped", "writeback"}
  <2>1. phase = "unload" /\ \E n, hdr : Name(n, hdr)
      BY <1>1, Zenon DEF unload_archive
  <2>2. PICK n, hdr : Name(n, hdr)
      BY <2>1
  <2>3. phase' = "writeback" \/ \E arch, d, size : Data(arch, d, size)
      BY <2>2, Zenon DEF Name
  <2>4. ASSUME NEW arch, NEW d, NEW size, Data(arch, d, size)
        PROVE  phase' = "stopped" \/ phase' = phase
      BY <2>4, Zenon DEF Data, Save, Stop
  <2> QED BY <2>1, <2>3, <2>4
<1>2. ASSUME Mount
      PROVE  phase = "mount" /\ phase' \in {"stopped", "unload"}
    BY <1>2 DEF Mount, Stop
<1>3. UNCHANGED <<evars, nucleus>>
    BY DEF IStep
<1> QED BY <1>1, <1>2, <1>3 DEF IStep, IplInstaller, AskDevice, AskFormat, Writeback, Complete, Halt, Stop

LEMMA FsInvInit == Init => FsInv
<1>1. SUFFICES ASSUME Init PROVE FsInv
    OBVIOUS
<1>2. phase = "off" /\ nucleus = [state |-> "none", image |-> <<>>] /\ EInit
    BY <1>1, Zenon DEF Init
<1> QED BY <1>2 DEF FsInv, Quiet, EInit

\* CP only reads the volume.
LEMMA EStepDisk ==
    ASSUME NEW t \in Tasks, EStep(t)
    PROVE  disk' = disk
<1>1. CASE \E op \in Ops, storage \in BOOLEAN : edf_lookup(t, op, storage)
    BY <1>1, Zenon DEF edf_lookup
<1>2. CASE edf_read_rec(t)
    BY <1>2, Zenon DEF edf_read_rec
<1>3. CASE guest_ipl_nss(t)
    BY <1>3, Zenon DEF guest_ipl_nss
<1>4. CASE bcache_search(t)
    BY <1>4, Zenon DEF bcache_search
<1>5. CASE bcache_tail(t)
    BY <1>5, Zenon DEF bcache_tail
<1>6. CASE bcache_link(t)
    BY <1>6, Zenon DEF bcache_link
<1>7. CASE bcache_found(t)
    BY <1>7, Zenon DEF bcache_found
<1>8. CASE \E good \in BOOLEAN : bcache_io(t, good)
    BY <1>8, Zenon DEF bcache_io
<1>9. CASE bcache_fail(t)
    BY <1>9, Zenon DEF bcache_fail
<1> QED BY <1>1, <1>2, <1>3, <1>4, <1>5, <1>6, <1>7, <1>8, <1>9, Zenon DEF EStep


LEMMA CPReads ==
    ASSUME CPStep
    PROVE  disk' = disk
<1>1. CASE \E readable \in BOOLEAN : edf_mount(readable)
    BY <1>1, Zenon DEF edf_mount
<1>2. CASE \E t \in Tasks : EStep(t)
    BY <1>2, EStepDisk, Zenon
<1> QED BY <1>1, <1>2, Zenon DEF CPStep


LEMMA FsInvStep == FsInv /\ [Next]_vars => FsInv'
<1>1. SUFFICES ASSUME FsInv, [Next]_vars PROVE FsInv'
    OBVIOUS
<1>2. CASE IStep
  <2>1. phase # "ipled" /\ phase' # "ipled" /\ UNCHANGED <<evars, nucleus>>
      BY <1>2, InstallerSteps
  <2> QED BY <2>1, <1>1 DEF FsInv, Quiet, evars
<1>3. CASE IplDasd
  <2>1. /\ phase # "ipled" /\ phase' = "ipled" /\ nucleus' = readnucleus(disk)
        /\ disk' = disk /\ UNCHANGED evars
      BY <1>3 DEF IplDasd
  <2>2. Quiet
      BY <2>1, <1>1 DEF FsInv
  <2>3. EdfInv'
      BY <2>1, <2>2 DEF EdfInv, Quiet, evars
  <2>4. ASSUME VolumeSound(disk) PROVE NucleusLoads'
    <3>1. SUFFICES ASSUME nucleus'.state = "loaded"
                   PROVE  \E e \in {x \in FilesOf(disk) : x.name = CP_FN} :
                            e.nlvl = 1 => nucleus'.image = Contents(disk, e)
        BY <2>1, Zenon DEF NucleusLoads, Entry
    <3>2. \E e \in FilesOf(disk) :
             /\ e.name = CP_FN
             /\ e.nlvl = 1 => readnucleus(disk).image = Contents(disk, e)
        BY <3>1, <2>1, <2>4, LoaderReads
    <3> QED BY <3>2, <2>1
  <2>5. VolumeSound(disk)' => VolumeSound(disk)
      BY <2>1
  <2> QED BY <2>1, <2>3, <2>4, <2>5 DEF FsInv
<1>4. CASE CPStep
  <2>1. phase = "ipled" /\ UNCHANGED <<ivars, nucleus>>
      BY <1>4, Zenon DEF CPStep
  <2>2. disk' = disk
      BY <1>4, CPReads
  <2>3. ASSUME VolumeSound(disk) PROVE EdfInv' /\ NucleusLoads'
    <3>1. EdfInv /\ NucleusLoads
        BY <2>1, <2>3, <1>1 DEF FsInv
    <3>2. EdfInv'
        BY <1>4, <2>3, <3>1, MountKeeps, TaskKeeps DEF CPStep
    <3>3. NucleusLoads'
        BY <2>1, <2>2, <3>1, Zenon DEF NucleusLoads, Entry
    <3> QED BY <3>2, <3>3
  <2>4. phase' = "ipled" /\ (VolumeSound(disk)' => VolumeSound(disk))
      BY <2>1, <2>2 DEF ivars
  <2> QED BY <2>3, <2>4 DEF FsInv
<1>5. CASE UNCHANGED vars
  <2>1. /\ disk' = disk /\ phase' = phase /\ nucleus' = nucleus /\ UNCHANGED evars
      BY <1>5 DEF vars, ivars
  <2>2. EdfInv' <=> EdfInv
      BY <2>1 DEF EdfInv, Quiet, evars
  <2>3. Quiet' <=> Quiet
      BY <2>1 DEF Quiet, evars
  <2>4. NucleusLoads' <=> NucleusLoads
      BY <2>1 DEF NucleusLoads, Entry
  <2> QED BY <2>1, <2>2, <2>3, <2>4, <1>1 DEF FsInv
<1> QED BY <1>1, <1>2, <1>3, <1>4, <1>5 DEF Next

\* On a sound volume, what each task has found and read of the blocks of
\* the files it looks at is right, at every step of bcache_read, whichever
\* of the other tasks' steps and failures come in between.
THEOREM FileSystemInvariant == Spec => []FsInv
<1>1. Init => FsInv
    BY FsInvInit
<1>2. FsInv /\ [Next]_vars => FsInv'
    BY FsInvStep
<1> QED BY <1>1, <1>2, PTL DEF Spec

\* A result that is right for each task is ReadsAreFaithful.
LEMMA ResultsFaithful == FsInv => (VolumeSound(disk) => ReadsAreFaithful)
<1>1. SUFFICES ASSUME FsInv, VolumeSound(disk), NEW t \in Tasks, task[t].pc = "done",
                      ~task[t].bad
               PROVE  \/ task[t].res.err \in {"ENOMEM", "EIO"}
                      \/ task[t].res.err = "ENOENT" /\ Entry(task[t].op.name) = {}
                      \/ \E e \in Entry(task[t].op.name) :
                           LET k == task[t]
                               rec == k.op.kind = "rec"
                               c == Contents(disk, e)
                               from == IF rec THEN k.op.recno * e.lrecl ELSE 0
                               len == IF rec THEN e.lrecl ELSE Len(c)
                           IN  \/ k.res.err = "EINVAL"
                                  /\ \/ rec /\ (e.nlvl # 0 \/ e.lrecl > DBSIZ
                                                \/ k.op.recno >= e.aic)
                                     \/ e.adbc = 0
                               \/ /\ k.res.err = "0"
                                  /\ k.res.cells = SubSeq(c, from + 1, from + len)
    BY Zenon DEF ReadsAreFaithful
<1>2. ~Quiet
    BY <1>1, IdleFacts DEF Quiet
<1>3. EdfInv
    BY <1>1, <1>2 DEF FsInv
<1>4. TaskOK(disk, files, fslock, t, task[t])
    BY <1>2, <1>3 DEF EdfInv
<1>5. Faithful(disk, task[t])
    BY <1>1, <1>4 DEF TaskOK
<1> QED BY <1>1, <1>5, Zenon DEF Faithful, Entry

\* On a sound volume every read through the cache gives what is on the
\* volume, or an error that is justified, unless a status was dropped.
THEOREM ReadsAreRight == Spec => [](VolumeSound(disk) => ReadsAreFaithful)
<1>1. Spec => []FsInv
    BY FileSystemInvariant
<1>2. FsInv => (VolumeSound(disk) => ReadsAreFaithful)
    BY ResultsFaithful
<1> QED BY <1>1, <1>2, PTL

\* On a sound volume the loader enters the nucleus that is on it, if the
\* file has one pointer block (readnucleus).
THEOREM NucleusIsRight == Spec => [](VolumeSound(disk) => NucleusLoads)
<1>1. Spec => []FsInv
    BY FileSystemInvariant
<1>2. FsInv => (VolumeSound(disk) => NucleusLoads)
    BY DEF FsInv, NucleusLoads
<1> QED BY <1>1, <1>2, PTL
-----------------------------------------------------------------------------
(* What a write to the volume changes.                                     *)

\* Two volumes that differ in some places only.
SameOutside(dk, d2, places) == \A lba : Place(lba) \notin places => At(d2, lba) = At(dk, lba)

LEMMA Overwritten ==
    ASSUME NEW dk, NEW place, NEW block, NEW places, place \in places
    PROVE  SameOutside(dk, [dk EXCEPT ![place] = block], places)
<1>1. PICK d2 : d2 = [dk EXCEPT ![place] = block]
    OBVIOUS
<1>2. DOMAIN d2 = DOMAIN dk /\ \A p \in DOMAIN dk : p # place => d2[p] = dk[p]
    BY <1>1
<1>3. ASSUME NEW lba, Place(lba) \notin places
      PROVE  At(d2, lba) = At(dk, lba)
  <2>1. PICK p : p = Place(lba)
      OBVIOUS
  <2>2. p # place
      BY <2>1, <1>3
  <2>3. CASE p \in DOMAIN dk
      BY <2>1, <2>2, <2>3, <1>2, Zenon DEF At
  <2>4. CASE p \notin DOMAIN dk
      BY <2>1, <2>4, <1>2, Zenon DEF At
  <2> QED BY <2>3, <2>4
<1> QED BY <1>1, <1>3, Zenon DEF SameOutside

\* A file is clear of the places: FilesClear says so of every file.
FileClear(dk, f, places) ==
  /\ FileSound(dk, f)
  /\ \A lvl, b : InFile(f, lvl, b) /\ f.adbc # 0 => Place(Lba(dk, f, lvl, b)) \notin places

LEMMA ClearFile ==
    ASSUME NEW dk, NEW places, FilesClear(dk, places), NEW f \in FilesOf(dk) \cup {DirFst(dk)}
    PROVE  FileClear(dk, f, places)
<1>1. /\ FileSound(dk, f)
      /\ \A lvl \in 0..f.nlvl : \A b \in 1..BlocksAt(f)[lvl] :
           Place(LevelBlocks(dk, f)[lvl][b]) \notin places
    BY Zenon DEF FilesClear
<1>2. ASSUME NEW lvl, NEW b, InFile(f, lvl, b), f.adbc # 0
      PROVE  Place(Lba(dk, f, lvl, b)) \notin places
  <2>1. lvl \in 0..f.nlvl /\ b \in Nat /\ b < BlocksAt(f)[lvl]
      BY <1>2, Zenon DEF InFile
  <2>2. PICK n \in Nat : n = BlocksAt(f)[lvl]
      BY <2>1, <1>1, SoundFacts, CountNat
  <2>3. b + 1 \in 1..BlocksAt(f)[lvl]
      BY <2>1, <2>2
  <2> QED BY <2>1, <2>3, <1>1, Zenon DEF Lba
<1> QED BY <1>1, <1>2, Zenon DEF FileClear

\* Its blocks are where they were: level by level, from the top.
LEMMA SameLba ==
    ASSUME NEW dk, NEW d2, NEW places, SameOutside(dk, d2, places),
           NEW f, FileClear(dk, f, places), f.adbc # 0,
           NEW lvl, NEW b, InFile(f, lvl, b)
    PROVE  Lba(d2, f, lvl, b) = Lba(dk, f, lvl, b)
<1>1. FileSound(dk, f) /\ f.nlvl \in Nat /\ f.adbc \in Nat
    BY SoundFacts DEF FileClear
<1> DEFINE Bad == {d \in Nat : d <= f.nlvl /\ \E c : /\ InFile(f, f.nlvl - d, c)
                               /\ Lba(d2, f, f.nlvl - d, c) # Lba(dk, f, f.nlvl - d, c)}
<1>2. SUFFICES ASSUME Bad # {} PROVE FALSE
  <2>1. PICK L \in Nat : L = f.nlvl
      BY <1>1
  <2>2. lvl \in 0..L
      BY <2>1, Zenon DEF InFile
  <2>3. PICK d \in Nat : d = L - lvl /\ d <= L /\ L - d = lvl
      BY <2>1, <2>2
  <2>4. d \notin Bad
      BY <1>2
  <2> QED BY <2>1, <2>3, <2>4
<1>3. PICK d \in Bad : \A k \in Bad : d <= k
    BY <1>2, LeastNumber
<1>4. PICK l : l = f.nlvl - d
    OBVIOUS
<1>5. d \in Nat /\ d <= f.nlvl /\ l \in 0..f.nlvl
    BY <1>1, <1>3, <1>4
<1>6. PICK c : InFile(f, l, c) /\ Lba(d2, f, l, c) # Lba(dk, f, l, c)
    BY <1>3, <1>4
<1>7. CASE l = f.nlvl
  <2>1. c = 0 /\ LevelBlocks(d2, f)[l] = LevelBlocks(dk, f)[l]
      BY <1>1, <1>6, <1>7, InFileTop, LevelAt, ZenonT(60)
  <2> QED BY <2>1, <1>6 DEF Lba
<1>8. CASE l # f.nlvl
  <2>1. PICK u : u = c \div PTRS
      OBVIOUS
  <2>2. /\ InFile(f, l + 1, u) /\ l \in Nat
        /\ Lba(dk, f, l, c) = PtrOf(Right(dk, f, l + 1, u)[c % PTRS])
      BY <2>1, <1>1, <1>6, <1>8, InFileUp
  <2>3. Lba(d2, f, l, c) = PtrOf(Right(d2, f, l + 1, u)[c % PTRS])
      BY <2>1, <1>1, <1>5, <1>6, <1>8, LbaBelow
  <2>4. Lba(d2, f, l + 1, u) = Lba(dk, f, l + 1, u)
    <3>1. PICK m : m = l + 1
        OBVIOUS
    <3>2. PICK e \in Nat : e = d - 1 /\ e < d /\ f.nlvl - e = m /\ e <= f.nlvl
        BY <3>1, <1>1, <1>4, <1>5, <1>8
    <3>3. e \notin Bad
        BY <3>2, <1>3
    <3> QED BY <3>1, <3>2, <3>3, <2>2
  <2>5. At(d2, Lba(dk, f, l + 1, u)) = At(dk, Lba(dk, f, l + 1, u))
      BY <2>2 DEF FileClear, SameOutside
  <2> QED BY <2>2, <2>3, <2>4, <2>5, <1>6 DEF Right
<1> QED BY <1>7, <1>8

\* What is in them is what was in them.
LEMMA SameContents ==
    ASSUME NEW dk, NEW d2, NEW places, SameOutside(dk, d2, places),
           NEW f, FileClear(dk, f, places)
    PROVE  Contents(d2, f) = Contents(dk, f)
<1>1. /\ FileSound(dk, f) /\ f.nlvl \in Nat /\ f.adbc \in Nat /\ f.aic \in Nat
      /\ f.lrecl \in Nat /\ f.aic * f.lrecl <= f.adbc * DBSIZ
      /\ f.adbc = 0 => f.aic = 0
    BY SoundFacts DEF FileClear
<1>2. PICK n : n = f.aic * f.lrecl
    OBVIOUS
<1>3. n \in Nat /\ n <= f.adbc * DBSIZ
    BY <1>1, <1>2
<1>4. ASSUME NEW i \in 1..n
      PROVE  At(d2, DataBlocks(d2, f)[((i - 1) \div DBSIZ) + 1])
               = At(dk, DataBlocks(dk, f)[((i - 1) \div DBSIZ) + 1])
  <2>1. f.adbc # 0
    <3>1. SUFFICES ASSUME f.adbc = 0 PROVE FALSE
        OBVIOUS
    <3>2. 0 * DBSIZ = 0
        BY SizeFacts
    <3> QED BY <3>1, <3>2, <1>3
  <2>2. PICK b : b = (i - 1) \div DBSIZ
      OBVIOUS
  <2>3. b \in Nat /\ b < f.adbc
    <3>1. PICK r : r = (i - 1) % DBSIZ
        OBVIOUS
    <3>2. PICK j \in Nat : j = i - 1 /\ j < n
        BY <1>3
    <3>3. b \in Nat /\ r \in 0..(DBSIZ - 1) /\ j = b * DBSIZ + r
        BY <3>1, <3>2, <2>2, DivMod, SizeFacts
    <3>4. CASE b >= f.adbc
      <4>1. f.adbc * DBSIZ <= b * DBSIZ /\ b * DBSIZ \in Nat
          BY <3>3, <3>4, <1>1, MulMono, SizeFacts
      <4>2. PICK x, y : x = b * DBSIZ /\ y = f.adbc * DBSIZ
          OBVIOUS
      <4>3. x \in Nat /\ y <= x /\ y \in Nat
          BY <4>1, <4>2, <1>1, MulMono, SizeFacts
      <4>4. j = x + r /\ n <= y
          BY <4>2, <3>3, <1>3
      <4> QED BY <4>3, <4>4, <3>2, <3>3, <1>3, SizeFacts
    <3> QED BY <3>3, <3>4, <1>1
  <2>4. BlocksAt(f)[0] = f.adbc
      BY <1>1, CountNat
  <2>5. InFile(f, 0, b)
      BY <2>3, <2>4, <1>1 DEF InFile
  <2>6. Lba(d2, f, 0, b) = Lba(dk, f, 0, b)
      BY <2>1, <2>5, SameLba
  <2>7. At(d2, Lba(dk, f, 0, b)) = At(dk, Lba(dk, f, 0, b))
      BY <2>1, <2>5 DEF FileClear, SameOutside
  <2> QED BY <2>2, <2>6, <2>7, Zenon DEF DataBlocks, Lba
<1>5. Contents(d2, f) = [i \in 1..n |-> At(d2, DataBlocks(d2, f)[((i - 1) \div DBSIZ) + 1])[(i - 1) % DBSIZ]]
    BY <1>2, Zenon DEF Contents
<1>6. Contents(dk, f) = [i \in 1..n |-> At(dk, DataBlocks(dk, f)[((i - 1) \div DBSIZ) + 1])[(i - 1) % DBSIZ]]
    BY <1>2, Zenon DEF Contents
<1> QED BY <1>4, <1>5, <1>6, Zenon

\* A write to a block that no file is in changes no file.
LEMMA CatalogSame ==
    ASSUME NEW dk, NEW d2, NEW places, FilesClear(dk, places), SameOutside(dk, d2, places)
    PROVE  Catalog(d2) = Catalog(dk)
<1>1. DirFst(d2) = DirFst(dk)
    BY Zenon DEF DirFst, FilesClear, SameOutside
<1>2. Contents(d2, DirFst(dk)) = Contents(dk, DirFst(dk))
    BY ClearFile, SameContents
<1>3. Entries(d2) = Entries(dk)
    BY <1>1, <1>2, Zenon DEF Entries
<1>4. FilesOf(d2) = FilesOf(dk)
    BY <1>3, Zenon DEF FilesOf
<1>5. \A e \in FilesOf(dk) : Contents(d2, e) = Contents(dk, e)
    BY ClearFile, SameContents
<1>6. \A x : x \in Catalog(d2) <=> x \in Catalog(dk)
    BY <1>4, <1>5, Zenon DEF Catalog
<1> QED BY <1>6

-----------------------------------------------------------------------------
(* Which writes the installer makes.                                       *)

\* The boot blocks are the first two.
LEMMA OneOfSix ==
    ASSUME NEW a1, NEW a2, NEW a3, NEW a4, NEW a5, NEW a6,
           NEW x1, NEW x2, NEW x3, NEW x4, NEW x5, NEW x6, NEW a \in {a1, a2, a3, a4, a5, a6}
    PROVE  (CASE a = a1 -> x1 [] a = a2 -> x2 [] a = a3 -> x3 [] a = a4 -> x4
              [] a = a5 -> x5 [] a = a6 -> x6) \in {x1, x2, x3, x4, x5, x6}
OBVIOUS

LEMMA BootRows == \A arch \in DOMAIN table : table[arch].lba \in {0, 1, 2}
<1>1. SUFFICES ASSUME NEW arch \in DOMAIN table PROVE table[arch].lba \in {0, 1, 2}
    BY Zenon
<1>2. arch \in {"hvf.directory", "system.config", "hvf", "eckd.rto", "loader.rto", "8ball"}
    BY <1>1, Zenon DEF table
<1>3. PICK x1, x2, x3, x4, x5, x6 :
        /\ x1 = Row("HVF DIRECT", 3, TRUE, 0) /\ x2 = Row("SYSTEM CONFIG", 3, TRUE, 0)
        /\ x3 = Row("HVF ELF", DBSIZ, FALSE, 0) /\ x4 = Row("ECKDLOAD BIN", DBSIZ, FALSE, 1)
        /\ x5 = Row("DASDLOAD BIN", DBSIZ, FALSE, 2) /\ x6 = Row("8BALL NSS", DBSIZ, FALSE, 0)
    BY Zenon
<1>4. table[arch] \in {x1, x2, x3, x4, x5, x6}
  <2>1. table[arch] = CASE arch = "hvf.directory" -> x1 [] arch = "system.config" -> x2
                        [] arch = "hvf" -> x3 [] arch = "eckd.rto" -> x4
                        [] arch = "loader.rto" -> x5 [] arch = "8ball" -> x6
      BY <1>2, <1>3, Zenon DEF table
  <2>2. PICK c : c = table[arch]
      BY Zenon
  <2> QED BY <1>2, <2>1, OneOfSix, Zenon
<1>5. x1.lba = 0 /\ x2.lba = 0 /\ x3.lba = 0 /\ x4.lba = 1 /\ x5.lba = 2 /\ x6.lba = 0
    BY <1>3, ZenonT(60) DEF Row
<1> QED BY <1>4, <1>5, Zenon

\* A member is unloaded without a write, or with one of a boot block.
LEMMA SavedBlocks ==
    ASSUME NEW dk, NEW m, NEW te, te.lba \in {0, 1, 2}, NEW size, NEW b,
           NEW d2, d2 = save_file(dk, m, te, size, b).dk
    PROVE  SameOutside(dk, d2, BootPlaces)
<1> DEFINE block == [c \in Cells |-> IF c < Len(b) THEN b[c + 1] ELSE Blank]
<1>1. d2 = dk \/ (te.lba # 0 /\ d2 = [dk EXCEPT ![Place(te.lba)] = block])
    BY DEF save_file
<1>2. CASE d2 = dk
    BY <1>2, Zenon DEF SameOutside
<1>3. CASE te.lba # 0 /\ d2 = [dk EXCEPT ![Place(te.lba)] = block]
  <2>1. Place(te.lba) \in BootPlaces
      BY <1>3 DEF BootPlaces
  <2>2. SameOutside(dk, [dk EXCEPT ![Place(te.lba)] = block], BootPlaces)
      BY <2>1, Overwritten, Zenon
  <2> QED BY <2>2, <1>3, Zenon
<1> QED BY <1>1, <1>2, <1>3

\* A step of the installer leaves the volume alone, or writes a boot block
\* or, at the end, the next of its buffers.
LEMMA WhatIsWritten ==
    ASSUME IStep
    PROVE  \/ disk' = disk
           \/ SameOutside(disk, disk', BootPlaces)
           \/ /\ phase = "writeback"
              /\ SameOutside(disk, disk', {Place(WritebackNext(mem).lba)})
<1>1. CASE unload_archive
  <2>1. PICK n, hdr : Name(n, hdr)
      BY <1>1, Zenon DEF unload_archive
  <2>2. CASE n.buf[HDR + 1].arch = TRAILER
      BY <2>1, <2>2, Zenon DEF Name
  <2>3. CASE n.buf[HDR + 1].arch # TRAILER
    <3>1. PICK arch, d, filesize : Data(arch, d, filesize)
        BY <2>1, <2>3, Zenon DEF Name
    <3>2. PICK s : /\ s = IF arch \in DOMAIN table
                          THEN save_file(disk, mem, table[arch], filesize, d.buf)
                          ELSE [m |-> mem, dk |-> disk]
                   /\ disk' = s.dk
        BY <3>1, Zenon DEF Data, Save
    <3>3. CASE arch \in DOMAIN table
      <4>1. disk' = save_file(disk, mem, table[arch], filesize, d.buf).dk
          BY <3>2, <3>3
      <4>2. table[arch].lba \in {0, 1, 2}
          BY <3>3, BootRows
      <4> QED BY <4>1, <4>2, SavedBlocks
    <3>4. CASE arch \notin DOMAIN table
        BY <3>2, <3>4
    <3> QED BY <3>3, <3>4
  <2> QED BY <2>2, <2>3
<1>2. CASE Writeback
  <2>1. PICK e : /\ e = WritebackNext(mem)
                 /\ disk' = IF e.dirty THEN [disk EXCEPT ![Place(e.lba)] = e.buf] ELSE disk
      BY <1>2, Zenon DEF Writeback
  <2>2. CASE e.dirty
    <3>1. disk' = [disk EXCEPT ![Place(e.lba)] = e.buf]
        BY <2>1, <2>2
    <3>2. Place(e.lba) \in {Place(e.lba)}
        OBVIOUS
    <3>3. SameOutside(disk, [disk EXCEPT ![Place(e.lba)] = e.buf], {Place(e.lba)})
        BY <3>2, Overwritten, Zenon
    <3>4. phase = "writeback"
        BY <1>2, Zenon DEF Writeback
    <3> QED BY <3>1, <3>3, <3>4, <2>1, Zenon
  <2>3. CASE ~e.dirty
      BY <2>1, <2>3
  <2> QED BY <2>2, <2>3
<1>3. CASE \/ \E archive \in Archives : IplInstaller(archive)
           \/ \E answer \in {"nodevice", "nodasd", "dasd"} : AskDevice(answer)
           \/ AskFormat \/ Mount \/ Complete \/ Halt
    BY <1>3, Zenon DEF IplInstaller, AskDevice, AskFormat, Mount, Complete, Halt
<1> QED BY <1>1, <1>2, <1>3, Zenon DEF IStep

\* What is on the volume changes only with a write to a block that a file or
\* the directory is in, by writeback_buffers: until the installer is done
\* with the archive, whatever it writes, the files are those it found.
THEOREM OnlyWritebackChangesFiles == Spec => CatalogKept
<1> DEFINE Change == /\ HasLabel(disk)
                     /\ Catalog(disk') # Catalog(disk)
                     /\ FilesClear(disk, BootPlaces)
                     => /\ phase = "writeback"
                        /\ ~FilesClear(disk, {Place(WritebackNext(mem).lba)})
<1>1. ASSUME Next, Catalog(disk') # Catalog(disk), FilesClear(disk, BootPlaces)
      PROVE  phase = "writeback" /\ ~FilesClear(disk, {Place(WritebackNext(mem).lba)})
  <2>1. disk' # disk
      BY <1>1, Zenon
  <2>2. CASE IStep
      BY <2>1, <2>2, <1>1, WhatIsWritten, CatalogSame
  <2>3. CASE IplDasd
      BY <2>1, <2>3, Zenon DEF IplDasd
  <2>4. CASE CPStep
      BY <2>1, <2>4, CPReads
  <2> QED BY <1>1, <2>2, <2>3, <2>4, Zenon DEF Next
<1>2. [Next]_vars => [Change]_disk
  <2>1. SUFFICES ASSUME [Next]_vars, disk' # disk PROVE Change
      OBVIOUS
  <2>2. Next
      BY <2>1, Zenon DEF vars
  <2> QED BY <2>2, <1>1, Zenon
<1> QED BY <1>2, PTL DEF Spec, CatalogKept
=============================================================================
