---------------------------- MODULE SpoolProofs ----------------------------
(***************************************************************************)
(* Proofs about Spool for every size of a page, every length of records    *)
(* and buffers and every number of records: the records follow one another *)
(* in the pages, no page is lost, records come out in order, and those in  *)
(* a single page come out as they went in.                                 *)
(***************************************************************************)
EXTENDS Spool, SequenceTheorems, TLAPS

Pages == [Offsets -> Bytes]
Records == [pos : Int, len : Lengths \ {0}, text : Texts]
GrabLocals ==
    [want : Nat, reclen : Nat, rlen : Nat, copied : Nat, processed : Nat,
     offset : Nat, left : Nat, buf : Seq(Bytes)]
AppendLocals ==
    [text : Texts \cup {Junk}, len : Nat, rlen : Nat, copied : Nat, loff : Nat,
     new : Seq(Pages)]

\* The bytes behind the length are those of the text.
HasText(p, o, r) == \A x \in 0..(r.len - 1) : p[o + 2 + x] = Byte(r.text, x)

\* Record r is in the pages l at offset o of page k: its length is there, and
\* the whole text if the page has room for it.
StoredAt(l, r, k, o) ==
    /\ r.pos = (k - 1) * SPOOL_DATA_SIZE + o
    /\ l[k][o] = Length(r.len)
    /\ o + 2 + r.len <= SPOOL_DATA_SIZE => HasText(l[k], o, r)

Stored(l, r) == \E k \in 1..Len(l), o \in Offsets : StoredAt(l, r, k, o)

\* The records of q follow one another up to position e, from even positions.
Chain(q, e) ==
    /\ \A i \in 1..Len(q) : q[i].pos % 2 = 0 /\ NextPos(q[i]) <= e
    /\ \A i \in 1..Len(q) : NextPos(q[i]) = IF i < Len(q) THEN q[i + 1].pos ELSE e
    /\ \A i, j \in 1..Len(q) : i < j => NextPos(q[i]) <= q[j].pos

Types ==
    /\ list \in Seq(Pages) /\ fifo \in Seq(Records)
    /\ g \in GrabLocals /\ a \in AppendLocals
    /\ pc \in {"idle", "grab", "append"}
    /\ frecoff \in Offsets /\ lrecoff \in 0..SPOOL_DATA_SIZE
    /\ frecoff % 2 = 0 /\ lrecoff % 2 = 0
    /\ pc # "grab" => g = NoGrab
    /\ pc # "append" => a = NoAppend

Counts ==
    /\ recs = Len(fifo) /\ pages = Len(list)
    /\ held = Len(list) + Len(a.new)

\* The records q are in the pages l, up to position e in the last one.  Of a
\* record that is being read the first pages may be gone.
Placed(l, q, e) ==
    /\ Chain(q, e)
    /\ \A i \in 1..Len(q) : q[i].pos >= 0 => Stored(l, q[i])
    /\ q # <<>> => q[Len(q)].pos + 2 + q[Len(q)].len > (Len(l) - 1) * SPOOL_DATA_SIZE

\* What is in the file, whoever holds the lock.
Places == Placed(list, fifo, EndPos)

\* The file starts at frecoff, unless it is being read.
Start ==
    pc # "grab" =>
        IF fifo = <<>> THEN EndPos = frecoff /\ Len(list) <= 1
        ELSE fifo[1].pos = frecoff

\* spool_grab_rec is at g.offset of the first page, and has copied what it has
\* processed as far as the buffer reaches.
GrabbingOf(r) ==
    /\ g.want \in Wants /\ g.want # 0 /\ g.reclen = r.len
    /\ g.rlen = Min({g.want, r.len}) + 2
    /\ g.processed \in 2..(r.len + 2)
    /\ g.copied = IF g.processed <= g.rlen THEN g.processed ELSE g.rlen
    /\ Len(g.buf) = g.copied - 2
    /\ g.offset <= SPOOL_DATA_SIZE /\ g.left = SPOOL_DATA_SIZE - g.offset
    /\ r.pos + g.processed = g.offset
    /\ frecoff + 2 + r.len <= SPOOL_DATA_SIZE => r.pos = frecoff /\ IsText(g.buf, r)

Grabbing == pc = "grab" => fifo # <<>> /\ GrabbingOf(fifo[1])

\* The record that spool_append_rec is about to have appended.
Appended == [pos |-> EndPos, len |-> a.len, text |-> a.text]

\* spool_append_rec has written a.copied bytes from the end of the file on, to
\* the last page and to the new ones, and fills every page but the last.
Appending ==
    pc = "append" =>
        /\ Appended \in Records
        /\ a.rlen = a.len + 2 /\ a.copied <= a.rlen
        /\ a.copied = 0 => a.new = <<>> /\ (list = <<>> \/ lrecoff = SPOOL_DATA_SIZE)
        /\ a.copied # 0 =>
              /\ a.copied >= 2 /\ a.loff \in 1..SPOOL_DATA_SIZE
              /\ EndPos + a.copied = (Len(list) + Len(a.new) - 1) * SPOOL_DATA_SIZE + a.loff
              /\ a.copied # a.rlen => a.loff = SPOOL_DATA_SIZE
              /\ Stored(list \o a.new, Appended)

IndInv == Types /\ Counts /\ Places /\ Start /\ Grabbing /\ Appending

-----------------------------------------------------------------------------
(* Arithmetic of offsets and pages.                                        *)

LEMMA SizeFacts == /\ SPOOL_DATA_SIZE \in Nat /\ SPOOL_DATA_SIZE >= 2 /\ SPOOL_DATA_SIZE % 2 = 0
                   /\ Lengths \subseteq Nat /\ Wants \subseteq Nat
                   /\ Offsets = 0..(SPOOL_DATA_SIZE - 1)
BY SizeAssumption DEF Offsets

LEMMA MinFacts ==
    ASSUME NEW x \in Int, NEW y \in Int
    PROVE  Min({x, y}) = IF x <= y THEN x ELSE y
<1> DEFINE m == IF x <= y THEN x ELSE y
<1>1. /\ m \in {x, y} /\ \A z \in {x, y} : m <= z
      /\ \A w \in {x, y} : (\A z \in {x, y} : w <= z) => w = m
    OBVIOUS
<1> HIDE DEF m
<1>2. Min({x, y}) = m
    BY <1>1 DEF Min
<1> QED BY <1>2 DEF m

\* Pages begin at even positions.
LEMMA PageFacts ==
    ASSUME NEW k \in Int
    PROVE  /\ k * SPOOL_DATA_SIZE \in Int
           /\ (k * SPOOL_DATA_SIZE) % 2 = 0
           /\ (k + 1) * SPOOL_DATA_SIZE = k * SPOOL_DATA_SIZE + SPOOL_DATA_SIZE
           /\ k >= 0 => k * SPOOL_DATA_SIZE >= 0
           /\ k >= 1 => k * SPOOL_DATA_SIZE >= SPOOL_DATA_SIZE
           /\ k < 0 => k * SPOOL_DATA_SIZE <= -SPOOL_DATA_SIZE
<1>1. PICK h \in Nat : SPOOL_DATA_SIZE = 2 * h
    BY SizeFacts
<1>2. k * SPOOL_DATA_SIZE = 2 * (k * h) /\ k * h \in Int
    BY <1>1
<1>3. (k * SPOOL_DATA_SIZE) % 2 = 0
    BY <1>2
<1>4. k >= 0 => k * SPOOL_DATA_SIZE >= 0
    BY SizeFacts
<1>5. (k + 1) * SPOOL_DATA_SIZE = k * SPOOL_DATA_SIZE + SPOOL_DATA_SIZE
    BY SizeFacts
<1>6. k >= 1 => k * SPOOL_DATA_SIZE >= SPOOL_DATA_SIZE
  <2>1. k >= 1 => (k - 1) * SPOOL_DATA_SIZE >= 0
      BY SizeFacts
  <2> QED BY <2>1, SizeFacts
<1>7. k < 0 => k * SPOOL_DATA_SIZE <= -SPOOL_DATA_SIZE
  <2>1. k < 0 => (-1 - k) * SPOOL_DATA_SIZE >= 0
      BY SizeFacts
  <2> QED BY <2>1, SizeFacts
<1> QED BY <1>2, <1>3, <1>4, <1>5, <1>6, <1>7, SizeFacts

\* A position tells its page and its offset.
LEMMA PositionFacts ==
    ASSUME NEW j \in Int, NEW o \in Offsets
    PROVE  /\ (j * SPOOL_DATA_SIZE + o) \div SPOOL_DATA_SIZE = j
           /\ (j * SPOOL_DATA_SIZE + o) % SPOOL_DATA_SIZE = o
<1> DEFINE p == j * SPOOL_DATA_SIZE + o
           q == p \div SPOOL_DATA_SIZE
           m == p % SPOOL_DATA_SIZE
<1>1. j * SPOOL_DATA_SIZE \in Int /\ p \in Int /\ o \in Int
    BY PageFacts, SizeFacts
<1>2. q \in Int /\ m \in 0..(SPOOL_DATA_SIZE - 1) /\ p = q * SPOOL_DATA_SIZE + m
  <2> HIDE DEF p
  <2> QED BY <1>1, SizeFacts, SMTT(40)
<1> HIDE DEF q, m
<1>3. (j - q) * SPOOL_DATA_SIZE = m - o
  <2>1. (j - q) * SPOOL_DATA_SIZE = j * SPOOL_DATA_SIZE - q * SPOOL_DATA_SIZE
      BY <1>2, SizeFacts
  <2> QED BY <2>1, <1>1, <1>2, SizeFacts, PageFacts
<1>4. j - q \in Int /\ ~(j - q >= 1) /\ ~(j - q < 0)
  <2>1. j - q \in Int
      BY <1>2
  <2>2. /\ j - q >= 1 => m - o >= SPOOL_DATA_SIZE
        /\ j - q < 0 => m - o <= -SPOOL_DATA_SIZE
      BY ONLY <2>1, <1>3, PageFacts
  <2> QED BY <2>1, <2>2, <1>1, <1>2, SizeFacts
<1>5. j = q
    BY <1>2, <1>4
<1>6. m = o
    BY <1>5, <1>1, <1>2
<1> QED BY <1>5, <1>6 DEF q, m

LEMMA AlignFacts ==
    ASSUME NEW x \in Int
    PROVE  /\ Align(x) \in Int /\ Align(x) % 2 = 0 /\ x <= Align(x) /\ Align(x) <= x + 1
           /\ x <= SPOOL_DATA_SIZE => Align(x) <= SPOOL_DATA_SIZE
           /\ \A b \in Int : b % 2 = 0 => Align(b + x) = b + Align(x)
BY SizeFacts DEF Align

-----------------------------------------------------------------------------
(* Records in pages.                                                       *)

LEMMA RecordFacts ==
    ASSUME NEW r \in Records
    PROVE  /\ r.pos \in Int /\ r.len \in Nat \ {0} /\ r.len \in Lengths /\ r.text \in Texts
           /\ NextPos(r) \in Int /\ NextPos(r) >= r.pos + 2 + r.len
           /\ NextPos(r) <= r.pos + 3 + r.len
           /\ r.pos % 2 = 0 => NextPos(r) % 2 = 0 /\ NextPos(r) = Align(r.pos + 2 + r.len)
<1>1. r.pos \in Int /\ r.len \in Nat \ {0} /\ r.len \in Lengths /\ r.text \in Texts
    BY SizeFacts DEF Records
<1> DEFINE n == r.len
           p == r.pos
<1> HIDE DEF n, p
<1>2. n \in Int /\ p \in Int
    BY <1>1 DEF n, p
<1>3. /\ Align(n) \in Int /\ Align(n) % 2 = 0 /\ n <= Align(n) /\ Align(n) <= n + 1
      /\ (p + 2) % 2 = 0 => Align(p + 2 + n) = p + 2 + Align(n)
    BY <1>2, AlignFacts
<1>4. NextPos(r) = p + 2 + Align(n)
    BY DEF NextPos, n, p
<1>5. /\ NextPos(r) \in Int /\ NextPos(r) >= p + 2 + n /\ NextPos(r) <= p + 3 + n
      /\ p % 2 = 0 => NextPos(r) % 2 = 0 /\ NextPos(r) = Align(p + 2 + n)
    BY <1>2, <1>3, <1>4
<1> QED BY <1>1, <1>5 DEF n, p

\* Where the length of a record is, in the words of Tiled.
LEMMA StoredLength ==
    ASSUME NEW l \in Seq(Pages), NEW r, Stored(l, r)
    PROVE  l[1 + (r.pos \div SPOOL_DATA_SIZE)][r.pos % SPOOL_DATA_SIZE] = Length(r.len)
<1>1. PICK k \in 1..Len(l), o \in Offsets : StoredAt(l, r, k, o)
    BY DEF Stored
<1>2. k \in Int /\ k - 1 \in Int /\ 1 + (k - 1) = k
    OBVIOUS
<1>3. r.pos \div SPOOL_DATA_SIZE = k - 1 /\ r.pos % SPOOL_DATA_SIZE = o
    BY <1>1, <1>2, PositionFacts DEF StoredAt
<1> QED BY <1>1, <1>2, <1>3, Zenon DEF StoredAt

\* Pages are added behind the record.
LEMMA StoredGrows ==
    ASSUME NEW l \in Seq(Pages), NEW m \in Seq(Pages), NEW r, Stored(l, r)
    PROVE  Stored(l \o m, r)
<1>1. PICK k \in 1..Len(l), o \in Offsets : StoredAt(l, r, k, o)
    BY DEF Stored
<1>2. (l \o m)[k] = l[k] /\ k \in 1..Len(l \o m)
    BY ConcatProperties, LenProperties
<1>3. StoredAt(l \o m, r, k, o)
    BY <1>1, <1>2, Zenon DEF StoredAt
<1> QED BY <1>2, <1>3, Zenon DEF Stored

\* A page is added to the new ones.
LEMMA StoredAppends ==
    ASSUME NEW l \in Seq(Pages), NEW m \in Seq(Pages), NEW p \in Pages, NEW r, Stored(l \o m, r)
    PROVE  Stored(l \o Append(m, p), r)
<1> DEFINE n == Append(m, p)
<1>1. PICK k \in 1..Len(l \o m), o \in Offsets : StoredAt(l \o m, r, k, o)
    BY DEF Stored
<1>2. /\ n \in Seq(Pages) /\ Len(n) = Len(m) + 1 /\ \A i \in 1..Len(m) : n[i] = m[i]
      /\ Len(l) \in Nat /\ Len(m) \in Nat
    BY AppendProperties, LenProperties
<1> HIDE DEF n
<1>3. /\ Len(l \o m) = Len(l) + Len(m)
      /\ (l \o m)[k] = IF k <= Len(l) THEN l[k] ELSE m[k - Len(l)]
  <2>1. Len(l \o m) = Len(l) + Len(m)
      BY ConcatProperties
  <2> QED BY <2>1, ConcatProperties
<1>4. k \in 1..(Len(l) + Len(n)) /\ (k > Len(l) => k - Len(l) \in 1..Len(m)) /\ k \in Int
    BY <1>2, <1>3
<1>5. /\ Len(l \o n) = Len(l) + Len(n)
      /\ (l \o n)[k] = IF k <= Len(l) THEN l[k] ELSE n[k - Len(l)]
    BY <1>2, <1>4, ConcatProperties
<1>6. (l \o n)[k] = (l \o m)[k] /\ k \in 1..Len(l \o n)
    BY <1>2, <1>3, <1>4, <1>5, SMTT(40)
<1>7. StoredAt(l \o n, r, k, o)
    BY <1>1, <1>6, Zenon DEF StoredAt
<1>8. Stored(l \o n, r)
    BY <1>6, <1>7, Zenon DEF Stored
<1> QED BY <1>8 DEF n

\* The first page, in front of the record, is taken away.
LEMMA StoredShifts ==
    ASSUME NEW l \in Seq(Pages), l # <<>>, NEW r \in Records, Stored(l, r),
           r.pos - SPOOL_DATA_SIZE >= 0
    PROVE  Stored(Tail(l), [r EXCEPT !.pos = @ - SPOOL_DATA_SIZE])
<1> DEFINE s == [r EXCEPT !.pos = @ - SPOOL_DATA_SIZE]
<1>1. PICK k \in 1..Len(l), o \in Offsets : StoredAt(l, r, k, o)
    BY DEF Stored
<1>2. s.pos = r.pos - SPOOL_DATA_SIZE /\ s.len = r.len /\ s.text = r.text
    BY DEF Records
<1>3. Len(l) \in Nat /\ Len(Tail(l)) = Len(l) - 1 /\ \A i \in 1..Len(Tail(l)) : Tail(l)[i] = l[i + 1]
    BY HeadTailProperties, LenProperties
<1>4. r.pos = (k - 1) * SPOOL_DATA_SIZE + o /\ o \in Int /\ o < SPOOL_DATA_SIZE
    BY <1>1, SizeFacts DEF StoredAt
<1>5. k >= 2
  <2>1. k = 1 => r.pos = o
      BY <1>4, SizeFacts
  <2> QED BY <2>1, <1>4, SizeFacts
<1>6. k - 1 \in 1..Len(Tail(l)) /\ Tail(l)[k - 1] = l[k]
    BY <1>3, <1>5
<1>7. s.pos = ((k - 1) - 1) * SPOOL_DATA_SIZE + o
    BY <1>2, <1>4, SizeFacts
<1> HIDE DEF s
<1>8. HasText(l[k], o, r) => HasText(l[k], o, s)
    BY <1>2, Zenon DEF HasText
<1>9. StoredAt(Tail(l), s, k - 1, o)
    BY <1>1, <1>2, <1>6, <1>7, <1>8, Zenon DEF StoredAt
<1>10. Stored(Tail(l), s)
    BY <1>6, <1>9, Zenon DEF Stored
<1> QED BY <1>10 DEF s

\* The last page is changed behind the record.
LEMMA StoredStays ==
    ASSUME NEW l \in Seq(Pages), l # <<>>, NEW r \in Records, Stored(l, r),
           NEW p \in Pages, NEW e \in 0..SPOOL_DATA_SIZE,
           \A x \in Offsets : x < e => p[x] = l[Len(l)][x],
           NextPos(r) <= (Len(l) - 1) * SPOOL_DATA_SIZE + e
    PROVE  Stored([l EXCEPT ![Len(l)] = p], r)
<1> DEFINE m == [l EXCEPT ![Len(l)] = p]
<1>1. PICK k \in 1..Len(l), o \in Offsets : StoredAt(l, r, k, o)
    BY DEF Stored
<1>2. Len(l) \in Nat \ {0} /\ Len(m) = Len(l) /\ m[k] = IF k = Len(l) THEN p ELSE l[k]
    BY EmptySeq, ExceptSeq
<1>3. CASE k # Len(l)
  <2>1. StoredAt(m, r, k, o)
    <3> HIDE DEF m
    <3> QED BY <1>1, <1>2, <1>3, Zenon DEF StoredAt
  <2> QED BY <2>1, <1>2, Zenon DEF Stored
<1>4. CASE k = Len(l)
  <2> HIDE DEF m
  <2>1. /\ r.pos = (k - 1) * SPOOL_DATA_SIZE + o /\ o \in Int
        /\ (k - 1) * SPOOL_DATA_SIZE \in Int /\ r.len \in Nat \ {0}
        /\ NextPos(r) >= r.pos + 2 + r.len /\ NextPos(r) \in Int /\ e \in Int
    BY <1>1, SizeFacts, RecordFacts, PageFacts DEF StoredAt
  <2>2. o + 2 + r.len <= e
    <3> DEFINE b == (k - 1) * SPOOL_DATA_SIZE
    <3>1. NextPos(r) <= b + e
        BY <1>4, Zenon
    <3>2. b \in Int /\ r.pos = b + o
        BY <2>1, Zenon
    <3> HIDE DEF b
    <3> QED BY <3>1, <3>2, <2>1, SMTT(40)
  <2>3. m[k] = p /\ p[o] = l[k][o]
      BY <1>2, <1>4, <2>1, <2>2, SMTT(40)
  <2>4. ASSUME HasText(l[k], o, r) PROVE HasText(p, o, r)
    <3> SUFFICES ASSUME NEW x \in 0..(r.len - 1) PROVE p[o + 2 + x] = l[k][o + 2 + x]
        BY <2>4 DEF HasText
    <3>1. o + 2 + x \in Offsets /\ o + 2 + x < e
        BY <2>1, <2>2, SizeFacts, SMTT(40)
    <3> QED BY <3>1, <1>4
  <2>5. StoredAt(m, r, k, o)
      BY <1>1, <2>3, <2>4, Zenon DEF StoredAt
  <2> QED BY <2>5, <1>2, Zenon DEF Stored, m
<1> QED BY <1>3, <1>4 DEF m

-----------------------------------------------------------------------------
(* Sequences of records.                                                   *)

\* The record r is moved forward by a page.
Moved(r) == [r EXCEPT !.pos = @ - SPOOL_DATA_SIZE]

LEMMA MovedFacts ==
    ASSUME NEW r \in Records
    PROVE  /\ Moved(r) \in Records
           /\ Moved(r).pos = r.pos - SPOOL_DATA_SIZE
           /\ Moved(r).len = r.len /\ Moved(r).text = r.text
           /\ NextPos(Moved(r)) = NextPos(r) - SPOOL_DATA_SIZE
           /\ r.pos % 2 = 0 => Moved(r).pos % 2 = 0
<1>1. /\ Moved(r) \in Records /\ Moved(r).pos = r.pos - SPOOL_DATA_SIZE
      /\ Moved(r).len = r.len /\ Moved(r).text = r.text
    BY SizeFacts DEF Moved, Records
<1>2. r.pos \in Int /\ Align(r.len) \in Int
  <2>1. r.pos \in Int /\ r.len \in Int
      BY RecordFacts
  <2> QED BY <2>1, AlignFacts
<1>3. NextPos(Moved(r)) = NextPos(r) - SPOOL_DATA_SIZE
    BY <1>1, <1>2, SizeFacts DEF NextPos
<1> QED BY <1>1, <1>2, <1>3, SizeFacts

LEMMA ShiftFacts ==
    ASSUME NEW q \in Seq(Records)
    PROVE  /\ Shift(q) \in Seq(Records) /\ Len(Shift(q)) = Len(q)
           /\ \A i \in 1..Len(q) : Shift(q)[i] = Moved(q[i])
           /\ Shift(q) = <<>> <=> q = <<>>
<1> DEFINE n == Len(q)
<1>1. n \in Nat /\ DOMAIN q = 1..n /\ \A i \in 1..n : q[i] \in Records
    BY LenProperties, ElementOfSeq
<1>2. Shift(q) = [i \in 1..n |-> Moved(q[i])]
    BY <1>1, Zenon DEF Shift, Moved
<1>3. \A i \in 1..n : Moved(q[i]) \in Records
    BY <1>1, MovedFacts
<1> HIDE DEF n
<1>4. Shift(q) \in [1..n -> Records]
    BY <1>2, <1>3
<1>5. Shift(q) \in Seq(Records) /\ Len(Shift(q)) = n
    BY <1>1, <1>4
<1>6. \A i \in 1..n : Shift(q)[i] = Moved(q[i])
    BY <1>2
<1>7. Shift(q) = <<>> <=> q = <<>>
    BY <1>5, EmptySeq DEF n
<1> QED BY <1>5, <1>6, <1>7 DEF n

LEMMA TailOf ==
    ASSUME NEW S, NEW q \in Seq(S), q # <<>>
    PROVE  /\ Len(q) \in Nat \ {0} /\ Tail(q) \in Seq(S) /\ Len(Tail(q)) = Len(q) - 1
           /\ \A i \in 1..(Len(q) - 1) : Tail(q)[i] = q[i + 1]
           /\ Head(q) = q[1] /\ q[1] \in S
           /\ Tail(q) = <<>> <=> Len(q) = 1
<1>1. Len(q) \in Nat \ {0} /\ Tail(q) \in Seq(S) /\ Len(Tail(q)) = Len(q) - 1 /\ q[1] \in S
    BY EmptySeq, HeadTailProperties, ElementOfSeq
<1>2. \A i \in 1..(Len(q) - 1) : Tail(q)[i] = q[i + 1]
    BY <1>1, HeadTailProperties
<1>3. Tail(q) = <<>> <=> Len(Tail(q)) = 0
    BY <1>1, EmptySeq
<1>4. Head(q) = q[1]
    BY HeadTailProperties
<1> QED BY <1>1, <1>2, <1>3, <1>4

LEMMA ChainAppends ==
    ASSUME NEW q \in Seq(Records), NEW r \in Records, Chain(q, r.pos), r.pos % 2 = 0
    PROVE  Chain(Append(q, r), NextPos(r))
<1> DEFINE s == Append(q, r)
           n == Len(q)
<1>1. /\ n \in Nat /\ Len(s) = n + 1 /\ s[n + 1] = r /\ \A i \in 1..n : s[i] = q[i]
    BY AppendProperties, LenProperties
<1>2. /\ \A i \in 1..n : q[i] \in Records /\ NextPos(q[i]) \in Int
      /\ r.pos \in Int /\ NextPos(r) \in Int /\ NextPos(r) >= r.pos
  <2>1. \A i \in 1..n : q[i] \in Records
      BY ElementOfSeq
  <2>2. \A i \in 1..n : NextPos(q[i]) \in Int
      BY <2>1, RecordFacts
  <2>3. r.pos \in Int /\ NextPos(r) \in Int /\ NextPos(r) >= r.pos + 2 + r.len /\ r.len \in Nat
      BY RecordFacts
  <2> QED BY <2>1, <2>2, <2>3
<1> HIDE DEF s, n
<1>3. /\ \A i \in 1..n : q[i].pos % 2 = 0 /\ NextPos(q[i]) <= r.pos
      /\ \A i \in 1..n : NextPos(q[i]) = IF i < n THEN q[i + 1].pos ELSE r.pos
      /\ \A i, j \in 1..n : i < j => NextPos(q[i]) <= q[j].pos
    BY DEF Chain, n
<1>4. ASSUME NEW i \in 1..(n + 1)
      PROVE  s[i].pos % 2 = 0 /\ NextPos(s[i]) <= NextPos(r)
  <2>1. CASE i \in 1..n
    <3>1. s[i] = q[i] /\ q[i].pos % 2 = 0 /\ NextPos(q[i]) <= r.pos /\ NextPos(q[i]) \in Int
        BY <2>1, <1>1, <1>2, <1>3
    <3> QED BY <3>1, <1>2
  <2>2. CASE i = n + 1
      BY <2>2, <1>1, <1>2
  <2> QED BY <2>1, <2>2, <1>1
<1>5. ASSUME NEW i \in 1..(n + 1)
      PROVE  NextPos(s[i]) = IF i < n + 1 THEN s[i + 1].pos ELSE NextPos(r)
  <2>1. CASE i \in 1..(n - 1)
    <3>1. s[i] = q[i] /\ s[i + 1] = q[i + 1] /\ i < n /\ i < n + 1
        BY <2>1, <1>1
    <3>2. NextPos(q[i]) = q[i + 1].pos
        BY <2>1, <3>1, <1>1, <1>3
    <3> QED BY <3>1, <3>2
  <2>2. CASE i = n
    <3>1. s[i] = q[i] /\ s[i + 1] = r /\ i < n + 1 /\ i \in 1..n /\ ~(i < n)
        BY <2>2, <1>1
    <3>2. NextPos(q[i]) = r.pos
        BY <3>1, <1>3
    <3> QED BY <3>1, <3>2
  <2>3. CASE i = n + 1
      BY <2>3, <1>1
  <2> QED BY <2>1, <2>2, <2>3, <1>1
<1>6. ASSUME NEW i \in 1..(n + 1), NEW j \in 1..(n + 1), i < j
      PROVE  NextPos(s[i]) <= s[j].pos
  <2>1. i \in 1..n /\ (j \in 1..n \/ j = n + 1)
      BY <1>1, <1>6
  <2>2. s[i] = q[i] /\ NextPos(q[i]) <= r.pos
      BY <2>1, <1>1, <1>3
  <2>3. CASE j \in 1..n
    <3>1. s[j] = q[j] /\ NextPos(q[i]) <= q[j].pos
        BY <2>1, <2>3, <1>1, <1>3, <1>6
    <3> QED BY <2>2, <3>1
  <2>4. CASE j = n + 1
      BY <2>2, <2>4, <1>1
  <2> QED BY <2>1, <2>3, <2>4
<1>7. Chain(s, NextPos(r))
    BY <1>1, <1>4, <1>5, <1>6 DEF Chain
<1> QED BY <1>7 DEF s

LEMMA ChainShifts ==
    ASSUME NEW q \in Seq(Records), NEW e \in Int, Chain(q, e)
    PROVE  Chain(Shift(q), e - SPOOL_DATA_SIZE)
<1> DEFINE s == Shift(q)
           n == Len(q)
           D == SPOOL_DATA_SIZE
<1> HIDE DEF s, n, D
<1>1. n \in Nat /\ Len(s) = n /\ D \in Int
    BY ShiftFacts, LenProperties, SizeFacts DEF s, n, D
<1>2. ASSUME NEW i \in 1..n
      PROVE  /\ q[i].pos \in Int /\ NextPos(q[i]) \in Int
             /\ s[i].pos = q[i].pos - D /\ NextPos(s[i]) = NextPos(q[i]) - D
             /\ q[i].pos % 2 = 0 => s[i].pos % 2 = 0
  <2>1. q[i] \in Records /\ s[i] = Moved(q[i])
      BY ElementOfSeq, ShiftFacts DEF n, s
  <2> QED BY <2>1, MovedFacts, RecordFacts DEF D
<1>3. /\ \A i \in 1..n : q[i].pos % 2 = 0 /\ NextPos(q[i]) <= e
      /\ \A i \in 1..n : NextPos(q[i]) = IF i < n THEN q[i + 1].pos ELSE e
      /\ \A i, j \in 1..n : i < j => NextPos(q[i]) <= q[j].pos
    BY DEF Chain, n
<1>4. ASSUME NEW i \in 1..n
      PROVE  s[i].pos % 2 = 0 /\ NextPos(s[i]) <= e - D
    BY <1>1, <1>2, <1>3
<1>5. ASSUME NEW i \in 1..n
      PROVE  NextPos(s[i]) = IF i < n THEN s[i + 1].pos ELSE e - D
  <2>1. NextPos(s[i]) = NextPos(q[i]) - D
      BY <1>2
  <2>2. CASE i < n
    <3>1. i + 1 \in 1..n
        BY <2>2, <1>1
    <3>2. NextPos(q[i]) = q[i + 1].pos
        BY <2>2, <1>3
    <3>3. s[i + 1].pos = q[i + 1].pos - D
        BY <3>1, <1>2
    <3> QED BY <2>1, <2>2, <3>2, <3>3
  <2>3. CASE ~(i < n)
      BY <2>1, <2>3, <1>3
  <2> QED BY <2>2, <2>3
<1>6. ASSUME NEW i \in 1..n, NEW j \in 1..n, i < j
      PROVE  NextPos(s[i]) <= s[j].pos
  <2>1. NextPos(q[i]) <= q[j].pos
      BY <1>3, <1>6
  <2>2. NextPos(s[i]) = NextPos(q[i]) - D /\ s[j].pos = q[j].pos - D
      BY <1>2
  <2>3. NextPos(q[i]) \in Int /\ q[j].pos \in Int
      BY <1>2
  <2> QED BY <2>1, <2>2, <2>3, <1>1
<1>7. Chain(s, e - D)
    BY <1>1, <1>4, <1>5, <1>6 DEF Chain
<1> QED BY <1>7 DEF s, D

LEMMA ChainTails ==
    ASSUME NEW q \in Seq(Records), q # <<>>, NEW e \in Int, Chain(q, e)
    PROVE  /\ Chain(Tail(q), e)
           /\ NextPos(q[1]) = IF Tail(q) = <<>> THEN e ELSE Tail(q)[1].pos
<1> DEFINE s == Tail(q)
           n == Len(q)
<1>1. /\ n \in Nat \ {0} /\ Len(s) = n - 1 /\ \A i \in 1..(n - 1) : s[i] = q[i + 1]
      /\ s = <<>> <=> n = 1
    BY TailOf
<1> HIDE DEF s, n
<1>3. /\ \A i \in 1..n : q[i].pos % 2 = 0 /\ NextPos(q[i]) <= e
      /\ \A i \in 1..n : NextPos(q[i]) = IF i < n THEN q[i + 1].pos ELSE e
      /\ \A i, j \in 1..n : i < j => NextPos(q[i]) <= q[j].pos
    BY DEF Chain, n
<1>4. ASSUME NEW i \in 1..(n - 1)
      PROVE  s[i].pos % 2 = 0 /\ NextPos(s[i]) <= e
    BY <1>1, <1>3
<1>5. ASSUME NEW i \in 1..(n - 1)
      PROVE  NextPos(s[i]) = IF i < n - 1 THEN s[i + 1].pos ELSE e
    BY <1>1, <1>3
<1>6. ASSUME NEW i \in 1..(n - 1), NEW j \in 1..(n - 1), i < j
      PROVE  NextPos(s[i]) <= s[j].pos
  <2>1. i + 1 \in 1..n /\ j + 1 \in 1..n /\ i + 1 < j + 1 /\ s[i] = q[i + 1] /\ s[j] = q[j + 1]
      BY <1>1, <1>6
  <2>2. NextPos(q[i + 1]) <= q[j + 1].pos
      BY <2>1, <1>3
  <2> QED BY <2>1, <2>2
<1>7. Chain(s, e)
    BY <1>1, <1>4, <1>5, <1>6 DEF Chain
<1>8. NextPos(q[1]) = IF s = <<>> THEN e ELSE s[1].pos
    BY <1>1, <1>3
<1> QED BY <1>7, <1>8 DEF s

\* The first page is taken away.
LEMMA PlacedShifts ==
    ASSUME NEW l \in Seq(Pages), l # <<>>, NEW q \in Seq(Records), NEW e \in Int, Placed(l, q, e)
    PROVE  Placed(Tail(l), Shift(q), e - SPOOL_DATA_SIZE)
<1> DEFINE s == Shift(q)
           n == Len(q)
<1>1. /\ n \in Nat /\ Len(s) = n /\ (s = <<>> <=> q = <<>>) /\ (q # <<>> => n \in 1..n)
      /\ \A i \in 1..n : s[i] = Moved(q[i]) /\ q[i] \in Records
    BY ShiftFacts, EmptySeq, LenProperties, ElementOfSeq
<1>2. Chain(s, e - SPOOL_DATA_SIZE)
    BY ChainShifts DEF Placed
<1>3. Len(l) \in Nat \ {0} /\ Len(Tail(l)) = Len(l) - 1
    BY TailOf
<1> HIDE DEF s, n
<1>4. ASSUME NEW i \in 1..n, s[i].pos >= 0 PROVE Stored(Tail(l), s[i])
  <2>1. q[i] \in Records /\ s[i] = Moved(q[i]) /\ q[i].pos \in Int
        /\ s[i].pos = q[i].pos - SPOOL_DATA_SIZE
      BY <1>1, MovedFacts, RecordFacts
  <2>2. q[i].pos >= 0
      BY <2>1, <1>4, SizeFacts
  <2>3. Stored(l, q[i])
      BY <2>2 DEF Placed, n
  <2> QED BY <2>1, <2>3, <1>4, StoredShifts DEF Moved
<1>5. ASSUME s # <<>>
      PROVE  s[n].pos + 2 + s[n].len > (Len(Tail(l)) - 1) * SPOOL_DATA_SIZE
  <2>1. n \in 1..n /\ q # <<>> /\ q[n] \in Records
      BY <1>1, <1>5
  <2>2. q[n].pos + 2 + q[n].len > (Len(l) - 1) * SPOOL_DATA_SIZE
      BY <2>1 DEF Placed, n
  <2>3. /\ s[n].pos = q[n].pos - SPOOL_DATA_SIZE /\ s[n].len = q[n].len
        /\ q[n].pos \in Int /\ q[n].len \in Nat
      BY <2>1, <1>1, MovedFacts, RecordFacts
  <2>4. (Len(Tail(l)) - 1) * SPOOL_DATA_SIZE = (Len(l) - 1) * SPOOL_DATA_SIZE - SPOOL_DATA_SIZE
      BY <1>3, SizeFacts
  <2>5. PICK b \in Int : b = (Len(l) - 1) * SPOOL_DATA_SIZE
      BY <1>3, PageFacts, SMTT(40)
  <2>6. q[n].pos + 2 + q[n].len > b
      BY <2>2, <2>5, Zenon
  <2>7. SPOOL_DATA_SIZE \in Int
      BY SizeFacts
  <2>8. s[n].pos + 2 + s[n].len > b - SPOOL_DATA_SIZE
      BY ONLY <2>3, <2>6, <2>7, b \in Int, SMTT(40)
  <2> QED BY <2>4, <2>5, <2>8, Zenon
<1>6. Placed(Tail(l), s, e - SPOOL_DATA_SIZE)
    BY <1>1, <1>2, <1>4, <1>5 DEF Placed
<1> QED BY <1>6 DEF s

\* The first record is taken away.
LEMMA PlacedTails ==
    ASSUME NEW l \in Seq(Pages), NEW q \in Seq(Records), q # <<>>, NEW e \in Int, Placed(l, q, e)
    PROVE  Placed(l, Tail(q), e)
<1> DEFINE s == Tail(q)
           n == Len(q)
<1>1. /\ n \in Nat \ {0} /\ Len(s) = n - 1 /\ (s = <<>> <=> n = 1)
      /\ \A i \in 1..(n - 1) : s[i] = q[i + 1]
    BY TailOf
<1>2. Chain(s, e)
    BY ChainTails DEF Placed
<1> HIDE DEF s, n
<1>3. ASSUME NEW i \in 1..(n - 1), s[i].pos >= 0 PROVE Stored(l, s[i])
  <2>1. i + 1 \in 1..n /\ s[i] = q[i + 1]
      BY <1>1
  <2> QED BY <2>1, <1>3 DEF Placed, n
<1>4. ASSUME s # <<>> PROVE s[n - 1] = q[n]
    BY <1>1, <1>4
<1>5. q[n].pos + 2 + q[n].len > (Len(l) - 1) * SPOOL_DATA_SIZE
    BY DEF Placed, n
<1>6. Placed(l, s, e)
    BY <1>1, <1>2, <1>3, <1>4, <1>5 DEF Placed
<1> QED BY <1>6 DEF s

\* A record is added, with the pages it needs.
LEMMA PlacedAppends ==
    ASSUME NEW l \in Seq(Pages), NEW m \in Seq(Pages), NEW q \in Seq(Records), NEW r \in Records,
           Placed(l, q, r.pos), r.pos % 2 = 0, Stored(l \o m, r),
           r.pos + 2 + r.len > (Len(l) + Len(m) - 1) * SPOOL_DATA_SIZE
    PROVE  Placed(l \o m, Append(q, r), NextPos(r))
<1> DEFINE s == Append(q, r)
           n == Len(q)
<1>1. /\ n \in Nat /\ Len(s) = n + 1 /\ s[n + 1] = r /\ \A i \in 1..n : s[i] = q[i]
    BY AppendProperties, LenProperties
<1>2. Chain(s, NextPos(r))
    BY ChainAppends DEF Placed
<1>3. Len(l \o m) = Len(l) + Len(m)
    BY ConcatProperties
<1> HIDE DEF s, n
<1>4. ASSUME NEW i \in 1..(n + 1), s[i].pos >= 0 PROVE Stored(l \o m, s[i])
  <2>1. CASE i \in 1..n
    <3>1. s[i] = q[i] /\ Stored(l, q[i])
        BY <1>1, <1>4, <2>1 DEF Placed, n
    <3> QED BY <3>1, StoredGrows
  <2>2. CASE i = n + 1
      BY <2>2, <1>1
  <2> QED BY <2>1, <2>2, <1>1
<1>5. Placed(l \o m, s, NextPos(r))
    BY <1>1, <1>2, <1>3, <1>4 DEF Placed
<1> QED BY <1>5 DEF s

\* The last page is changed behind the records.
LEMMA PlacedStays ==
    ASSUME NEW l \in Seq(Pages), l # <<>>, NEW q \in Seq(Records),
           NEW p \in Pages, NEW o \in 0..SPOOL_DATA_SIZE,
           \A x \in Offsets : x < o => p[x] = l[Len(l)][x],
           Placed(l, q, (Len(l) - 1) * SPOOL_DATA_SIZE + o)
    PROVE  Placed([l EXCEPT ![Len(l)] = p], q, (Len(l) - 1) * SPOOL_DATA_SIZE + o)
<1> DEFINE m == [l EXCEPT ![Len(l)] = p]
           e == (Len(l) - 1) * SPOOL_DATA_SIZE + o
<1>1. Len(m) = Len(l)
    BY EmptySeq, ExceptSeq
<1>2. Chain(q, e)
    BY DEF Placed
<1>3. ASSUME NEW i \in 1..Len(q), q[i].pos >= 0 PROVE Stored(m, q[i])
  <2>1. q[i] \in Records /\ Stored(l, q[i])
      BY <1>3, ElementOfSeq DEF Placed
  <2>2. NextPos(q[i]) <= (Len(l) - 1) * SPOOL_DATA_SIZE + o
      BY <1>2 DEF Chain
  <2> QED BY <2>1, <2>2, StoredStays
<1> HIDE DEF m, e
<1>4. Placed(l, q, e)
    BY DEF e
<1>5. Placed(m, q, e)
    BY <1>1, <1>2, <1>3, <1>4, Zenon DEF Placed
<1> QED BY <1>5 DEF m, e

-----------------------------------------------------------------------------
(* The invariant.                                                          *)

LEMMA EndFacts ==
    ASSUME Types
    PROVE  /\ Len(list) \in Nat /\ (list = <<>> <=> Len(list) = 0)
           /\ EndPos \in Int /\ EndPos >= 0 /\ EndPos % 2 = 0
           /\ (Len(list) - 1) * SPOOL_DATA_SIZE \in Int
           /\ list # <<>> => EndPos = (Len(list) - 1) * SPOOL_DATA_SIZE + lrecoff
           /\ list = <<>> => EndPos = 0
           /\ EndPos < SPOOL_DATA_SIZE => Len(list) <= 1
           /\ EndPos > SPOOL_DATA_SIZE => Len(list) >= 2
           /\ Len(list) = 1 => EndPos = lrecoff
           /\ lrecoff \in Int /\ 0 <= lrecoff /\ lrecoff <= SPOOL_DATA_SIZE
<1>1. /\ Len(list) \in Nat /\ (list = <<>> <=> Len(list) = 0)
      /\ lrecoff \in Int /\ 0 <= lrecoff /\ lrecoff <= SPOOL_DATA_SIZE /\ lrecoff % 2 = 0
    BY SizeFacts, EmptySeq, LenProperties DEF Types
<1>2. PICK k \in Int : k = Len(list) - 1
    BY <1>1
<1>3. PICK b \in Int : b = k * SPOOL_DATA_SIZE
    BY PageFacts
<1>4. /\ b % 2 = 0 /\ (k >= 0 => b >= 0) /\ (k >= 1 => b >= SPOOL_DATA_SIZE)
      /\ (k = 0 => b = 0)
    BY <1>3, PageFacts, SizeFacts
<1>5. (Len(list) - 1) * SPOOL_DATA_SIZE = b
    BY <1>2, <1>3
<1>6. EndPos = IF list = <<>> THEN 0 ELSE b + lrecoff
    BY <1>5 DEF EndPos
<1> QED BY <1>1, <1>2, <1>4, <1>5, <1>6, SizeFacts

LEMMA InitInv == Init => IndInv
<1> SUFFICES ASSUME Init PROVE IndInv
    OBVIOUS
<1>1. /\ list = <<>> /\ recs = 0 /\ pages = 0 /\ frecoff = 0 /\ lrecoff = 0
      /\ pc = "idle" /\ g = NoGrab /\ a = NoAppend /\ held = 0 /\ fifo = <<>>
    BY DEF Init
<1>2. list \in Seq(Pages) /\ fifo \in Seq(Records) /\ Len(list) = 0 /\ Len(fifo) = 0
    BY <1>1, EmptySeq
<1>3. g \in GrabLocals /\ a \in AppendLocals /\ a.new = <<>>
    BY <1>1, EmptySeq DEF NoGrab, NoAppend, GrabLocals, AppendLocals
<1>4. Types
    BY <1>1, <1>2, <1>3, SizeFacts DEF Types
<1>5. Counts
    BY <1>1, <1>2, <1>3 DEF Counts
<1>6. EndPos = 0
    BY <1>1 DEF EndPos
<1>7. Places
    BY <1>1, <1>2 DEF Places, Placed, Chain
<1>8. Start /\ Grabbing /\ Appending
    BY <1>1, <1>2, <1>6 DEF Start, Grabbing, Appending
<1> QED BY <1>4, <1>5, <1>7, <1>8 DEF IndInv

\* The file and the allocator are left alone, and with them what is said of them.
LEMMA FileKept ==
    ASSUME IndInv, UNCHANGED <<list, recs, pages, frecoff, lrecoff, held, fifo>>
    PROVE  /\ EndPos' = EndPos /\ Places'
           /\ recs' = Len(fifo') /\ pages' = Len(list')
           /\ list' \in Seq(Pages) /\ fifo' \in Seq(Records)
           /\ frecoff' \in Offsets /\ lrecoff' \in 0..SPOOL_DATA_SIZE
           /\ frecoff' % 2 = 0 /\ lrecoff' % 2 = 0
<1>1. EndPos' = EndPos
    BY DEF EndPos
<1>2. Places'
    BY <1>1, Zenon DEF IndInv, Places
<1> QED BY <1>1, <1>2 DEF IndInv, Types, Counts

LEMMA GrabRecInv ==
    ASSUME IndInv, NEW want \in Wants, GrabRec(want)
    PROVE  IndInv'
<1> DEFINE r == fifo[1]
<1>1. /\ Types /\ Counts /\ Places /\ Start /\ Grabbing /\ Appending
      /\ pc = "idle" /\ want # 0 /\ recs # 0 /\ pc' = "grab" /\ want \in Nat
      /\ UNCHANGED <<list, recs, pages, frecoff, lrecoff, a, held, got, fifo>>
    BY SizeFacts DEF IndInv, GrabRec, file
<1>2. fifo # <<>> /\ r \in Records
    BY <1>1, EmptySeq, TailOf DEF Counts, Types
<1>3. r.pos = frecoff /\ frecoff \in Offsets /\ frecoff \in Int /\ 0 <= frecoff
      /\ frecoff % 2 = 0 /\ frecoff + 2 <= SPOOL_DATA_SIZE
    BY <1>1, <1>2, SizeFacts DEF Start, Types
<1>4. Stored(list, r)
  <2>1. 1 \in 1..Len(fifo)
      BY <1>1, <1>2, EmptySeq DEF Types
  <2> QED BY <2>1, <1>1, <1>3 DEF Places, Placed
<1>5. list # <<>> /\ list[1][frecoff] = Length(r.len)
  <2>1. list # <<>>
      BY <1>4, <1>1, EmptySeq DEF Stored, Types
  <2>2. r.pos = 0 * SPOOL_DATA_SIZE + frecoff
      BY <1>3, SizeFacts
  <2>3. r.pos \div SPOOL_DATA_SIZE = 0 /\ r.pos % SPOOL_DATA_SIZE = frecoff
      BY <2>2, <1>3, PositionFacts
  <2>4. list[1 + 0][frecoff] = Length(r.len)
      BY <2>3, <1>1, <1>4, StoredLength DEF Types
  <2> QED BY <2>1, <2>4
<1>6. LengthsAt(list, frecoff) = {r.len}
    BY <1>3, <1>5 DEF LengthsAt, At, Length
<1>7. g' = [want |-> want, reclen |-> r.len,
            rlen |-> Min({want, r.len}) + 2, copied |-> 2, processed |-> 2,
            offset |-> frecoff + 2, left |-> SPOOL_DATA_SIZE - frecoff - 2,
            buf |-> <<>>]
    BY <1>6 DEF GrabRec
<1>8. r.len \in Nat \ {0} /\ Min({want, r.len}) \in Nat \ {0} /\ Min({want, r.len}) <= r.len
  <2>1. r.len \in Nat \ {0}
      BY <1>2, RecordFacts
  <2>2. Min({want, r.len}) = IF want <= r.len THEN want ELSE r.len
      BY <2>1, <1>1, MinFacts
  <2> QED BY <2>1, <2>2, <1>1
<1> DEFINE n == r.len
           m == Min({want, r.len})
<1> HIDE DEF r, n, m
<1>9. n \in Nat \ {0} /\ m \in Nat \ {0} /\ m <= n
    BY <1>8 DEF n, m
<1>10. g' = [want |-> want, reclen |-> n, rlen |-> m + 2, copied |-> 2, processed |-> 2,
             offset |-> frecoff + 2, left |-> SPOOL_DATA_SIZE - frecoff - 2, buf |-> <<>>]
    BY <1>7 DEF n, m
<1>11. g' \in GrabLocals
    BY <1>1, <1>3, <1>9, <1>10, SizeFacts, EmptySeq DEF GrabLocals
<1>12. GrabbingOf(r)'
  <2>1. /\ g'.want = want /\ g'.reclen = n /\ g'.rlen = m + 2 /\ g'.copied = 2
        /\ g'.processed = 2 /\ g'.offset = frecoff + 2
        /\ g'.left = SPOOL_DATA_SIZE - frecoff - 2 /\ g'.buf = <<>> /\ Len(<<>>) = 0
      BY <1>10, EmptySeq
  <2>2. IsText(g'.buf, r)
      BY <2>1 DEF IsText
  <2>3. r' = r /\ frecoff' = frecoff
      BY <1>1 DEF r
  <2>4. g'.rlen = Min({g'.want, r.len}) + 2 /\ g'.reclen = r.len /\ n = r.len
      BY <2>1 DEF m, n
  <2>5. /\ 2 <= m + 2 /\ 2 \in 2..(n + 2) /\ frecoff + 2 <= SPOOL_DATA_SIZE
        /\ SPOOL_DATA_SIZE - frecoff - 2 = SPOOL_DATA_SIZE - (frecoff + 2)
      BY <1>3, <1>9, SizeFacts
  <2> QED BY <2>1, <2>2, <2>3, <2>4, <2>5, <1>1, <1>3 DEF GrabbingOf
<1>13. Types' /\ Counts' /\ Places'
    BY <1>1, <1>11, FileKept DEF Types, Counts
<1>14. Start' /\ Appending'
    BY <1>1 DEF Start, Appending
<1>15. Grabbing'
  <2>1. fifo'[1] = r /\ fifo' # <<>>
      BY <1>1, <1>2 DEF r
  <2> QED BY <2>1, <1>12 DEF Grabbing, r
<1> QED BY <1>13, <1>14, <1>15 DEF IndInv

\* A record that starts in the first page.
LEMMA StoredFirst ==
    ASSUME NEW l \in Seq(Pages), NEW r, r.pos \in Offsets, Stored(l, r)
    PROVE  l # <<>> /\ StoredAt(l, r, 1, r.pos)
<1>1. PICK k \in 1..Len(l), o \in Offsets : StoredAt(l, r, k, o)
    BY DEF Stored
<1>2. k - 1 \in Int /\ l # <<>>
    BY EmptySeq
<1>3. r.pos \div SPOOL_DATA_SIZE = k - 1 /\ r.pos % SPOOL_DATA_SIZE = o
    BY <1>1, <1>2, PositionFacts DEF StoredAt
<1>4. r.pos \div SPOOL_DATA_SIZE = 0 /\ r.pos % SPOOL_DATA_SIZE = r.pos
    BY SizeFacts, SMTT(40)
<1>5. k = 1 /\ o = r.pos
    BY <1>2, <1>3, <1>4
<1> QED BY <1>1, <1>2, <1>5

LEMMA AtType ==
    ASSUME NEW l \in Seq(Pages), NEW o
    PROVE  At(l, o) \in Bytes
<1>1. Junk \in Bytes
    BY DEF Bytes
<1>2. ASSUME l # <<>>, o \in Offsets PROVE l[1][o] \in Bytes
  <2>1. l[1] \in Pages
      BY <1>2, TailOf
  <2> QED BY <2>1, <1>2 DEF Pages
<1> QED BY <1>1, <1>2 DEF At

\* The end of the file moves forward with the pages.
LEMMA EndShifts ==
    ASSUME Types, list # <<>>, list' = Tail(list), lrecoff' = lrecoff,
           Len(list) >= 2 \/ lrecoff = SPOOL_DATA_SIZE
    PROVE  /\ list' \in Seq(Pages) /\ Len(list') = Len(list) - 1 /\ Len(list) \in Nat \ {0}
           /\ EndPos' = EndPos - SPOOL_DATA_SIZE
<1>1. /\ list' \in Seq(Pages) /\ Len(list') = Len(list) - 1 /\ Len(list) \in Nat \ {0}
      /\ (list' = <<>> <=> Len(list) = 1)
    BY TailOf DEF Types
<1>2. /\ list # <<>> => EndPos = (Len(list) - 1) * SPOOL_DATA_SIZE + lrecoff
      /\ Len(list) = 1 => EndPos = lrecoff
      /\ lrecoff \in Int /\ (Len(list) - 1) * SPOOL_DATA_SIZE \in Int
    BY EndFacts
<1>3. CASE Len(list) = 1
    BY <1>1, <1>2, <1>3, SizeFacts DEF EndPos
<1>4. CASE Len(list) # 1
  <2>1. EndPos' = (Len(list') - 1) * SPOOL_DATA_SIZE + lrecoff
      BY <1>1, <1>4 DEF EndPos
  <2>2. PICK b \in Int : b = (Len(list) - 1) * SPOOL_DATA_SIZE
      BY <1>2
  <2>3. (Len(list') - 1) * SPOOL_DATA_SIZE = b - SPOOL_DATA_SIZE
      BY <1>1, <2>2, SizeFacts
  <2>4. EndPos' = b - SPOOL_DATA_SIZE + lrecoff /\ EndPos = b + lrecoff
      BY <2>1, <2>2, <2>3, <1>2, Zenon
  <2>5. SPOOL_DATA_SIZE \in Int
      BY SizeFacts
  <2> QED BY ONLY <2>4, <2>5, <1>1, <1>2, b \in Int
<1> QED BY <1>3, <1>4

\* What the loop of spool_grab_rec goes on with: offset o of the first page.
Turn(r, o) ==
    /\ Counts' /\ Places' /\ list' \in Seq(Pages) /\ fifo' \in Seq(Records) /\ fifo' # <<>>
    /\ o \in Offsets
    /\ fifo'[1].pos + g.processed = o /\ fifo'[1].len = r.len /\ fifo'[1].text = r.text
    /\ frecoff + 2 + r.len <= SPOOL_DATA_SIZE => list' = list /\ fifo' = fifo

LEMMA GrabTurns ==
    ASSUME IndInv, GrabCopy
    PROVE  Turn(fifo[1], IF g.left = 0 THEN 0 ELSE g.offset)
<1> DEFINE r == fifo[1]
<1>1. /\ Types /\ Counts /\ Places /\ pc = "grab" /\ fifo # <<>> /\ GrabbingOf(r)
      /\ g.processed # g.reclen + 2 /\ FreeFirstIf(g.left = 0)
      /\ fifo' = IF g.left = 0 THEN Shift(fifo) ELSE fifo
      /\ recs' = recs /\ lrecoff' = lrecoff /\ frecoff' = frecoff /\ a' = a
    BY DEF IndInv, Grabbing, GrabCopy
<1>2. /\ r \in Records /\ r.pos \in Int /\ r.len \in Nat \ {0} /\ NextPos(r) \in Int
      /\ NextPos(r) >= r.pos + 2 + r.len
  <2>1. r \in Records
      BY <1>1, TailOf DEF Types
  <2> QED BY <2>1, RecordFacts
<1>3. /\ g.processed \in 2..(r.len + 2) /\ g.processed < r.len + 2
      /\ g.offset \in 0..SPOOL_DATA_SIZE /\ g.left = SPOOL_DATA_SIZE - g.offset
      /\ r.pos + g.processed = g.offset
      /\ frecoff + 2 + r.len <= SPOOL_DATA_SIZE => r.pos = frecoff
  <2>1. g.processed \in Nat /\ g.offset \in Nat /\ g.left \in Nat /\ g.reclen \in Nat
      BY <1>1 DEF Types, GrabLocals
  <2>2. /\ g.reclen = r.len /\ g.processed \in 2..(r.len + 2) /\ r.pos + g.processed = g.offset
        /\ g.offset <= SPOOL_DATA_SIZE /\ g.left = SPOOL_DATA_SIZE - g.offset
        /\ frecoff + 2 + r.len <= SPOOL_DATA_SIZE => r.pos = frecoff
      BY <1>1 DEF GrabbingOf
  <2>3. g.processed # r.len + 2
      BY <2>2, <1>1
  <2> HIDE DEF r
  <2> QED BY <2>1, <2>2, <2>3, <1>2, SizeFacts, SMTT(40)
<1>4. CASE g.left # 0
  <2>1. UNCHANGED <<list, pages, held>> /\ fifo' = fifo
      BY <1>1, <1>4 DEF FreeFirstIf
  <2>2. EndPos' = EndPos
      BY <2>1, <1>1 DEF EndPos
  <2>3. Places' /\ Counts'
      BY <2>1, <2>2, <1>1 DEF Places, Counts
  <2>4. g.offset \in Offsets
      BY <1>3, <1>4, SizeFacts
  <2> QED BY <2>1, <2>3, <2>4, <1>1, <1>3, <1>4 DEF Turn, Types
<1>5. CASE g.left = 0
  <2>1. g.offset = SPOOL_DATA_SIZE /\ r.pos + g.processed = SPOOL_DATA_SIZE
      BY <1>3, <1>5, SizeFacts
  <2>2. NextPos(r) <= EndPos /\ EndPos \in Int
    <3>1. 1 \in 1..Len(fifo)
        BY <1>1, EmptySeq DEF Types
    <3> QED BY <3>1, <1>1, EndFacts DEF Places, Placed, Chain
  <2>3. EndPos > SPOOL_DATA_SIZE
    <3> HIDE DEF r
    <3>1. r.pos + 2 + r.len > SPOOL_DATA_SIZE
        BY <2>1, <1>2, <1>3, SizeFacts
    <3> QED BY <3>1, <2>2, <1>2, SizeFacts
  <2>4. Len(list) >= 2 /\ list # <<>> /\ Len(list) \in Nat
      BY <2>3, <1>1, EndFacts
  <2>5. list' = Tail(list) /\ pages' = pages - 1 /\ held' = held - 1 /\ fifo' = Shift(fifo)
      BY <2>4, <1>1, <1>5 DEF FreeFirstIf
  <2>6. list' \in Seq(Pages) /\ Len(list') = Len(list) - 1 /\ EndPos' = EndPos - SPOOL_DATA_SIZE
      BY <2>4, <2>5, <1>1, EndShifts
  <2>7. Places'
    <3>1. Placed(Tail(list), Shift(fifo), EndPos - SPOOL_DATA_SIZE)
        BY <2>2, <2>4, <1>1, PlacedShifts DEF Places, Types
    <3> QED BY <3>1, <2>5, <2>6 DEF Places
  <2>8. fifo' \in Seq(Records) /\ Len(fifo') = Len(fifo) /\ fifo'[1] = Moved(r) /\ fifo' # <<>>
    <3>1. 1 \in 1..Len(fifo)
        BY <1>1, EmptySeq DEF Types
    <3> QED BY <3>1, <2>5, <1>1, ShiftFacts DEF Types
  <2>9. Counts'
    <3>1. Len(a.new) \in Nat
        BY <1>1, LenProperties DEF Types, AppendLocals
    <3> QED BY <3>1, <2>4, <2>5, <2>6, <2>8, <1>1 DEF Counts
  <2>10. fifo'[1].pos + g.processed = 0 /\ fifo'[1].len = r.len /\ fifo'[1].text = r.text
    <3>1. Moved(r).pos = r.pos - SPOOL_DATA_SIZE /\ Moved(r).len = r.len /\ Moved(r).text = r.text
        BY <1>2, MovedFacts
    <3>2. r.pos - SPOOL_DATA_SIZE + g.processed = 0
        BY <2>1, <1>2, <1>3, SizeFacts
    <3> QED BY <3>1, <3>2, <2>8
  <2>11. ~(frecoff + 2 + r.len <= SPOOL_DATA_SIZE)
    <3>1. r.pos + 2 + r.len > SPOOL_DATA_SIZE
        BY <2>1, <1>2, <1>3, SizeFacts, SMTT(40)
    <3> QED BY <3>1, <1>2, <1>3, SizeFacts, SMTT(40)
  <2>12. 0 \in Offsets
      BY SizeFacts
  <2> QED BY <2>6, <2>7, <2>8, <2>9, <2>10, <2>11, <2>12, <1>5 DEF Turn
<1> QED BY <1>4, <1>5 DEF r

\* What one turn copies, from offset o of the first page of l.
Piece(l, o, n) == [i \in 1..n |-> At(l, o + i - 1)]

LEMMA PieceType ==
    ASSUME NEW l \in Seq(Pages), NEW o, NEW n \in Nat
    PROVE  /\ Piece(l, o, n) \in Seq(Bytes) /\ Len(Piece(l, o, n)) = n
           /\ \A i \in 1..n : Piece(l, o, n)[i] = At(l, o + i - 1)
<1>1. \A i \in 1..n : At(l, o + i - 1) \in Bytes
    BY AtType
<1>2. Piece(l, o, n) \in [1..n -> Bytes]
    BY <1>1 DEF Piece
<1>3. \A i \in 1..n : Piece(l, o, n)[i] = At(l, o + i - 1)
    BY DEF Piece
<1> QED BY <1>2, <1>3

\* The text of a record in the first page is copied, after c bytes of it n more.
LEMMA PieceOfText ==
    ASSUME NEW l \in Seq(Pages), NEW r \in Records, Stored(l, r), r.pos \in Offsets,
           r.pos + 2 + r.len <= SPOOL_DATA_SIZE,
           NEW buf \in Seq(Bytes), IsText(buf, r), NEW n \in Nat, Len(buf) + n <= r.len
    PROVE  IsText(buf \o Piece(l, r.pos + 2 + Len(buf), n), r)
<1> DEFINE c == Len(buf)
           t == Piece(l, r.pos + 2 + c, n)
           p == r.pos
<1>1. /\ c \in Nat /\ t \in Seq(Bytes) /\ Len(t) = n
      /\ \A i \in 1..n : t[i] = At(l, p + 2 + c + i - 1)
  <2>1. c \in Nat
      BY LenProperties
  <2> QED BY <2>1, PieceType
<1>2. /\ Len(buf \o t) = c + n
      /\ \A i \in 1..(c + n) : (buf \o t)[i] = IF i <= c THEN buf[i] ELSE t[i - c]
    BY <1>1, ConcatProperties, ZenonT(60)
<1>3. l # <<>> /\ StoredAt(l, r, 1, p)
    BY StoredFirst
<1>4. HasText(l[1], p, r)
    BY <1>3 DEF StoredAt
<1>5. p \in Int /\ p >= 0 /\ r.len \in Nat /\ p + 2 + r.len <= SPOOL_DATA_SIZE /\ c + n <= r.len
    BY SizeFacts, RecordFacts
<1> HIDE DEF c, t, p
<1>6. ASSUME NEW i \in 1..(c + n) PROVE (buf \o t)[i] = Byte(r.text, i - 1)
  <2>1. CASE i <= c
    <3>1. i \in 1..c
        BY <2>1, <1>1
    <3>2. buf[i] = Byte(r.text, i - 1)
        BY <3>1 DEF IsText, c
    <3> QED BY <3>2, <2>1, <1>2
  <2>2. CASE ~(i <= c)
    <3>1. i - c \in 1..n /\ i - 1 \in 0..(r.len - 1) /\ p + 2 + (i - 1) \in Offsets
          /\ p + 2 + c + (i - c) - 1 = p + 2 + (i - 1)
        BY <2>2, <1>1, <1>5, SizeFacts, SMTT(40)
    <3>2. (buf \o t)[i] = At(l, p + 2 + (i - 1))
        BY <3>1, <2>2, <1>1, <1>2
    <3>3. At(l, p + 2 + (i - 1)) = l[1][p + 2 + (i - 1)]
        BY <3>1, <1>3 DEF At
    <3>4. l[1][p + 2 + (i - 1)] = Byte(r.text, i - 1)
        BY <3>1, <1>4 DEF HasText
    <3> QED BY <3>2, <3>3, <3>4
  <2> QED BY <2>1, <2>2
<1>7. IsText(buf \o t, r)
    BY <1>2, <1>6 DEF IsText
<1> QED BY <1>7 DEF t, c, p

LEMMA GrabCopyInv ==
    ASSUME IndInv, GrabCopy
    PROVE  IndInv'
<1> DEFINE r == fifo[1]
           s == fifo'[1]
           o == IF g.left = 0 THEN 0 ELSE g.offset
           left == IF g.left = 0 THEN SPOOL_DATA_SIZE ELSE g.left
           copying == g.rlen # g.copied
           rest == IF copying THEN g.rlen - g.copied ELSE g.reclen - g.processed + 2
           tmp == Min({left, rest})
<1>1. /\ Types /\ Counts /\ Places /\ pc = "grab" /\ fifo # <<>> /\ GrabbingOf(r)
      /\ g.processed # g.reclen + 2
      /\ UNCHANGED <<recs, frecoff, lrecoff, pc, a, got>>
    BY DEF IndInv, Grabbing, GrabCopy
<1>2. Turn(r, o)
    BY GrabTurns
<1>3. g' = [g EXCEPT !.copied = IF copying THEN @ + tmp ELSE @,
                     !.buf = IF copying THEN @ \o Piece(list', o, tmp) ELSE @,
                     !.processed = @ + tmp, !.left = left - tmp, !.offset = o + tmp]
    BY Zenon DEF GrabCopy, Piece
<1>4. /\ g.processed \in Nat /\ g.offset \in Nat /\ g.left \in Nat /\ g.reclen \in Nat
      /\ g.copied \in Nat /\ g.rlen \in Nat /\ g.want \in Nat /\ g.buf \in Seq(Bytes)
      /\ g \in GrabLocals
    BY <1>1 DEF Types, GrabLocals
<1>5. /\ r \in Records /\ r.len \in Nat \ {0} /\ s \in Records /\ s.pos \in Int
      /\ s.len = r.len /\ s.text = r.text /\ s.pos + g.processed = o /\ o \in Offsets
  <2>1. r \in Records /\ s \in Records
      BY <1>1, <1>2, TailOf DEF Types, Turn
  <2> QED BY <2>1, <1>2, RecordFacts DEF Turn
<1>6. /\ g.want \in Wants /\ g.want # 0
      /\ g.rlen = Min({g.want, r.len}) + 2
      /\ Len(g.buf) = g.copied - 2
      /\ frecoff + 2 + r.len <= SPOOL_DATA_SIZE => r.pos = frecoff /\ IsText(g.buf, r)
    BY <1>1 DEF GrabbingOf
<1>7. /\ g.rlen <= r.len + 2 /\ g.rlen >= 2 /\ g.left = SPOOL_DATA_SIZE - g.offset
      /\ g.reclen = r.len /\ g.processed \in 2..(r.len + 2) /\ g.processed # r.len + 2
      /\ g.copied = IF g.processed <= g.rlen THEN g.processed ELSE g.rlen
  <2>1. Min({g.want, r.len}) = IF g.want <= r.len THEN g.want ELSE r.len
      BY <1>4, <1>5, MinFacts, SMTT(40)
  <2>2. g.rlen <= r.len + 2 /\ g.rlen >= 2
      BY <2>1, <1>4, <1>5, <1>6, SMTT(40)
  <2> QED BY <2>2, <1>1 DEF GrabbingOf
<1> HIDE DEF r, s
<1>8. left \in Nat \ {0} /\ left = SPOOL_DATA_SIZE - o /\ o \in Nat
    BY <1>4, <1>5, <1>7, SizeFacts
<1> HIDE DEF o, left
<1>8a. /\ g.processed \in Int /\ g.copied \in Int /\ g.rlen \in Int /\ r.len \in Int
       /\ g.processed >= 2 /\ g.processed < r.len + 2 /\ g.rlen <= r.len + 2 /\ g.rlen >= 2
       /\ g.reclen = r.len
       /\ g.processed <= g.rlen => g.copied = g.processed
       /\ g.processed > g.rlen => g.copied = g.rlen
       /\ s.pos \in Int /\ s.pos + g.processed = o /\ s.len = r.len
    BY <1>4, <1>5, <1>7, SMTT(40)
<1>9. rest \in Nat \ {0} /\ g.processed + rest <= r.len + 2
      /\ (copying => g.copied = g.processed /\ g.processed + rest <= g.rlen)
      /\ (~copying => g.processed >= g.rlen)
    BY ONLY <1>8a DEF rest, copying
<1> HIDE DEF copying, rest
<1>10. tmp \in Nat \ {0} /\ tmp <= left /\ tmp <= rest
  <2>1. tmp = IF left <= rest THEN left ELSE rest
      BY <1>8, <1>9, MinFacts
  <2> QED BY <2>1, <1>8, <1>9
<1> HIDE DEF tmp
<1>11. /\ g'.want = g.want /\ g'.reclen = g.reclen /\ g'.rlen = g.rlen
       /\ g'.copied = IF copying THEN g.copied + tmp ELSE g.copied
       /\ g'.buf = IF copying THEN g.buf \o Piece(list', o, tmp) ELSE g.buf
       /\ g'.processed = g.processed + tmp /\ g'.left = left - tmp /\ g'.offset = o + tmp
       /\ g' = [want |-> g'.want, reclen |-> g'.reclen, rlen |-> g'.rlen, copied |-> g'.copied,
                processed |-> g'.processed, offset |-> g'.offset, left |-> g'.left,
                buf |-> g'.buf]
    BY <1>3, <1>4 DEF GrabLocals
<1>12. /\ Piece(list', o, tmp) \in Seq(Bytes) /\ Len(Piece(list', o, tmp)) = tmp
    BY <1>2, <1>10, PieceType DEF Turn
<1>13. /\ g'.buf \in Seq(Bytes) /\ Len(g'.buf) = g'.copied - 2
  <2>1. CASE copying
    <3>1. g'.buf = g.buf \o Piece(list', o, tmp) /\ g'.copied = g.copied + tmp
        BY <2>1, <1>11
    <3>2. PICK t \in Seq(Bytes), b \in Seq(Bytes) :
               t = Piece(list', o, tmp) /\ b = g.buf /\ Len(t) = tmp /\ Len(b) = g.copied - 2
        BY <1>4, <1>6, <1>12
    <3>3. b \o t \in Seq(Bytes) /\ Len(b \o t) = Len(b) + Len(t)
        BY ConcatProperties
    <3>4. g'.buf = b \o t
        BY <3>1, <3>2, Zenon
    <3> QED BY <3>1, <3>2, <3>3, <3>4, <1>4, <1>10
  <2>2. CASE ~copying
      BY <2>2, <1>4, <1>6, <1>11
  <2> QED BY <2>1, <2>2
<1>14. /\ g'.processed \in 2..(r.len + 2) /\ g'.offset \in Nat /\ g'.offset <= SPOOL_DATA_SIZE
       /\ g'.left = SPOOL_DATA_SIZE - g'.offset /\ g'.left \in Nat
       /\ s.pos + g'.processed = g'.offset /\ g'.copied \in Nat
       /\ g'.copied = IF g'.processed <= g'.rlen THEN g'.processed ELSE g'.rlen
  <2>1. /\ g'.rlen = g.rlen /\ g'.copied = (IF copying THEN g.copied + tmp ELSE g.copied)
        /\ g'.processed = g.processed + tmp /\ g'.left = left - tmp /\ g'.offset = o + tmp
      BY <1>11
  <2>2. copying \in BOOLEAN
      BY DEF copying
  <2>3. SPOOL_DATA_SIZE \in Int
      BY SizeFacts
  <2>4. CASE copying
      BY ONLY <2>1, <2>3, <2>4, <1>8, <1>8a, <1>9, <1>10
  <2>5. CASE ~copying
      BY ONLY <2>1, <2>3, <2>5, <1>8, <1>8a, <1>9, <1>10
  <2> QED BY <2>4, <2>5
<1>15. ASSUME frecoff + 2 + s.len <= SPOOL_DATA_SIZE
       PROVE  s.pos = frecoff /\ IsText(g'.buf, s)
  <2>1. list' = list /\ fifo' = fifo /\ s = r
      BY <1>2, <1>5, <1>15 DEF Turn, s, r
  <2>2. s.pos = frecoff /\ IsText(g.buf, s) /\ frecoff \in Offsets /\ frecoff >= 0
      BY <2>1, <1>1, <1>6, <1>15, SizeFacts DEF Types
  <2>3. CASE ~copying
      BY <2>2, <2>3, <1>11
  <2>4. CASE copying
    <3>1. Len(g.buf) \in Nat /\ o = s.pos + 2 + Len(g.buf) /\ Len(g.buf) + tmp <= s.len
      <4>1. g.copied = g.processed /\ Len(g.buf) = g.copied - 2 /\ g.processed + rest <= g.rlen
          BY <2>4, <1>6, <1>9
      <4>2. PICK c : c = Len(g.buf)
          OBVIOUS
      <4>3. /\ g.copied = g.processed /\ c = g.copied - 2 /\ g.processed + rest <= g.rlen
            /\ g.processed \in Int /\ g.processed >= 2 /\ g.rlen <= s.len + 2
            /\ g.rlen \in Int /\ s.len \in Int /\ s.pos \in Int /\ s.pos + g.processed = o
          BY <4>1, <4>2, <1>8a
      <4>4. c \in Nat /\ o = s.pos + 2 + c /\ c + tmp <= s.len
          BY ONLY <4>3, <1>9, <1>10, <1>8
      <4> QED BY <4>2, <4>4
    <3>2. Stored(list, s)
      <4>1. 1 \in 1..Len(fifo)
          BY <1>1, EmptySeq DEF Types
      <4> QED BY <4>1, <2>1, <2>2, <1>1 DEF Places, Placed, s
    <3>3. IsText(g.buf \o Piece(list, s.pos + 2 + Len(g.buf), tmp), s)
        BY <3>1, <3>2, <2>2, <1>1, <1>4, <1>5, <1>10, <1>15, PieceOfText DEF Types
    <3>4. g'.buf = g.buf \o Piece(list, s.pos + 2 + Len(g.buf), tmp)
        BY <3>1, <2>1, <2>4, <1>11
    <3> QED BY <3>3, <3>4, <2>2
  <2> QED BY <2>3, <2>4
<1>16. g' \in GrabLocals
  <2>1. /\ g'.want \in Nat /\ g'.reclen \in Nat /\ g'.rlen \in Nat /\ g'.copied \in Nat
        /\ g'.processed \in Nat /\ g'.offset \in Nat /\ g'.left \in Nat /\ g'.buf \in Seq(Bytes)
      BY <1>4, <1>5, <1>11, <1>13, <1>14
  <2> QED BY <2>1, <1>11, Zenon DEF GrabLocals
<1>17. GrabbingOf(fifo[1])'
    BY <1>1, <1>5, <1>6, <1>7, <1>11, <1>13, <1>14, <1>15 DEF GrabbingOf, s
<1>18. Types' /\ Counts' /\ Places'
    BY <1>1, <1>2, <1>16 DEF Types, Turn
<1>19. Start' /\ Grabbing' /\ Appending'
    BY <1>1, <1>2, <1>17 DEF Start, Grabbing, Appending, Turn
<1> QED BY <1>18, <1>19 DEF IndInv

LEMMA NoLocals == NoGrab \in GrabLocals /\ NoAppend \in AppendLocals /\ NoAppend.new = <<>>
<1>1. <<>> \in Seq(Bytes) /\ <<>> \in Seq(Pages)
    BY EmptySeq
<1> QED BY <1>1 DEF NoGrab, NoAppend, GrabLocals, AppendLocals

\* Where spool_grab_rec is when it has processed the whole record: at the end of
\* it, and at the next one after alignment.
LEMMA GrabbedFacts ==
    ASSUME IndInv, pc = "grab", g.processed = g.reclen + 2
    PROVE  /\ fifo # <<>> /\ fifo[1] \in Records
           /\ g.offset \in Nat /\ g.offset <= SPOOL_DATA_SIZE
           /\ fifo[1].pos + 2 + fifo[1].len = g.offset
           /\ NextPos(fifo[1]) = Align(g.offset) /\ Align(g.offset) <= SPOOL_DATA_SIZE
           /\ Align(g.offset) % 2 = 0 /\ Align(g.offset) \in Nat
           /\ Align(g.offset) <= EndPos
<1> DEFINE r == fifo[1]
<1>1. Types /\ Places /\ fifo # <<>> /\ GrabbingOf(r)
    BY DEF IndInv, Grabbing
<1>2. r \in Records /\ 1 \in 1..Len(fifo)
    BY <1>1, TailOf DEF Types
<1>3. r.pos \in Int /\ r.len \in Nat /\ r.pos % 2 = 0 /\ NextPos(r) <= EndPos
    BY <1>1, <1>2, RecordFacts DEF Places, Placed, Chain
<1>4. g.offset \in Nat /\ g.offset <= SPOOL_DATA_SIZE /\ r.pos + (r.len + 2) = g.offset
    BY <1>1 DEF GrabbingOf, Types, GrabLocals
<1>5. NextPos(r) = Align(r.pos + 2 + r.len)
    BY <1>2, <1>3, RecordFacts
<1> HIDE DEF r
<1>6. r.pos + 2 + r.len = g.offset
    BY <1>3, <1>4
<1>7. /\ Align(g.offset) \in Int /\ Align(g.offset) % 2 = 0 /\ g.offset <= Align(g.offset)
      /\ Align(g.offset) <= SPOOL_DATA_SIZE
  <2>1. g.offset \in Int
      BY <1>4
  <2> QED BY <2>1, <1>4, AlignFacts
<1>8. Align(g.offset) \in Nat
    BY <1>4, <1>7
<1> QED BY <1>1, <1>2, <1>3, <1>4, <1>5, <1>6, <1>7, <1>8 DEF r

LEMMA GrabEndInv ==
    ASSUME IndInv, GrabEnd
    PROVE  IndInv'
<1> DEFINE r == fifo[1]
           o == Align(g.offset)
           q == Tail(fifo)
<1>1. /\ Types /\ Counts /\ Places /\ pc = "grab" /\ g.processed = g.reclen + 2
      /\ FreeFirstIf(o = SPOOL_DATA_SIZE)
      /\ frecoff' = IF o = SPOOL_DATA_SIZE THEN 0 ELSE o
      /\ fifo' = IF o = SPOOL_DATA_SIZE THEN Shift(q) ELSE q
      /\ recs' = recs - 1 /\ pc' = "idle" /\ g' = NoGrab /\ lrecoff' = lrecoff /\ a' = a
      /\ a = NoAppend
    BY DEF IndInv, GrabEnd, Types
<1>2. /\ fifo # <<>> /\ r \in Records /\ g.offset \in Nat /\ g.offset <= SPOOL_DATA_SIZE
      /\ r.pos + 2 + r.len = g.offset /\ NextPos(r) = o
      /\ o \in Nat /\ o <= SPOOL_DATA_SIZE /\ o % 2 = 0 /\ o <= EndPos
    BY <1>1, GrabbedFacts
<1>3. /\ q \in Seq(Records) /\ Len(q) = Len(fifo) - 1 /\ Len(fifo) \in Nat \ {0}
      /\ Len(list) \in Nat /\ EndPos \in Int
      /\ Placed(list, q, EndPos)
      /\ o = IF q = <<>> THEN EndPos ELSE q[1].pos
  <2>1. EndPos \in Int /\ Len(list) \in Nat
      BY <1>1, EndFacts
  <2>2. q \in Seq(Records) /\ Len(q) = Len(fifo) - 1 /\ Len(fifo) \in Nat \ {0}
      BY <1>1, <1>2, TailOf DEF Types
  <2>3. Placed(list, q, EndPos)
      BY <2>1, <1>1, <1>2, PlacedTails DEF Places, Types
  <2>4. NextPos(r) = IF q = <<>> THEN EndPos ELSE q[1].pos
      BY <2>1, <1>1, <1>2, ChainTails DEF Places, Placed, Types
  <2> QED BY <2>1, <2>2, <2>3, <2>4, <1>2
<1>4. g' \in GrabLocals /\ a' \in AppendLocals /\ a'.new = <<>> /\ a.new = <<>> /\ a' = NoAppend
    BY <1>1, NoLocals
<1> HIDE DEF q, o
<1>5. CASE o # SPOOL_DATA_SIZE
  <2>1. UNCHANGED <<list, pages, held>> /\ fifo' = q /\ frecoff' = o
      BY <1>1, <1>5 DEF FreeFirstIf
  <2>2. EndPos' = EndPos
      BY <2>1, <1>1 DEF EndPos
  <2>3. frecoff' \in Offsets
      BY <2>1, <1>2, <1>5, SizeFacts
  <2>4. Types'
      BY <2>1, <2>3, <1>1, <1>2, <1>3, <1>4 DEF Types
  <2>5. Counts'
      BY <2>1, <1>1, <1>3, <1>4 DEF Counts
  <2>6. Places'
      BY <2>1, <2>2, <1>3 DEF Places
  <2>7. Start'
    <3>1. EndPos < SPOOL_DATA_SIZE => Len(list) <= 1
        BY <1>1, EndFacts
    <3>2. o < SPOOL_DATA_SIZE
        BY <1>2, <1>5, SizeFacts
    <3> QED BY <3>1, <3>2, <2>1, <2>2, <1>3 DEF Start
  <2>8. Grabbing' /\ Appending'
      BY <1>1 DEF Grabbing, Appending
  <2> QED BY <2>4, <2>5, <2>6, <2>7, <2>8 DEF IndInv
<1>6. CASE o = SPOOL_DATA_SIZE
  <2>1. list # <<>> /\ (Len(list) >= 2 \/ lrecoff = SPOOL_DATA_SIZE)
    <3>1. /\ (list = <<>> => EndPos = 0) /\ (Len(list) = 1 => EndPos = lrecoff)
          /\ lrecoff \in Int /\ lrecoff <= SPOOL_DATA_SIZE /\ (list = <<>> <=> Len(list) = 0)
        BY <1>1, EndFacts
    <3>2. SPOOL_DATA_SIZE \in Nat /\ SPOOL_DATA_SIZE >= 2 /\ SPOOL_DATA_SIZE <= EndPos
          /\ EndPos \in Int /\ Len(list) \in Nat
        BY <1>2, <1>3, <1>6, SizeFacts
    <3>3. EndPos # 0 /\ (EndPos = lrecoff => lrecoff = SPOOL_DATA_SIZE)
        BY <3>1, <3>2
    <3>4. list # <<>> /\ Len(list) # 0
        BY <3>1, <3>3, Zenon
    <3>5. \A n \in Nat : n # 0 => n = 1 \/ n >= 2
        OBVIOUS
    <3>6. Len(list) = 1 \/ Len(list) >= 2
        BY <3>2, <3>4, <3>5, Zenon
    <3> QED BY <3>1, <3>3, <3>4, <3>6, Zenon
  <2>2. /\ list' = Tail(list) /\ pages' = pages - 1 /\ held' = held - 1
        /\ fifo' = Shift(q) /\ frecoff' = 0
      BY <2>1, <1>1, <1>6 DEF FreeFirstIf
  <2>3. list' \in Seq(Pages) /\ Len(list') = Len(list) - 1 /\ EndPos' = EndPos - SPOOL_DATA_SIZE
      BY <2>1, <2>2, <1>1, EndShifts
  <2>4. fifo' \in Seq(Records) /\ Len(fifo') = Len(q) /\ (fifo' = <<>> <=> q = <<>>)
        /\ \A i \in 1..Len(q) : fifo'[i] = Moved(q[i])
      BY <2>2, <1>3, ShiftFacts
  <2>5. Types'
    <3>1. frecoff' \in Offsets /\ frecoff' % 2 = 0
        BY <2>2, SizeFacts
    <3> QED BY <3>1, <2>3, <2>4, <1>1, <1>4 DEF Types
  <2>6. Counts'
      BY <2>2, <2>3, <2>4, <1>1, <1>3, <1>4 DEF Counts
  <2>7. Places'
    <3>1. Placed(Tail(list), Shift(q), EndPos - SPOOL_DATA_SIZE)
        BY <2>1, <1>1, <1>3, PlacedShifts DEF Types
    <3> QED BY <3>1, <2>2, <2>3 DEF Places
  <2>8. Start'
    <3>1. CASE q = <<>>
      <4>1. EndPos' = 0
          BY <3>1, <2>3, <1>3, <1>6, SizeFacts
      <4>2. Len(fifo) = 1
          BY <3>1, <1>3, EmptySeq
      <4>3. r.pos + 2 + r.len > (Len(list) - 1) * SPOOL_DATA_SIZE
          BY <4>2, <1>1, <1>2 DEF Places, Placed
      <4>4. ~(Len(list) - 1 >= 1)
        <5>1. Len(list) - 1 >= 1 => (Len(list) - 1) * SPOOL_DATA_SIZE >= SPOOL_DATA_SIZE
              /\ (Len(list) - 1) * SPOOL_DATA_SIZE \in Int
          <6>1. Len(list) - 1 \in Int
              BY <1>3
          <6> QED BY ONLY <6>1, PageFacts
        <5>2. PICK b : b = (Len(list) - 1) * SPOOL_DATA_SIZE
            OBVIOUS
        <5>3. /\ Len(list) - 1 >= 1 => b >= SPOOL_DATA_SIZE /\ b \in Int
              /\ g.offset > b
            BY <5>1, <5>2, <4>3, <1>2, Zenon
        <5> QED BY <5>3, <1>2, SizeFacts
      <4>5. Len(list') <= 1
          BY <4>4, <2>3, <1>3
      <4> QED BY <4>1, <4>5, <3>1, <2>2, <2>4 DEF Start
    <3>2. CASE q # <<>>
      <4>1. fifo'[1] = Moved(q[1]) /\ fifo' # <<>> /\ q[1] \in Records
          BY <3>2, <2>4, <1>3, TailOf
      <4>2. fifo'[1].pos = 0
        <5>1. Moved(q[1]).pos = q[1].pos - SPOOL_DATA_SIZE
            BY <4>1, MovedFacts
        <5> QED BY <5>1, <4>1, <3>2, <1>3, <1>6, SizeFacts
      <4> QED BY <4>1, <4>2, <2>2 DEF Start
    <3> QED BY <3>1, <3>2
  <2>9. Grabbing' /\ Appending'
      BY <1>1 DEF Grabbing, Appending
  <2> QED BY <2>5, <2>6, <2>7, <2>8, <2>9 DEF IndInv
<1> QED BY <1>5, <1>6

-----------------------------------------------------------------------------
(* spool_append_rec.                                                       *)

LEMMA CopyType ==
    ASSUME NEW p \in Pages, NEW o \in Int, NEW t \in Texts, NEW len \in Lengths,
           NEW i \in Int, NEW n \in Int, i + n <= len
    PROVE  Copy(p, o, t, i, n) \in Pages
<1>1. ASSUME NEW x \in Offsets, x \in o..(o + n - 1) PROVE Byte(t, i + x - o) \in Bytes
  <2>1. i + x - o \in Int /\ i + x - o <= len - 1 /\ len \in Nat
      BY <1>1, SizeFacts
  <2>2. CASE i + x - o >= 0
    <3>1. i + x - o \in 0..(len - 1)
        BY <2>1, <2>2
    <3>2. i + x - o \in UNION {0..(m - 1) : m \in Lengths}
        BY <3>1
    <3> DEFINE J == UNION {0..(m - 1) : m \in Lengths}
    <3> HIDE DEF J
    <3>3. i + x - o \in J
        BY <3>2 DEF J
    <3>4. Byte(t, i + x - o) \in {Byte(u, j) : u \in Texts, j \in J}
        BY <3>3
    <3> QED BY <3>4 DEF Bytes, J
  <2>3. CASE ~(i + x - o >= 0)
      BY <2>3 DEF Byte, Bytes
  <2> QED BY <2>2, <2>3
<1>2. ASSUME NEW x \in Offsets PROVE p[x] \in Bytes
    BY DEF Pages
<1> QED BY <1>1, <1>2 DEF Copy, Pages

\* A page that a record begins in, at offset o: what is in front stays, and the
\* length is there with as much of the text as fits.
LEMMA HeadPage ==
    ASSUME NEW p \in Pages, NEW o \in Offsets, o + 2 <= SPOOL_DATA_SIZE,
           NEW t \in Texts, NEW len \in Lengths \ {0},
           NEW n, n = IF len <= SPOOL_DATA_SIZE - o - 2 THEN len ELSE SPOOL_DATA_SIZE - o - 2
    PROVE  LET h == Copy(PutLength(p, o, len), o + 2, t, 0, n)
           IN  /\ h \in Pages
               /\ \A x \in Offsets : x < o => h[x] = p[x]
               /\ h[o] = Length(len)
               /\ o + 2 + len <= SPOOL_DATA_SIZE =>
                     \A x \in 0..(len - 1) : h[o + 2 + x] = Byte(t, x)
<1> DEFINE q == PutLength(p, o, len)
           h == Copy(q, o + 2, t, 0, n)
<1>1. o \in Int /\ o >= 0 /\ len \in Nat \ {0} /\ n \in Nat /\ n <= len /\ SPOOL_DATA_SIZE \in Int
    BY SizeFacts
<1>2. q \in Pages
  <2>1. Length(len) \in Bytes /\ Junk \in Bytes
      BY DEF Bytes
  <2>2. ASSUME NEW x \in Offsets PROVE p[x] \in Bytes
      BY DEF Pages
  <2> QED BY <2>1, <2>2 DEF PutLength, Pages
<1>3. \A x \in Offsets : q[x] = IF x = o THEN Length(len) ELSE IF x = o + 1 THEN Junk ELSE p[x]
    BY DEF PutLength
<1> HIDE DEF q
<1>4. h \in Pages
    BY <1>1, <1>2, CopyType
<1>5. \A x \in Offsets : h[x] = IF x \in (o + 2)..(o + 2 + n - 1)
                                THEN Byte(t, 0 + x - (o + 2)) ELSE q[x]
    BY DEF Copy
<1> HIDE DEF h
<1>6. ASSUME NEW x \in Offsets, x < o PROVE h[x] = p[x]
  <2>1. x # o /\ x # o + 1 /\ x \notin (o + 2)..(o + 2 + n - 1)
      BY <1>1, <1>6, SizeFacts
  <2> QED BY <2>1, <1>3, <1>5
<1>7. h[o] = Length(len)
  <2>1. o \notin (o + 2)..(o + 2 + n - 1)
      BY <1>1
  <2> QED BY <2>1, <1>3, <1>5
<1>8. ASSUME o + 2 + len <= SPOOL_DATA_SIZE, NEW x \in 0..(len - 1)
      PROVE  h[o + 2 + x] = Byte(t, x)
  <2>1. n = len
      BY <1>1, <1>8
  <2>2. /\ o + 2 + x \in Offsets /\ o + 2 + x \in (o + 2)..(o + 2 + n - 1)
        /\ 0 + (o + 2 + x) - (o + 2) = x
      BY <2>1, <1>1, <1>8, SizeFacts
  <2> QED BY <2>2, <1>5
<1> QED BY <1>4, <1>6, <1>7, <1>8 DEF h, q

LEMMA AppendRecInv ==
    ASSUME IndInv, NEW t \in Texts, NEW len \in Lengths, AppendRec(t, len)
    PROVE  IndInv'
<1> DEFINE left == SPOOL_DATA_SIZE - lrecoff
           n == Min({len, left - 2})
           last == list[Len(list)]
           p == Copy(PutLength(last, lrecoff, len), lrecoff + 2, t, 0, n)
           r == [pos |-> EndPos, len |-> len, text |-> t]
<1>1. /\ Types /\ Counts /\ Places /\ Start /\ pc = "idle" /\ len # 0 /\ pc' = "append"
      /\ UNCHANGED <<recs, pages, frecoff, lrecoff, g, held, got, fifo>>
      /\ g = NoGrab /\ a = NoAppend
    BY DEF IndInv, AppendRec, Types
<1>2. /\ Len(list) \in Nat /\ (list = <<>> <=> Len(list) = 0)
      /\ EndPos \in Int /\ EndPos >= 0 /\ EndPos % 2 = 0
      /\ (Len(list) - 1) * SPOOL_DATA_SIZE \in Int
      /\ list # <<>> => EndPos = (Len(list) - 1) * SPOOL_DATA_SIZE + lrecoff
      /\ lrecoff \in Int /\ 0 <= lrecoff /\ lrecoff <= SPOOL_DATA_SIZE
    BY <1>1, EndFacts
<1>3. /\ lrecoff % 2 = 0 /\ len \in Nat \ {0} /\ len \in Lengths \ {0} /\ pages = Len(list)
      /\ held = Len(list)
  <2>1. a.new = <<>> /\ Len(<<>>) = 0
      BY <1>1, NoLocals, EmptySeq
  <2> QED BY <2>1, <1>1, <1>2, SizeFacts DEF Types, Counts
<1>4. n = IF len <= SPOOL_DATA_SIZE - lrecoff - 2 THEN len ELSE SPOOL_DATA_SIZE - lrecoff - 2
  <2>1. left - 2 \in Int /\ left - 2 = SPOOL_DATA_SIZE - lrecoff - 2
      BY <1>2, SizeFacts
  <2> HIDE DEF left
  <2>2. n = IF len <= left - 2 THEN len ELSE left - 2
      BY <2>1, <1>3, MinFacts
  <2> QED BY <2>1, <2>2
<1>5. r \in Records /\ r.pos = EndPos /\ r.len = len /\ r.text = t
    BY <1>2, <1>3 DEF Records
<1> HIDE DEF r
<1>6. CASE pages # 0 /\ left >= 2
  <2>1. /\ list' = [list EXCEPT ![Len(list)] = p]
        /\ a' = [text |-> t, len |-> len, rlen |-> len + 2, copied |-> 2 + n,
                 loff |-> lrecoff + 2 + n, new |-> <<>>]
    <3> HIDE DEF n
    <3> QED BY <1>6 DEF AppendRec, n
  <2>2. list # <<>> /\ Len(list) \in 1..Len(list) /\ last \in Pages
        /\ lrecoff \in Offsets /\ lrecoff + 2 <= SPOOL_DATA_SIZE
    <3>1. list # <<>> /\ Len(list) \in 1..Len(list)
        BY <1>2, <1>3, <1>6
    <3>2. last \in Pages
        BY <3>1, <1>1, ElementOfSeq DEF Types
    <3> QED BY <3>1, <3>2, <1>2, <1>6, SizeFacts
  <2> HIDE DEF n, last
  <2>3. /\ p \in Pages
        /\ \A x \in Offsets : x < lrecoff => p[x] = last[x]
        /\ p[lrecoff] = Length(len)
        /\ lrecoff + 2 + len <= SPOOL_DATA_SIZE =>
              \A x \in 0..(len - 1) : p[lrecoff + 2 + x] = Byte(t, x)
      BY <2>2, <1>3, <1>4, HeadPage
  <2> HIDE DEF p
  <2>4. /\ list' \in Seq(Pages) /\ Len(list') = Len(list) /\ list'[Len(list)] = p
        /\ list' # <<>>
    <3>1. /\ list' \in Seq(Pages) /\ Len(list') = Len(list) /\ list'[Len(list)] = p
        BY <2>1, <2>2, <2>3, <1>1, ExceptSeq DEF Types
    <3> QED BY <3>1, <2>2, <1>2, EmptySeq
  <2>5. EndPos' = EndPos
      BY <2>2, <2>4, <1>1 DEF EndPos
  <2>6. Places'
    <3>1. lrecoff \in 0..SPOOL_DATA_SIZE /\ EndPos = (Len(list) - 1) * SPOOL_DATA_SIZE + lrecoff
        BY <2>2, <1>1, <1>2 DEF Types
    <3>2. Placed(list, fifo, (Len(list) - 1) * SPOOL_DATA_SIZE + lrecoff)
        BY <3>1, <1>1 DEF Places
    <3>3. Placed([list EXCEPT ![Len(list)] = p], fifo, (Len(list) - 1) * SPOOL_DATA_SIZE + lrecoff)
        BY <3>1, <3>2, <2>2, <2>3, <1>1, PlacedStays DEF Types, last
    <3>4. Placed(list', fifo, EndPos)
        BY <3>1, <3>3, <2>1, Zenon
    <3> QED BY <3>4, <2>5, <1>1 DEF Places
  <2>7. n \in Nat /\ n <= len /\ lrecoff + 2 + n <= SPOOL_DATA_SIZE
        /\ (n # len => lrecoff + 2 + n = SPOOL_DATA_SIZE)
      BY <2>2, <1>2, <1>3, <1>4, SizeFacts
  <2>8. /\ a'.text = t /\ a'.len = len /\ a'.rlen = len + 2 /\ a'.copied = 2 + n
        /\ a'.loff = lrecoff + 2 + n /\ a'.new = <<>> /\ a' \in AppendLocals
        /\ Len(a'.new) = 0
    <3>1. <<>> \in Seq(Pages) /\ Len(<<>>) = 0
        BY EmptySeq
    <3> QED BY <3>1, <2>1, <2>7, <1>2, <1>3 DEF AppendLocals
  <2>9. Appended' = r
      BY <2>5, <2>8 DEF Appended, r
  <2>10. Stored(list', r)
    <3>1. Len(list) \in 1..Len(list')
        BY <2>2, <2>4
    <3>2. r.pos = (Len(list) - 1) * SPOOL_DATA_SIZE + lrecoff
        BY <2>2, <1>2, <1>5
    <3>3. lrecoff + 2 + r.len <= SPOOL_DATA_SIZE => HasText(p, lrecoff, r)
        BY <2>3, <1>5 DEF HasText
    <3>4. StoredAt(list', r, Len(list), lrecoff)
        BY <3>2, <3>3, <2>3, <2>4, <1>5, Zenon DEF StoredAt
    <3> QED BY <3>1, <3>4, <2>2, Zenon DEF Stored
  <2>11. Stored(list' \o a'.new, Appended')
    <3>1. list' \o <<>> = list'
        BY <2>4, ConcatEmptySeq
    <3> QED BY <3>1, <2>8, <2>9, <2>10
  <2>12. EndPos' + a'.copied = (Len(list') + Len(a'.new) - 1) * SPOOL_DATA_SIZE + a'.loff
    <3>1. PICK b \in Int : b = (Len(list) - 1) * SPOOL_DATA_SIZE
        BY <1>2
    <3>2. (Len(list') + Len(a'.new) - 1) * SPOOL_DATA_SIZE = b /\ EndPos = b + lrecoff
      <4>1. Len(list') + Len(a'.new) - 1 = Len(list) - 1
          BY <2>4, <2>8, <1>2
      <4> QED BY <4>1, <3>1, <2>2, <1>2, Zenon
    <3>3. EndPos + (2 + n) = b + (lrecoff + 2 + n)
        BY <3>2, <2>7, <1>2
    <3> QED BY <3>2, <3>3, <2>5, <2>8, Zenon
  <2>13. Appending'
    <3>1. /\ a'.rlen = a'.len + 2 /\ a'.copied <= a'.rlen /\ a'.copied >= 2 /\ a'.copied # 0
          /\ a'.loff \in 1..SPOOL_DATA_SIZE
          /\ a'.copied # a'.rlen => a'.loff = SPOOL_DATA_SIZE
        BY <2>7, <2>8, <1>2, <1>3, SizeFacts
    <3>2. Appended' \in Records
        BY <2>9, <1>5
    <3> QED BY <3>1, <3>2, <2>11, <2>12, Zenon DEF Appending
  <2>14. Types' /\ Counts'
      BY <2>4, <2>8, <1>1, <1>3 DEF Types, Counts
  <2>15. Start' /\ Grabbing'
      BY <2>4, <2>5, <1>1 DEF Start, Grabbing
  <2> QED BY <2>6, <2>13, <2>14, <2>15 DEF IndInv
<1>7. CASE ~(pages # 0 /\ left >= 2)
  <2>1. /\ list' = list
        /\ a' = [text |-> t, len |-> len, rlen |-> len + 2, copied |-> 0,
                 loff |-> 0, new |-> <<>>]
      BY <1>7 DEF AppendRec
  <2>2. list = <<>> \/ lrecoff = SPOOL_DATA_SIZE
      BY <1>2, <1>3, <1>7, SizeFacts
  <2>3. EndPos' = EndPos /\ Places'
      BY <2>1, <1>1, FileKept
  <2>4. /\ a'.text = t /\ a'.len = len /\ a'.rlen = len + 2 /\ a'.copied = 0
        /\ a'.new = <<>> /\ a' \in AppendLocals /\ Len(a'.new) = 0
    <3>1. <<>> \in Seq(Pages) /\ Len(<<>>) = 0
        BY EmptySeq
    <3> QED BY <3>1, <2>1, <1>2, <1>3 DEF AppendLocals
  <2>5. Appended' \in Records
      BY <2>3, <2>4, <1>5 DEF Appended, r
  <2>6. Appending'
      BY <2>1, <2>2, <2>4, <2>5, <1>1, <1>3 DEF Appending
  <2>7. Types' /\ Counts'
      BY <2>1, <2>4, <1>1, <1>2, <1>3, SMTT(40) DEF Types, Counts
  <2>8. Start' /\ Grabbing'
      BY <2>1, <2>3, <1>1 DEF Start, Grabbing
  <2> QED BY <2>3, <2>6, <2>7, <2>8 DEF IndInv
<1> QED BY <1>6, <1>7

\* The page that AppendPage takes is the next one.
LEMMA AppendPageInv ==
    ASSUME IndInv, AppendPage
    PROVE  IndInv'
<1> DEFINE n == Min({a.len, SPOOL_DATA_SIZE - 2})
           more == Min({a.rlen - a.copied, SPOOL_DATA_SIZE})
           loff == IF a.copied = 0 THEN 2 + n ELSE more
           page == IF a.copied = 0
                   THEN Copy(PutLength(NewPage, 0, a.len), 2, a.text, 0, n)
                   ELSE Copy(NewPage, 0, a.text, 2 - a.copied, more)
           r == Appended
<1>1. /\ Types /\ Counts /\ Places /\ Start /\ Appending /\ pc = "append" /\ a.rlen # a.copied
      /\ held' = held + 1
      /\ UNCHANGED <<list, recs, pages, frecoff, lrecoff, pc, g, got, fifo>>
    BY DEF IndInv, AppendPage, file
<1>2. a' = [a EXCEPT !.new = Append(@, page), !.loff = loff, !.copied = @ + loff]
    BY Zenon DEF AppendPage
<1>3. /\ Len(list) \in Nat /\ list \in Seq(Pages)
      /\ EndPos \in Int
      /\ (Len(list) - 1) * SPOOL_DATA_SIZE \in Int
      /\ list # <<>> => EndPos = (Len(list) - 1) * SPOOL_DATA_SIZE + lrecoff
      /\ list = <<>> => EndPos = 0 /\ Len(list) = 0
    BY <1>1, EndFacts DEF Types
<1>4. /\ a \in AppendLocals /\ a.len \in Nat /\ a.rlen \in Nat /\ a.copied \in Nat
      /\ a.new \in Seq(Pages) /\ Len(a.new) \in Nat
    BY <1>1, LenProperties DEF Types, AppendLocals
<1>5. /\ r \in Records /\ a.len \in Lengths \ {0} /\ a.text \in Texts /\ a.len \in Nat \ {0}
      /\ r.pos = EndPos /\ r.len = a.len /\ r.text = a.text
  <2>1. r \in Records /\ r.pos = EndPos /\ r.len = a.len /\ r.text = a.text
      BY <1>1 DEF Appending, Appended
  <2> HIDE DEF r
  <2> QED BY <2>1, RecordFacts
<1>6. a.rlen = a.len + 2 /\ a.copied <= a.rlen
    BY <1>1 DEF Appending
<1>7. EndPos' = EndPos /\ Places' /\ r' = [pos |-> EndPos, len |-> a'.len, text |-> a'.text]
  <2>1. EndPos' = EndPos
      BY <1>1 DEF EndPos
  <2> QED BY <2>1, <1>1 DEF Places, Appended
<1>8. /\ n = IF a.len <= SPOOL_DATA_SIZE - 2 THEN a.len ELSE SPOOL_DATA_SIZE - 2
      /\ more = IF a.rlen - a.copied <= SPOOL_DATA_SIZE THEN a.rlen - a.copied ELSE SPOOL_DATA_SIZE
  <2>1. a.len \in Int /\ SPOOL_DATA_SIZE - 2 \in Int /\ SPOOL_DATA_SIZE \in Int
        /\ a.rlen - a.copied \in Int
      BY <1>4, SizeFacts
  <2> QED BY <2>1, MinFacts
<1>9. NewPage \in Pages
    BY DEF NewPage, Pages, Bytes
<1> HIDE DEF n, more, r
<1>10. /\ page \in Pages /\ loff \in 1..SPOOL_DATA_SIZE /\ a.copied + loff <= a.rlen
       /\ a.copied + loff # a.rlen => loff = SPOOL_DATA_SIZE
       /\ a.copied + loff >= 2
       /\ EndPos + a.copied + loff = (Len(list) + (Len(a.new) + 1) - 1) * SPOOL_DATA_SIZE + loff
       /\ Stored(list \o Append(a.new, page), r)
  <2>1. CASE a.copied = 0
    <3>1. /\ a.new = <<>> /\ (list = <<>> \/ lrecoff = SPOOL_DATA_SIZE) /\ Len(<<>>) = 0
        BY <2>1, <1>1, EmptySeq DEF Appending
    <3>2. loff = 2 + n /\ page = Copy(PutLength(NewPage, 0, a.len), 2, a.text, 0, n)
        BY <2>1
    <3>3. EndPos = Len(list) * SPOOL_DATA_SIZE
      <4>1. CASE list = <<>>
          BY <4>1, <1>3, SizeFacts
      <4>2. CASE list # <<>>
        <5>1. EndPos = (Len(list) - 1) * SPOOL_DATA_SIZE + SPOOL_DATA_SIZE
            BY <4>2, <3>1, <1>3
        <5> QED BY <5>1, <1>3, SizeFacts
      <4> QED BY <4>1, <4>2
    <3> HIDE DEF loff, page
    <3>4. /\ page \in Pages /\ page[0] = Length(a.len)
          /\ 0 + 2 + a.len <= SPOOL_DATA_SIZE =>
                \A x \in 0..(a.len - 1) : page[0 + 2 + x] = Byte(a.text, x)
      <4> DEFINE h == Copy(PutLength(NewPage, 0, a.len), 0 + 2, a.text, 0, n)
      <4>1. 0 \in Offsets /\ 0 + 2 <= SPOOL_DATA_SIZE /\ 0 + 2 = 2
          BY SizeFacts
      <4>2. n = IF a.len <= SPOOL_DATA_SIZE - 0 - 2 THEN a.len ELSE SPOOL_DATA_SIZE - 0 - 2
          BY <1>8, SizeFacts
      <4>3. /\ h \in Pages /\ h[0] = Length(a.len)
            /\ 0 + 2 + a.len <= SPOOL_DATA_SIZE =>
                  \A x \in 0..(a.len - 1) : h[0 + 2 + x] = Byte(a.text, x)
          BY <4>1, <4>2, <1>5, <1>9, HeadPage
      <4>4. page = h
          BY <4>1, <3>2
      <4> HIDE DEF h
      <4> QED BY <4>3, <4>4
    <3>5. Append(a.new, page) = <<page>> /\ <<page>> \in Seq(Pages) /\ Len(<<page>>) = 1
          /\ <<page>>[1] = page
        BY <3>1, <3>4
    <3>6. Stored(list \o <<page>>, r)
      <4>1. /\ Len(list \o <<page>>) = Len(list) + 1 /\ (list \o <<page>>)[Len(list) + 1] = page
            /\ Len(list) + 1 \in 1..Len(list \o <<page>>)
          BY <3>5, <1>3, ConcatProperties
      <4>2. r.pos = ((Len(list) + 1) - 1) * SPOOL_DATA_SIZE + 0
          BY <3>3, <1>3, <1>5
      <4>3. 0 + 2 + r.len <= SPOOL_DATA_SIZE => HasText(page, 0, r)
          BY <3>4, <1>5 DEF HasText
      <4>4. 0 \in Offsets
          BY SizeFacts
      <4>5. StoredAt(list \o <<page>>, r, Len(list) + 1, 0)
          BY <4>1, <4>2, <4>3, <3>4, <1>5, Zenon DEF StoredAt
      <4> QED BY <4>1, <4>4, <4>5, Zenon DEF Stored
    <3>7. EndPos + a.copied + loff = (Len(list) + (Len(a.new) + 1) - 1) * SPOOL_DATA_SIZE + loff
      <4>1. Len(list) + (Len(a.new) + 1) - 1 = Len(list)
          BY <3>1, <1>3
      <4>2. EndPos + a.copied + loff = EndPos + loff
          BY <2>1, <1>3
      <4> QED BY <4>1, <4>2, <3>3, Zenon
    <3>8. /\ loff \in 1..SPOOL_DATA_SIZE /\ a.copied + loff <= a.rlen
          /\ a.copied + loff # a.rlen => loff = SPOOL_DATA_SIZE
          /\ a.copied + loff >= 2
        BY <2>1, <3>2, <1>5, <1>6, <1>8, SizeFacts
    <3> QED BY <3>4, <3>5, <3>6, <3>7, <3>8, Zenon
  <2>2. CASE a.copied # 0
    <3>1. /\ a.copied >= 2 /\ a.loff = SPOOL_DATA_SIZE
          /\ EndPos + a.copied = (Len(list) + Len(a.new) - 1) * SPOOL_DATA_SIZE + a.loff
          /\ Stored(list \o a.new, r)
        BY <2>2, <1>1 DEF Appending, r
    <3>2. loff = more /\ page = Copy(NewPage, 0, a.text, 2 - a.copied, more)
        BY <2>2
    <3> HIDE DEF loff, page
    <3>3. /\ loff \in 1..SPOOL_DATA_SIZE /\ a.copied + loff <= a.rlen
          /\ a.copied + loff # a.rlen => loff = SPOOL_DATA_SIZE
          /\ a.copied + loff >= 2
      <4>1. /\ a.copied \in Int /\ a.rlen \in Int /\ a.copied < a.rlen /\ a.copied >= 2
            /\ SPOOL_DATA_SIZE \in Int /\ SPOOL_DATA_SIZE >= 2
          BY <3>1, <1>1, <1>4, <1>6, SizeFacts
      <4>2. loff = IF a.rlen - a.copied <= SPOOL_DATA_SIZE THEN a.rlen - a.copied
                   ELSE SPOOL_DATA_SIZE
          BY <3>2, <1>8
      <4> QED BY ONLY <4>1, <4>2
    <3>4. page \in Pages
      <4>1. 2 - a.copied \in Int /\ more \in Int /\ 2 - a.copied + more <= a.len
          BY <3>1, <3>2, <3>3, <1>4, <1>6, SizeFacts, SMTT(40)
      <4> QED BY <4>1, <3>2, <1>5, <1>9, CopyType
    <3>5. Stored(list \o Append(a.new, page), r)
        BY <3>1, <3>4, <1>3, <1>4, StoredAppends
    <3>6. EndPos + a.copied + loff = (Len(list) + (Len(a.new) + 1) - 1) * SPOOL_DATA_SIZE + loff
      <4>1. PICK k \in Int : k = Len(list) + Len(a.new) - 1
        <5>1. \A x, y \in Nat : x + y - 1 \in Int
            OBVIOUS
        <5> QED BY <5>1, <1>3, <1>4, Zenon
      <4>2. Len(list) + (Len(a.new) + 1) - 1 = k + 1
          BY <4>1, <1>3, <1>4
      <4>3. EndPos + a.copied = k * SPOOL_DATA_SIZE + SPOOL_DATA_SIZE
          BY <4>1, <3>1, Zenon
      <4>4. (k + 1) * SPOOL_DATA_SIZE = k * SPOOL_DATA_SIZE + SPOOL_DATA_SIZE
          BY PageFacts
      <4> QED BY <4>2, <4>3, <4>4, Zenon
    <3> QED BY <3>3, <3>4, <3>5, <3>6, Zenon
  <2> QED BY <2>1, <2>2
<1> HIDE DEF loff, page
<1>11. /\ a'.text = a.text /\ a'.len = a.len /\ a'.rlen = a.rlen /\ a'.copied = a.copied + loff
       /\ a'.loff = loff /\ a'.new = Append(a.new, page)
       /\ a' = [text |-> a'.text, len |-> a'.len, rlen |-> a'.rlen, copied |-> a'.copied,
                loff |-> a'.loff, new |-> a'.new]
    BY <1>2, <1>4 DEF AppendLocals
<1>12. a'.new \in Seq(Pages) /\ Len(a'.new) = Len(a.new) + 1 /\ a'.new # <<>>
    BY <1>4, <1>10, <1>11, AppendProperties, SMTT(40)
<1>13. a' \in AppendLocals
  <2>1. /\ a'.text \in Texts \cup {Junk} /\ a'.len \in Nat /\ a'.rlen \in Nat /\ a'.copied \in Nat
        /\ a'.loff \in Nat
      BY <1>4, <1>5, <1>10, <1>11, SizeFacts, SMTT(40)
  <2> QED BY <2>1, <1>11, <1>12, Zenon DEF AppendLocals
<1>14. Appended' = r
    BY <1>7, <1>11 DEF Appended, r
<1>15. Appending'
  <2>1. /\ a'.rlen = a'.len + 2 /\ a'.copied <= a'.rlen /\ a'.copied >= 2 /\ a'.copied # 0
        /\ a'.loff \in 1..SPOOL_DATA_SIZE
        /\ a'.copied # a'.rlen => a'.loff = SPOOL_DATA_SIZE
      BY <1>4, <1>6, <1>10, <1>11
  <2>2. EndPos' + a'.copied = (Len(list') + Len(a'.new) - 1) * SPOOL_DATA_SIZE + a'.loff
    <3>1. EndPos + (a.copied + loff) = EndPos + a.copied + loff
        BY <1>3, <1>4, <1>10
    <3> QED BY <3>1, <1>1, <1>7, <1>10, <1>11, <1>12, Zenon
  <2>3. Stored(list' \o a'.new, Appended') /\ Appended' \in Records
      BY <1>1, <1>5, <1>10, <1>11, <1>14, Zenon
  <2> QED BY <2>1, <2>2, <2>3, Zenon DEF Appending
<1>16. Types' /\ Counts'
    BY <1>1, <1>3, <1>4, <1>12, <1>13 DEF Types, Counts
<1>17. Start' /\ Grabbing'
    BY <1>1, <1>7 DEF Start, Grabbing
<1> QED BY <1>7, <1>15, <1>16, <1>17 DEF IndInv

LEMMA AppendFailInv ==
    ASSUME IndInv, AppendFail
    PROVE  IndInv'
<1>1. /\ Types /\ Counts /\ Places /\ Start /\ pc = "append" /\ pc' = "idle"
      /\ held' = held - Len(a.new) /\ a' = NoAppend
      /\ UNCHANGED <<list, recs, pages, frecoff, lrecoff, g, got, fifo>>
    BY DEF IndInv, AppendFail, file
<1>2. EndPos' = EndPos
    BY <1>1 DEF EndPos
<1>3. Places'
    BY <1>1, <1>2 DEF Places
<1>4. held' = Len(list) /\ a' \in AppendLocals /\ a'.new = <<>> /\ Len(<<>>) = 0
      /\ Len(list) \in Nat
  <2>1. Len(list) \in Nat /\ Len(a.new) \in Nat
      BY <1>1, LenProperties DEF Types, AppendLocals
  <2>2. a' \in AppendLocals /\ a'.new = <<>> /\ Len(<<>>) = 0
      BY <1>1, NoLocals, EmptySeq
  <2> QED BY <2>1, <2>2, <1>1 DEF Counts
<1>5. Types' /\ Counts'
    BY <1>1, <1>4 DEF Types, Counts
<1>6. Start' /\ Grabbing' /\ Appending'
    BY <1>1, <1>2 DEF Start, Grabbing, Appending
<1> QED BY <1>3, <1>5, <1>6 DEF IndInv

\* spool_append_rec has written the whole record: the file ends where the next
\* one will start.
LEMMA AppendEndInv ==
    ASSUME IndInv, AppendEnd
    PROVE  IndInv'
<1> DEFINE r == Appended
           m == a.new
<1>1. /\ Types /\ Counts /\ Places /\ Start /\ Appending /\ pc = "append" /\ a.rlen = a.copied
      /\ list' = list \o m /\ pages' = pages + Len(m) /\ recs' = recs + 1
      /\ lrecoff' = Align(a.loff) /\ fifo' = Append(fifo, r)
      /\ pc' = "idle" /\ a' = NoAppend /\ UNCHANGED <<frecoff, g, held, got>>
    BY DEF IndInv, AppendEnd, Appended
<1>2. /\ Len(list) \in Nat /\ EndPos \in Int /\ EndPos % 2 = 0 /\ list \in Seq(Pages)
      /\ fifo \in Seq(Records) /\ Len(fifo) \in Nat /\ m \in Seq(Pages) /\ Len(m) \in Nat
    BY <1>1, EndFacts, LenProperties DEF Types, AppendLocals
<1>3. /\ r \in Records /\ r.pos = EndPos /\ r.len = a.len
      /\ a.copied = a.len + 2
    BY <1>1 DEF Appending, Appended
<1>4. /\ r.pos \in Int /\ r.len \in Nat \ {0} /\ NextPos(r) = Align(r.pos + 2 + r.len)
    BY <1>2, <1>3, RecordFacts
<1>5. /\ a.loff \in 1..SPOOL_DATA_SIZE
      /\ EndPos + a.copied = (Len(list) + Len(m) - 1) * SPOOL_DATA_SIZE + a.loff
      /\ Stored(list \o m, r)
  <2>1. a.copied # 0
      BY <1>3, <1>4
  <2> QED BY <2>1, <1>1 DEF Appending
<1> HIDE DEF r, m
<1>6. PICK b \in Int : b = (Len(list) + Len(m) - 1) * SPOOL_DATA_SIZE /\ b % 2 = 0
  <2>1. \A x, y \in Nat : x + y - 1 \in Int
      OBVIOUS
  <2>2. Len(list) + Len(m) - 1 \in Int
      BY <2>1, <1>2, Zenon
  <2> QED BY ONLY <2>2, PageFacts
<1>7. r.pos + 2 + r.len = b + a.loff /\ a.loff \in Int /\ a.loff >= 1
  <2>1. EndPos + a.copied = b + a.loff
      BY <1>5, <1>6, Zenon
  <2>2. r.pos + 2 + r.len = EndPos + a.copied
    <3>1. \A x \in Int, y \in Nat : x + 2 + y = x + (y + 2)
        OBVIOUS
    <3>2. r.pos = EndPos /\ r.pos \in Int /\ r.len \in Nat /\ a.copied = r.len + 2
        BY <1>3, <1>4
    <3> QED BY <3>1, <3>2, Zenon
  <2> QED BY <2>1, <2>2, <1>5, SizeFacts
<1>8. r.pos + 2 + r.len > (Len(list) + Len(m) - 1) * SPOOL_DATA_SIZE
  <2>1. r.pos + 2 + r.len > b
      BY <1>7
  <2> QED BY <2>1, <1>6, Zenon
<1>9. /\ NextPos(r) = b + Align(a.loff) /\ Align(a.loff) \in Int /\ Align(a.loff) % 2 = 0
      /\ Align(a.loff) <= SPOOL_DATA_SIZE /\ Align(a.loff) >= 1
  <2>1. Align(b + a.loff) = b + Align(a.loff)
      BY <1>6, <1>7, AlignFacts
  <2>2. a.loff <= SPOOL_DATA_SIZE
      BY <1>5, SizeFacts
  <2>3. /\ Align(a.loff) \in Int /\ Align(a.loff) % 2 = 0
        /\ Align(a.loff) <= SPOOL_DATA_SIZE /\ a.loff <= Align(a.loff)
      BY <2>2, <1>7, AlignFacts
  <2>4. Align(a.loff) >= 1
      BY <2>3, <1>7
  <2>5. NextPos(r) = b + Align(a.loff)
      BY <2>1, <1>4, <1>7
  <2> QED BY <2>3, <2>4, <2>5
<1>10. /\ list' \in Seq(Pages) /\ Len(list') = Len(list) + Len(m) /\ list' # <<>>
  <2>1. list' \in Seq(Pages) /\ Len(list') = Len(list) + Len(m)
      BY <1>1, <1>2, ConcatProperties DEF m
  <2>2. Len(list \o m) # 0
    <3>1. PICK k \in 1..Len(list \o m) : TRUE
        BY <1>5 DEF Stored
    <3> QED BY <3>1
  <2> QED BY <2>1, <2>2, <1>1, EmptySeq DEF m
<1>11. EndPos' = NextPos(r)
  <2>1. EndPos' = (Len(list') - 1) * SPOOL_DATA_SIZE + lrecoff'
      BY <1>10 DEF EndPos
  <2>2. EndPos' = b + Align(a.loff)
    <3>1. (Len(list') - 1) * SPOOL_DATA_SIZE = b /\ lrecoff' = Align(a.loff)
        BY <1>1, <1>6, <1>10
    <3> QED BY <3>1, <2>1, Zenon
  <2> QED BY <2>2, <1>9
<1>12. Places'
  <2>1. Placed(list, fifo, r.pos) /\ r.pos % 2 = 0
      BY <1>1, <1>2, <1>3 DEF Places
  <2>2. Placed(list \o m, Append(fifo, r), NextPos(r))
      BY <2>1, <1>2, <1>3, <1>5, <1>8, PlacedAppends
  <2>3. list' = list \o m /\ fifo' = Append(fifo, r)
      BY <1>1 DEF r, m
  <2> QED BY <2>2, <2>3, <1>11 DEF Places
<1>13. /\ fifo' \in Seq(Records) /\ Len(fifo') = Len(fifo) + 1 /\ fifo' # <<>>
       /\ fifo'[1] = IF fifo = <<>> THEN r ELSE fifo[1]
  <2>1. /\ fifo' \in Seq(Records) /\ Len(fifo') = Len(fifo) + 1 /\ fifo' # <<>>
        /\ \A i \in 1..Len(fifo) : fifo'[i] = fifo[i]
        /\ fifo'[Len(fifo) + 1] = r
    <3>1. fifo' = Append(fifo, r)
        BY <1>1 DEF r
    <3>2. PICK q \in Seq(Records) : q = fifo
        BY <1>2
    <3>3. /\ Append(q, r) \in Seq(Records) /\ Len(Append(q, r)) = Len(q) + 1 /\ Append(q, r) # <<>>
          /\ \A i \in 1..Len(q) : Append(q, r)[i] = q[i]
          /\ Append(q, r)[Len(q) + 1] = r
        BY <1>3, AppendProperties
    <3> QED BY <3>1, <3>2, <3>3, Zenon
  <2>2. fifo = <<>> => Len(fifo) = 0
      BY EmptySeq
  <2>3. fifo # <<>> => 1 \in 1..Len(fifo)
      BY <1>2, EmptySeq
  <2> QED BY <2>1, <2>2, <2>3
<1>14. a' \in AppendLocals /\ a'.new = <<>> /\ Len(<<>>) = 0
    BY <1>1, NoLocals, EmptySeq
<1>15. Types'
  <2>1. lrecoff' \in 0..SPOOL_DATA_SIZE /\ lrecoff' % 2 = 0
      BY <1>1, <1>9, SizeFacts
  <2> QED BY <2>1, <1>1, <1>10, <1>13, <1>14 DEF Types
<1>16. Counts'
  <2>1. held = Len(list) + Len(m)
      BY <1>1 DEF Counts, m
  <2>2. pages' = Len(list')
      BY <1>1, <1>10 DEF Counts, m
  <2> QED BY <2>1, <2>2, <1>1, <1>2, <1>10, <1>13, <1>14 DEF Counts
<1>17. Start'
  <2>1. fifo = <<>> => EndPos = frecoff
      BY <1>1 DEF Start
  <2>2. fifo # <<>> => fifo[1].pos = frecoff
      BY <1>1 DEF Start
  <2>3. fifo'[1].pos = frecoff'
      BY <2>1, <2>2, <1>1, <1>3, <1>13
  <2> QED BY <2>3, <1>13 DEF Start
<1>18. Grabbing' /\ Appending'
    BY <1>1 DEF Grabbing, Appending
<1> QED BY <1>12, <1>15, <1>16, <1>17, <1>18 DEF IndInv

-----------------------------------------------------------------------------
(* What is proved of every behaviour.                                      *)

\* The invariant: the records are in the pages, one behind the other, and each
\* call is where the page and the record say that it is.
THEOREM Invariance == Spec => []IndInv
<1>1. Init => IndInv
    BY InitInv
<1>2. IndInv /\ [Next]_vars => IndInv'
  <2> SUFFICES ASSUME IndInv, [Next]_vars PROVE IndInv'
      OBVIOUS
  <2>1. CASE UNCHANGED vars
    <3>1. UNCHANGED <<list, recs, pages, frecoff, lrecoff, pc, g, a, held, got, fifo>>
        BY <2>1 DEF vars
    <3>2. EndPos' = EndPos /\ Appended' = Appended
        BY <3>1 DEF EndPos, Appended
    <3>3. Types' /\ Counts' /\ Places' /\ Start'
        BY <3>1, <3>2 DEF IndInv, Types, Counts, Places, Start
    <3>4. Grabbing'
        BY <3>1 DEF IndInv, Grabbing, GrabbingOf
    <3>5. Appending'
        BY <3>1, <3>2 DEF IndInv, Appending
    <3> QED BY <3>3, <3>4, <3>5 DEF IndInv
  <2>2. CASE Next
      BY <2>2, GrabRecInv, GrabCopyInv, GrabEndInv, AppendRecInv, AppendPageInv, AppendFailInv,
         AppendEndInv DEF Next
  <2> QED BY <2>1, <2>2
<1> QED BY <1>1, <1>2, PTL DEF Spec

\* The types, and what the BUG_ONs of spool.c check: offsets stay even and in the
\* page, and no call copies more than the record has.
THEOREM TypeCorrect == Spec => []TypeOK
<1>1. IndInv => TypeOK
  <2> SUFFICES ASSUME IndInv PROVE TypeOK
      OBVIOUS
  <2>1. Types /\ Counts /\ Grabbing /\ Appending
      BY DEF IndInv
  <2>2. Len(list) \in Nat /\ Len(fifo) \in Nat /\ Len(a.new) \in Nat
      BY <2>1, LenProperties DEF Types, AppendLocals
  <2>3. recs \in Nat /\ pages \in Nat /\ held \in Nat
      BY <2>1, <2>2 DEF Counts
  <2>4. /\ g.copied <= g.rlen /\ g.processed <= g.reclen + 2
        /\ g.left + g.offset \in {0, SPOOL_DATA_SIZE}
    <3>1. CASE pc # "grab"
        BY <3>1, <2>1 DEF Types, NoGrab
    <3>2. CASE pc = "grab"
      <4>1. /\ g.copied \in Nat /\ g.rlen \in Nat /\ g.processed \in Nat /\ g.offset \in Nat
          BY <2>1 DEF Types, GrabLocals
      <4>2. /\ g.copied = (IF g.processed <= g.rlen THEN g.processed ELSE g.rlen)
            /\ g.reclen = fifo[1].len /\ g.processed \in 2..(fifo[1].len + 2)
            /\ g.left = SPOOL_DATA_SIZE - g.offset
          BY <3>2, <2>1 DEF Grabbing, GrabbingOf
      <4>3. fifo[1].len \in Nat
        <5>1. fifo[1] \in Records
            BY <3>2, <2>1, TailOf DEF Types, Grabbing
        <5> QED BY <5>1, RecordFacts
      <4> QED BY <4>1, <4>2, <4>3, SizeFacts
    <3> QED BY <3>1, <3>2
  <2>5. a.copied <= a.rlen
    <3>1. CASE pc # "append"
        BY <3>1, <2>1 DEF Types, NoAppend
    <3>2. CASE pc = "append"
        BY <3>2, <2>1 DEF Appending
    <3> QED BY <3>1, <3>2
  <2>6. list \in Seq([Offsets -> Bytes]) /\ frecoff \in 0..(SPOOL_DATA_SIZE - 1)
        /\ lrecoff \in 0..SPOOL_DATA_SIZE /\ lrecoff % 2 = 0 /\ pc \in {"idle", "grab", "append"}
      BY <2>1, SizeFacts DEF Types, Pages
  <2> QED BY <2>3, <2>4, <2>5, <2>6 DEF TypeOK
<1> QED BY <1>1, Invariance, PTL

\* Between two calls the records of a spool file follow one another from frecoff
\* to lrecoff, each behind its length, whatever was appended, read and given up.
THEOREM RecordsAreTiled == Spec => []Tiled
<1>1. IndInv => Tiled
  <2> SUFFICES ASSUME IndInv, pc = "idle"
               PROVE  /\ recs = Len(fifo)
                      /\ fifo # <<>> => fifo[1].pos = frecoff
                      /\ \A i \in 1..Len(fifo) :
                            /\ NextPos(fifo[i]) = IF i < Len(fifo) THEN fifo[i + 1].pos ELSE EndPos
                            /\ list[1 + (fifo[i].pos \div SPOOL_DATA_SIZE)]
                                   [fifo[i].pos % SPOOL_DATA_SIZE] = Length(fifo[i].len)
      BY DEF Tiled
  <2>1. Types /\ Counts /\ Places /\ Start
      BY DEF IndInv
  <2>2. recs = Len(fifo) /\ (fifo # <<>> => fifo[1].pos = frecoff)
      BY <2>1 DEF Counts, Start
  <2>3. ASSUME NEW i \in 1..Len(fifo)
        PROVE  NextPos(fifo[i]) = IF i < Len(fifo) THEN fifo[i + 1].pos ELSE EndPos
      BY <2>1 DEF Places, Placed, Chain
  <2>4. ASSUME NEW i \in 1..Len(fifo)
        PROVE  list[1 + (fifo[i].pos \div SPOOL_DATA_SIZE)]
                   [fifo[i].pos % SPOOL_DATA_SIZE] = Length(fifo[i].len)
    <3>1. Len(fifo) \in Nat /\ 1 \in 1..Len(fifo) /\ fifo # <<>> /\ fifo[1] \in Records
          /\ fifo[i] \in Records
        BY <2>1, LenProperties, ElementOfSeq, EmptySeq DEF Types
    <3>2. fifo[1].pos \in Int /\ fifo[1].pos >= 0
        BY <3>1, <2>1, <2>2, SizeFacts DEF Types
    <3>3. fifo[i].pos >= 0
      <4>1. CASE i = 1
          BY <4>1, <3>2
      <4>2. CASE i # 1
        <5>1. NextPos(fifo[1]) <= fifo[i].pos
            BY <4>2, <3>1, <2>1 DEF Places, Placed, Chain
        <5>2. /\ NextPos(fifo[1]) >= fifo[1].pos + 2 + fifo[1].len /\ fifo[1].len \in Nat
              /\ NextPos(fifo[1]) \in Int /\ fifo[i].pos \in Int
            BY <3>1, RecordFacts
        <5> QED BY <5>1, <5>2, <3>2
      <4> QED BY <4>1, <4>2
    <3>4. Stored(list, fifo[i])
        BY <3>3, <2>1 DEF Places, Placed
    <3> QED BY <3>4, <2>1, StoredLength DEF Types
  <2> QED BY <2>2, <2>3, <2>4
<1> QED BY <1>1, Invariance, PTL

\* No page is lost: every page that was taken is on the list or about to be, and
\* between two calls each holds a part of a record.
THEOREM PagesAreAccountedFor == Spec => []NoPageLost
<1>1. IndInv => NoPageLost
  <2> SUFFICES ASSUME IndInv PROVE NoPageLost
      OBVIOUS
  <2>1. Types /\ Counts /\ Places /\ Start
      BY DEF IndInv
  <2>2. frecoff < SPOOL_DATA_SIZE
      BY <2>1, SizeFacts DEF Types
  <2>3. pc = "idle" => IF fifo = <<>> THEN Len(list) <= 1 ELSE fifo[1].pos = frecoff
      BY <2>1 DEF Start
  <2>4. fifo # <<>> =>
          fifo[Len(fifo)].pos + 2 + fifo[Len(fifo)].len > (Len(list) - 1) * SPOOL_DATA_SIZE
      BY <2>1 DEF Places, Placed
  <2> QED BY <2>1, <2>2, <2>3, <2>4 DEF NoPageLost, Counts
<1> QED BY <1>1, Invariance, PTL

\* A record in a single page comes out of spool_grab_rec as it went into
\* spool_append_rec, as much of it as the buffer holds.
THEOREM UnsplitRecordsIntact == Spec => UnsplitIntact
<1> DEFINE A == got' # got =>
                  LET r == got'[4]
                  IN  frecoff + 2 + r.len <= SPOOL_DATA_SIZE => IsText(got'[3], r)
<1>1. IndInv /\ [Next]_vars => [A]_vars
  <2> SUFFICES ASSUME IndInv, Next PROVE A
      OBVIOUS
  <2>1. CASE GrabEnd
    <3>1. pc = "grab" /\ got' = <<g.want, g.copied - 2, g.buf, Head(fifo)>>
        BY <2>1 DEF GrabEnd
    <3>2. fifo # <<>> /\ GrabbingOf(fifo[1]) /\ fifo \in Seq(Records)
        BY <3>1 DEF IndInv, Grabbing, Types
    <3>3. Head(fifo) = fifo[1]
        BY <3>2, TailOf
    <3>4. got'[3] = g.buf /\ got'[4] = fifo[1]
        BY <3>1, <3>3
    <3> QED BY <3>2, <3>4 DEF GrabbingOf
  <2>2. CASE got' = got
      BY <2>2
  <2> QED BY <2>1, <2>2 DEF Next, GrabRec, GrabCopy, AppendRec, AppendPage, AppendFail, AppendEnd
<1> QED BY <1>1, Invariance, PTL DEF Spec, UnsplitIntact

-----------------------------------------------------------------------------
(* A spool file implements RecordFifo.                                     *)

LensOf(q) == [i \in DOMAIN q |-> q[i].len]

LEMMA LensFacts ==
    ASSUME NEW q \in Seq(Records)
    PROVE  /\ LensOf(q) \in Seq(Nat) /\ Len(LensOf(q)) = Len(q) /\ Len(q) \in Nat
           /\ \A i \in 1..Len(q) : LensOf(q)[i] = q[i].len
           /\ q # <<>> => LensOf(q) # <<>> /\ Head(LensOf(q)) = q[1].len
<1>1. Len(q) \in Nat /\ DOMAIN q = 1..Len(q) /\ \A i \in 1..Len(q) : q[i] \in Records
    BY LenProperties, ElementOfSeq
<1>2. \A i \in 1..Len(q) : q[i].len \in Nat
    BY <1>1, RecordFacts
<1>3. LensOf(q) = [i \in 1..Len(q) |-> q[i].len]
    BY <1>1, Zenon DEF LensOf
<1>4. LensOf(q) \in [1..Len(q) -> Nat]
    BY <1>2, <1>3
<1>5. LensOf(q) \in Seq(Nat) /\ Len(LensOf(q)) = Len(q)
    BY <1>1, <1>4
<1>6. \A i \in 1..Len(q) : LensOf(q)[i] = q[i].len
    BY <1>3
<1>7. ASSUME q # <<>> PROVE LensOf(q) # <<>> /\ Head(LensOf(q)) = q[1].len
  <2>1. Len(q) \in Nat \ {0} /\ 1 \in 1..Len(q)
      BY <1>7, EmptySeq
  <2>2. LensOf(q) # <<>>
      BY <2>1, <1>5, EmptySeq
  <2> QED BY <2>1, <2>2, <1>5, <1>6, TailOf
<1> QED BY <1>1, <1>5, <1>6, <1>7

LEMMA LensOfShift ==
    ASSUME NEW q \in Seq(Records)
    PROVE  LensOf(Shift(q)) = LensOf(q)
<1> DEFINE s == Shift(q)
<1>1. s \in Seq(Records) /\ Len(s) = Len(q) /\ \A i \in 1..Len(q) : s[i] = Moved(q[i])
    BY ShiftFacts
<1> HIDE DEF s
<1>2. ASSUME NEW i \in 1..Len(q) PROVE LensOf(s)[i] = LensOf(q)[i]
  <2>1. q[i] \in Records /\ s[i].len = q[i].len
      BY <1>1, ElementOfSeq, MovedFacts
  <2> QED BY <2>1, <1>1, LensFacts
<1>3. /\ LensOf(s) \in Seq(Nat) /\ LensOf(q) \in Seq(Nat)
      /\ Len(LensOf(s)) = Len(q) /\ Len(LensOf(q)) = Len(q)
    BY <1>1, LensFacts
<1>4. LensOf(s) = LensOf(q)
    BY <1>2, <1>3, SeqEqual
<1> QED BY <1>4 DEF s

LEMMA LensOfTail ==
    ASSUME NEW q \in Seq(Records), q # <<>>
    PROVE  LensOf(Tail(q)) = Tail(LensOf(q))
<1> DEFINE s == Tail(q)
           l == LensOf(q)
<1>1. /\ s \in Seq(Records) /\ Len(s) = Len(q) - 1 /\ Len(q) \in Nat \ {0}
      /\ \A i \in 1..(Len(q) - 1) : s[i] = q[i + 1]
    BY TailOf
<1>2. /\ l \in Seq(Nat) /\ l # <<>> /\ Len(l) = Len(q) /\ \A i \in 1..Len(q) : l[i] = q[i].len
    BY LensFacts
<1> HIDE DEF s, l
<1>3. /\ Tail(l) \in Seq(Nat) /\ Len(Tail(l)) = Len(q) - 1
      /\ \A i \in 1..(Len(q) - 1) : Tail(l)[i] = l[i + 1]
    BY <1>2, TailOf
<1>4. /\ LensOf(s) \in Seq(Nat) /\ Len(LensOf(s)) = Len(q) - 1
      /\ \A i \in 1..(Len(q) - 1) : LensOf(s)[i] = s[i].len
    BY <1>1, LensFacts
<1>5. ASSUME NEW i \in 1..(Len(q) - 1) PROVE LensOf(s)[i] = Tail(l)[i]
  <2>1. i + 1 \in 1..Len(q)
      BY <1>1
  <2>2. LensOf(s)[i] = q[i + 1].len
      BY <1>1, <1>4
  <2>3. Tail(l)[i] = q[i + 1].len
      BY <2>1, <1>2, <1>3
  <2> QED BY <2>2, <2>3
<1>6. LensOf(s) = Tail(l)
    BY <1>3, <1>4, <1>5, SeqEqual
<1> QED BY <1>6 DEF s, l

LEMMA LensOfAppend ==
    ASSUME NEW q \in Seq(Records), NEW r \in Records
    PROVE  LensOf(Append(q, r)) = Append(LensOf(q), r.len)
<1> DEFINE s == Append(q, r)
           l == LensOf(q)
           m == Append(l, r.len)
<1>1. /\ s \in Seq(Records) /\ Len(s) = Len(q) + 1 /\ s[Len(q) + 1] = r
      /\ \A i \in 1..Len(q) : s[i] = q[i]
    BY AppendProperties
<1>2. /\ l \in Seq(Nat) /\ Len(l) = Len(q) /\ Len(q) \in Nat /\ \A i \in 1..Len(q) : l[i] = q[i].len
    BY LensFacts
<1>3. r.len \in Nat
    BY RecordFacts
<1> HIDE DEF s, l
<1>4. /\ m \in Seq(Nat) /\ Len(m) = Len(q) + 1 /\ m[Len(q) + 1] = r.len
      /\ \A i \in 1..Len(q) : m[i] = l[i]
    BY <1>2, <1>3, AppendProperties
<1> HIDE DEF m
<1>5. /\ LensOf(s) \in Seq(Nat) /\ Len(LensOf(s)) = Len(q) + 1
      /\ \A i \in 1..(Len(q) + 1) : LensOf(s)[i] = s[i].len
    BY <1>1, LensFacts
<1>6. ASSUME NEW i \in 1..(Len(q) + 1) PROVE LensOf(s)[i] = m[i]
  <2>1. CASE i \in 1..Len(q)
      BY <2>1, <1>1, <1>2, <1>4, <1>5, ZenonT(60)
  <2>2. CASE i = Len(q) + 1
      BY <2>2, <1>1, <1>4, <1>5
  <2> QED BY <2>1, <2>2, <1>2
<1>7. LensOf(s) = m
    BY <1>4, <1>5, <1>6, SeqEqual
<1> QED BY <1>7 DEF s, m, l

\* Every behaviour of a spool file is one of the queue its users rely on: records
\* come out in order, once each, with their lengths cut to the buffer.
THEOREM Refinement == Spec => ImplementsRecordFifo
<1> DEFINE out == <<got[1], got[2]>>
<1>1. Init => Fifo!Init
  <2> SUFFICES ASSUME Init PROVE Lens = <<>> /\ out = <<0, 0>>
      BY DEF Fifo!Init
  <2>1. fifo = <<>> /\ got = <<0, 0, <<>>, NoRecord>>
      BY DEF Init
  <2>2. Lens = <<>>
      BY <2>1 DEF Lens
  <2> QED BY <2>1, <2>2
<1>2. IndInv /\ [Next]_vars => [Fifo!Next]_<<Lens, out>>
  <2> SUFFICES ASSUME IndInv, [Next]_vars PROVE Fifo!Next \/ (Lens' = Lens /\ out' = out)
      OBVIOUS
  <2>0. fifo \in Seq(Records) /\ Lens = LensOf(fifo) /\ Lens' = LensOf(fifo')
      BY DEF IndInv, Types, Lens, LensOf
  <2>1. CASE UNCHANGED <<fifo, got>>
      BY <2>1 DEF Lens
  <2>2. CASE GrabCopy
    <3>1. got' = got /\ fifo' \in {fifo, Shift(fifo)}
        BY <2>2 DEF GrabCopy
    <3> QED BY <3>1, <2>0, LensOfShift
  <2>3. CASE GrabEnd
    <3> DEFINE r == fifo[1]
    <3>1. /\ pc = "grab" /\ g.processed = g.reclen + 2
          /\ got' = <<g.want, g.copied - 2, g.buf, Head(fifo)>>
          /\ fifo' \in {Tail(fifo), Shift(Tail(fifo))}
        BY <2>3 DEF GrabEnd
    <3>2. fifo # <<>> /\ GrabbingOf(r) /\ r \in Records /\ Tail(fifo) \in Seq(Records)
        BY <3>1, TailOf DEF IndInv, Grabbing, Types
    <3>3. Lens' = Tail(Lens) /\ Lens # <<>> /\ Head(Lens) = r.len
        BY <3>1, <3>2, <2>0, LensOfTail, LensOfShift, LensFacts
    <3>4. g.want \in Wants /\ g.copied - 2 = Min({g.want, r.len})
      <4>1. /\ g.want \in Wants /\ g.reclen = r.len /\ g.rlen = Min({g.want, r.len}) + 2
            /\ g.copied = IF g.processed <= g.rlen THEN g.processed ELSE g.rlen
          BY <3>2 DEF GrabbingOf
      <4>2. g.want \in Nat /\ r.len \in Nat /\ g.rlen \in Nat
          BY <4>1, <3>2, RecordFacts DEF IndInv, Types, GrabLocals
      <4>3. Min({g.want, r.len}) = IF g.want <= r.len THEN g.want ELSE r.len
          BY <4>2, MinFacts
      <4> HIDE DEF r
      <4> QED BY <4>1, <4>2, <4>3, <3>1, SMTT(40)
    <3>5. out' = <<g.want, Min({g.want, Head(Lens)})>>
        BY <3>1, <3>3, <3>4
    <3>6. Fifo!Grab(g.want)
        BY <3>3, <3>5 DEF Fifo!Grab, Fifo!Min, Min
    <3> QED BY <3>4, <3>6 DEF Fifo!Next
  <2>4. CASE AppendEnd
    <3>1. /\ pc = "append" /\ got' = got /\ fifo' = Append(fifo, Appended)
        BY <2>4 DEF AppendEnd, Appended
    <3>2. Appended \in Records /\ Appended.len = a.len
        BY <3>1 DEF IndInv, Appending, Appended
    <3>3. a.len \in Lengths
        BY <3>2, RecordFacts
    <3>4. Lens' = Append(Lens, a.len)
        BY <3>1, <3>2, <2>0, LensOfAppend
    <3> QED BY <3>1, <3>3, <3>4 DEF Fifo!Next, Fifo!Add
  <2> QED BY <2>1, <2>2, <2>3, <2>4 DEF Next, vars, GrabRec, AppendRec, AppendPage, AppendFail, file
<1> QED BY <1>1, <1>2, Invariance, PTL DEF Spec, ImplementsRecordFifo, Fifo!Spec
=============================================================================
