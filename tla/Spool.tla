------------------------------- MODULE Spool -------------------------------
(***************************************************************************)
(* A spool file (cp/fs/spool.c): a queue of records of 1 to 65535 bytes,   *)
(* each with a two-byte length in front, packed into a list of pages.      *)
(* Records start at even offsets, so a length is never split; the data of  *)
(* a record may be, over any number of pages.                              *)
(*                                                                         *)
(* f->lock is held throughout spool_grab_rec and spool_append_rec, so one  *)
(* call is in progress at a time.  Each iteration of their loops is a      *)
(* step: alloc_pages may fail in any of them.                              *)
(*                                                                         *)
(* fifo is a history variable: the records in the file and where they      *)
(* start, counted from the first byte of the first page.                   *)
(***************************************************************************)
EXTENDS Integers, Sequences, FiniteSetsExt

CONSTANTS
    SPOOL_DATA_SIZE,    \* bytes of a page that hold records
    Lengths,            \* the lengths of records callers append
    Wants,              \* the sizes of buffers callers read into
    Texts,              \* what callers append
    MaxRecs             \* bound: records in the file

\* The code checks the parity with BUG_ON.
ASSUME SizeAssumption ==
    /\ SPOOL_DATA_SIZE \in Nat \ {0} /\ SPOOL_DATA_SIZE % 2 = 0
    /\ Lengths \subseteq Nat /\ Wants \subseteq Nat /\ MaxRecs \in Nat

VARIABLES
    list,       \* f->list: the pages, functions from offsets to bytes
    recs,       \* f->recs
    pages,      \* f->pages
    frecoff,    \* f->frecoff: start of the first record in the first page
    lrecoff,    \* f->lrecoff: end of the last record in the last page
    pc,         \* idle, or the call that holds f->lock: grab, append
    g,          \* the locals of spool_grab_rec
    a,          \* the locals of spool_append_rec
    held,       \* pages taken from the page allocator and not given back
    got,        \* the last record read: <<want, length, bytes, record>>
    fifo        \* history: the records in the file

file == <<list, recs, pages, frecoff, lrecoff>>
vars == <<list, recs, pages, frecoff, lrecoff, pc, g, a, held, got, fifo>>

\* A byte is part of a length, byte i of a text, or anything.  The first byte
\* of a length stands for the length.
Junk == <<"junk">>
Length(n) == <<"length", n>>
Byte(t, i) == IF i >= 0 THEN <<"byte", t, i>> ELSE Junk     \* before the buffer

Offsets == 0..(SPOOL_DATA_SIZE - 1)
NewPage == [o \in Offsets |-> Junk]
At(l, o) == IF l # <<>> /\ o \in Offsets THEN l[1][o] ELSE Junk
Align(o) == o + (o % 2)

NoGrab == [want |-> 0, reclen |-> 0, rlen |-> 0, copied |-> 0, processed |-> 0,
           offset |-> 0, left |-> 0, buf |-> <<>>]
NoAppend == [text |-> Junk, len |-> 0, rlen |-> 0, copied |-> 0, loff |-> 0,
             new |-> <<>>]
NoRecord == [pos |-> 0, len |-> 0, text |-> Junk]

\* alloc_spool.
Init ==
    /\ list = <<>> /\ recs = 0 /\ pages = 0 /\ frecoff = 0 /\ lrecoff = 0
    /\ pc = "idle" /\ g = NoGrab /\ a = NoAppend
    /\ held = 0 /\ got = <<0, 0, <<>>, NoRecord>> /\ fifo = <<>>

-----------------------------------------------------------------------------
(* spool_grab_rec.                                                         *)

\* The first page is gone: what follows moves forward.
Shift(q) == [i \in DOMAIN q |-> [q[i] EXCEPT !.pos = @ - SPOOL_DATA_SIZE]]

\* The length at the start of the first record, or whatever is there.
LengthsAt(l, o) ==
    IF At(l, o)[1] = "length" THEN {At(l, o)[2]} ELSE Lengths \cup {0}

\* Mutant of GrabRec: what does not fit into the buffer stays in the file.
GrabRecCut(want) ==
    /\ pc = "idle"
    /\ want # 0 /\ recs # 0
    /\ pc' = "grab"
    /\ \E n \in LengthsAt(list, frecoff) :
          LET reclen == Min({want, n})
          IN  g' = [want |-> want, reclen |-> reclen,
                    rlen |-> reclen + 2, copied |-> 2, processed |-> 2,
                    offset |-> frecoff + 2, left |-> SPOOL_DATA_SIZE - frecoff - 2,
                    buf |-> <<>>]
    /\ UNCHANGED <<file, a, held, got, fifo>>

\* Mutant of GrabRec: the data starts at the length.
GrabRecNoHeader(want) ==
    /\ pc = "idle"
    /\ want # 0 /\ recs # 0
    /\ pc' = "grab"
    /\ \E reclen \in LengthsAt(list, frecoff) :
          g' = [want |-> want, reclen |-> reclen,
                rlen |-> Min({want, reclen}) + 2, copied |-> 2, processed |-> 2,
                offset |-> frecoff, left |-> SPOOL_DATA_SIZE - frecoff,
                buf |-> <<>>]
    /\ UNCHANGED <<file, a, held, got, fifo>>

\* EINVAL and ENOENT leave everything as it is.
GrabRec(want) ==
    /\ pc = "idle"
    /\ want # 0 /\ recs # 0
    /\ pc' = "grab"
    /\ \E reclen \in LengthsAt(list, frecoff) :
          g' = [want |-> want, reclen |-> reclen,
                rlen |-> Min({want, reclen}) + 2, copied |-> 2, processed |-> 2,
                offset |-> frecoff + 2, left |-> SPOOL_DATA_SIZE - frecoff - 2,
                buf |-> <<>>]
    /\ UNCHANGED <<file, a, held, got, fifo>>

\* list_del, free_pages and f->pages-- for the first page, if cond.
FreeFirstIf(cond) ==
    IF cond /\ list # <<>>
    THEN /\ list' = Tail(list) /\ pages' = pages - 1 /\ held' = held - 1
    ELSE UNCHANGED <<list, pages, held>>

\* One turn of the loop: to the next page if this one is used up, then copy
\* into the caller's buffer, or skip what does not fit into it.
GrabCopy ==
    /\ pc = "grab"
    /\ g.processed # g.reclen + 2
    /\ FreeFirstIf(g.left = 0)
    /\ LET offset == IF g.left = 0 THEN 0 ELSE g.offset
           left == IF g.left = 0 THEN SPOOL_DATA_SIZE ELSE g.left
           copying == g.rlen # g.copied
           tmp == Min({left, IF copying THEN g.rlen - g.copied
                                        ELSE g.reclen - g.processed + 2})
       IN  g' = [g EXCEPT
                   !.copied = IF copying THEN @ + tmp ELSE @,
                   !.buf = IF copying
                           THEN @ \o [i \in 1..tmp |-> At(list', offset + i - 1)]
                           ELSE @,
                   !.processed = @ + tmp, !.left = left - tmp, !.offset = offset + tmp]
    /\ fifo' = IF g.left = 0 THEN Shift(fifo) ELSE fifo
    /\ UNCHANGED <<recs, frecoff, lrecoff, pc, a, got>>

\* Mutant of GrabEnd: the offset is not aligned.
GrabEndUnaligned ==
    /\ pc = "grab"
    /\ g.processed = g.reclen + 2
    /\ LET full == g.offset = SPOOL_DATA_SIZE
       IN  /\ FreeFirstIf(full)
           /\ frecoff' = IF full THEN 0 ELSE g.offset
           /\ fifo' = IF full THEN Shift(Tail(fifo)) ELSE Tail(fifo)
    /\ recs' = recs - 1
    /\ got' = <<g.want, g.copied - 2, g.buf, Head(fifo)>>
    /\ pc' = "idle" /\ g' = NoGrab
    /\ UNCHANGED <<lrecoff, a>>

\* The record is taken out; a page that is used up with it is freed.
GrabEnd ==
    /\ pc = "grab"
    /\ g.processed = g.reclen + 2
    /\ LET offset == Align(g.offset)
           full == offset = SPOOL_DATA_SIZE
       IN  /\ FreeFirstIf(full)
           /\ frecoff' = IF full THEN 0 ELSE offset
           /\ fifo' = IF full THEN Shift(Tail(fifo)) ELSE Tail(fifo)
    /\ recs' = recs - 1
    /\ got' = <<g.want, g.copied - 2, g.buf, Head(fifo)>>
    /\ pc' = "idle" /\ g' = NoGrab
    /\ UNCHANGED <<lrecoff, a>>
-----------------------------------------------------------------------------
(* spool_append_rec.                                                       *)

\* memcpy of n bytes of text t, from byte i, to offset o of page p.
Copy(p, o, t, i, n) ==
    [x \in Offsets |-> IF x \in o..(o + n - 1) THEN Byte(t, i + x - o) ELSE p[x]]

\* The length of a record at offset o of page p.
PutLength(p, o, len) ==
    [x \in Offsets |-> IF x = o THEN Length(len) ELSE IF x = o + 1 THEN Junk ELSE p[x]]

\* The length goes into the last page, with as much of the data as fits.
\* EINVAL leaves everything as it is.
AppendRec(t, len) ==
    /\ pc = "idle"
    /\ len # 0 /\ recs < MaxRecs
    /\ pc' = "append"
    /\ LET left == SPOOL_DATA_SIZE - lrecoff
           n == Min({len, left - 2})
           last == list[Len(list)]
       IN  IF pages # 0 /\ left >= 2
           THEN /\ list' = [list EXCEPT ![Len(list)] =
                              Copy(PutLength(last, lrecoff, len), lrecoff + 2, t, 0, n)]
                /\ a' = [text |-> t, len |-> len, rlen |-> len + 2, copied |-> 2 + n,
                         loff |-> lrecoff + 2 + n, new |-> <<>>]
           ELSE /\ UNCHANGED list
                /\ a' = [text |-> t, len |-> len, rlen |-> len + 2, copied |-> 0,
                         loff |-> 0, new |-> <<>>]
    /\ UNCHANGED <<recs, pages, frecoff, lrecoff, g, held, got, fifo>>

\* One more page.  The data of a further page is taken from buf - copied + 2.
AppendPage ==
    /\ pc = "append"
    /\ a.rlen # a.copied
    /\ LET n == Min({a.len, SPOOL_DATA_SIZE - 2})
           more == Min({a.rlen - a.copied, SPOOL_DATA_SIZE})
           loff == IF a.copied = 0 THEN 2 + n ELSE more
           page == IF a.copied = 0
                   THEN Copy(PutLength(NewPage, 0, a.len), 2, a.text, 0, n)
                   ELSE Copy(NewPage, 0, a.text, 2 - a.copied, more)
       IN  a' = [a EXCEPT !.new = Append(@, page), !.loff = loff, !.copied = @ + loff]
    /\ held' = held + 1
    /\ UNCHANGED <<file, pc, g, got, fifo>>

\* Mutant of AppendFail: the pages allocated so far are not freed.
AppendFailLeaks ==
    /\ pc = "append"
    /\ a.rlen # a.copied
    /\ pc' = "idle" /\ a' = NoAppend
    /\ UNCHANGED <<file, g, held, got, fifo>>

\* ENOMEM: what was written to the last page lies behind lrecoff.
AppendFail ==
    /\ pc = "append"
    /\ a.rlen # a.copied
    /\ held' = held - Len(a.new)
    /\ pc' = "idle" /\ a' = NoAppend
    /\ UNCHANGED <<file, g, got, fifo>>

\* Where a record that is appended now starts.
EndPos == IF list = <<>> THEN 0 ELSE (Len(list) - 1) * SPOOL_DATA_SIZE + lrecoff

AppendEnd ==
    /\ pc = "append"
    /\ a.rlen = a.copied
    /\ list' = list \o a.new
    /\ pages' = pages + Len(a.new)
    /\ recs' = recs + 1
    /\ lrecoff' = Align(a.loff)
    /\ fifo' = Append(fifo, [pos |-> EndPos, len |-> a.len, text |-> a.text])
    /\ pc' = "idle" /\ a' = NoAppend
    /\ UNCHANGED <<frecoff, g, held, got>>

-----------------------------------------------------------------------------
Next ==
    \/ \E want \in Wants : GrabRec(want)
    \/ GrabCopy
    \/ GrabEnd
    \/ \E t \in Texts, len \in Lengths : AppendRec(t, len)
    \/ AppendPage
    \/ AppendFail
    \/ AppendEnd

Spec == Init /\ [][Next]_vars

-----------------------------------------------------------------------------
Bytes ==
    {Junk} \cup {Length(n) : n \in Lengths}
        \cup {Byte(t, i) : t \in Texts, i \in UNION {0..(n - 1) : n \in Lengths}}

TypeOK ==
    /\ list \in Seq([Offsets -> Bytes])
    /\ recs \in Nat /\ pages \in Nat
    /\ frecoff \in 0..(SPOOL_DATA_SIZE - 1)
    /\ lrecoff \in 0..SPOOL_DATA_SIZE
    /\ lrecoff % 2 = 0                 \* BUG_ON(f->lrecoff % 2)
    /\ pc \in {"idle", "grab", "append"}
    /\ g.copied <= g.rlen /\ g.processed <= g.reclen + 2
    /\ g.left + g.offset \in {0, SPOOL_DATA_SIZE}
    /\ a.copied <= a.rlen               \* BUG_ON(rlen < copied)
    /\ held \in Nat

\* Where the record after r starts.
NextPos(r) == r.pos + 2 + Align(r.len)

\* Between two calls the records follow one another without a gap from frecoff
\* to lrecoff, each behind a length that says where the next one starts.
Tiled ==
    pc = "idle" =>
        /\ recs = Len(fifo)
        /\ fifo # <<>> => fifo[1].pos = frecoff
        /\ \A i \in 1..Len(fifo) :
              /\ NextPos(fifo[i]) = IF i < Len(fifo) THEN fifo[i + 1].pos ELSE EndPos
              /\ list[1 + (fifo[i].pos \div SPOOL_DATA_SIZE)]
                     [fifo[i].pos % SPOOL_DATA_SIZE] = Length(fifo[i].len)

\* Every page taken from the allocator is on the list or about to be, f->pages
\* counts the list, and between two calls each page holds a part of some record:
\* only an empty file may keep one page for nothing.
NoPageLost ==
    /\ held = Len(list) + Len(a.new)
    /\ pages = Len(list)
    /\ pc = "idle" =>
          IF fifo = <<>> THEN Len(list) <= 1
          ELSE /\ fifo[1].pos < SPOOL_DATA_SIZE
               /\ fifo[Len(fifo)].pos + 2 + fifo[Len(fifo)].len >
                      (Len(list) - 1) * SPOOL_DATA_SIZE

Lens == [i \in DOMAIN fifo |-> fifo[i].len]
Fifo == INSTANCE RecordFifo WITH lens <- Lens, got <- <<got[1], got[2]>>

\* The records come out in order, once each, with their own lengths.
ImplementsRecordFifo == Fifo!Spec

\* The bytes read are those of the record, as many as were asked for.
IsText(buf, r) == \A i \in 1..Len(buf) : buf[i] = Byte(r.text, i - 1)

\* A record that was in a single page comes out as it went in, whatever was
\* appended, read or given up for lack of storage in between.
UnsplitIntact ==
    [][got' # got =>
         LET r == got'[4]
         IN  frecoff + 2 + r.len <= SPOOL_DATA_SIZE => IsText(got'[3], r)]_vars
=============================================================================
