--------------------------- MODULE VirtSysProofs ---------------------------
(***************************************************************************)
(* Proofs about VirtSys, for every number of subchannels, subclasses and   *)
(* queued interruptions: no sequence of SSCH, TSCH, MSCH, resets and       *)
(* interruptions takes a status away before the guest is told, leaves a    *)
(* subchannel busy, or, unless a status was cleared early, leaves an       *)
(* interruption queued that announces nothing.                             *)
(***************************************************************************)
EXTENDS VirtSys, FiniteSetTheorems, SequenceTheorems, TLAPS

\* The queue of a subclass is shorter than the bound: the bound on all queues
\* together is a bound on each.
LengthInv == \A c \in Iscs : Len(int_io[c]) <= MaxInts

\* What QueueIsExact counts, said of single entries: as long as no status was
\* cleared early, an entry is for a subchannel whose status is not announced,
\* and there is one such entry at most.
EntryInv ==
    ~raced =>
        \A c, d \in Iscs : \A i \in 1..Len(int_io[c]), j \in 1..Len(int_io[d]) :
            /\ Pending(int_io[c][i].ssid) /\ int_io[c][i].ssid \notin told
            /\ int_io[c][i].ssid = int_io[d][j].ssid => c = d /\ i = j

IndInv == TypeOK /\ LengthInv /\ StatusAnnounced /\ EntryInv /\ FreeUnlessAbandoned

-----------------------------------------------------------------------------
\* The queues when queue_io_interrupt appends an interruption to one of them.
LEMMA QueueAppended ==
    ASSUME int_io \in [Iscs -> Seq(Interruptions)], NEW c \in Iscs,
           NEW x \in Interruptions,
           int_io' = [int_io EXCEPT ![c] = Append(@, x)]
    PROVE  /\ int_io' \in [Iscs -> Seq(Interruptions)]
           /\ \A d \in Iscs : d # c => int_io'[d] = int_io[d]
           /\ Len(int_io[c]) \in Nat
           /\ Len(int_io'[c]) = Len(int_io[c]) + 1
           /\ \A i \in 1..Len(int_io[c]) : int_io'[c][i] = int_io[c][i]
           /\ int_io'[c][Len(int_io[c]) + 1] = x
<1>1. /\ Append(int_io[c], x) \in Seq(Interruptions)
      /\ Len(Append(int_io[c], x)) = Len(int_io[c]) + 1
      /\ \A i \in 1..Len(int_io[c]) : Append(int_io[c], x)[i] = int_io[c][i]
      /\ Append(int_io[c], x)[Len(int_io[c]) + 1] = x
    BY AppendProperties
<1>2. int_io'[c] = Append(int_io[c], x) /\ Len(int_io[c]) \in Nat
    BY LenProperties
<1> QED BY <1>1, <1>2

\* The queues when __io_int takes the first interruption of one of them.
LEMMA QueueTaken ==
    ASSUME int_io \in [Iscs -> Seq(Interruptions)], NEW c \in Iscs,
           int_io[c] # <<>>,
           int_io' = [int_io EXCEPT ![c] = Tail(@)]
    PROVE  /\ int_io' \in [Iscs -> Seq(Interruptions)]
           /\ \A d \in Iscs : d # c => int_io'[d] = int_io[d]
           /\ Len(int_io[c]) \in Nat \ {0}
           /\ Len(int_io'[c]) = Len(int_io[c]) - 1
           /\ \A i \in 1..Len(int_io'[c]) : int_io'[c][i] = int_io[c][i + 1]
           /\ Head(int_io[c]) = int_io[c][1] /\ Head(int_io[c]) \in Interruptions
<1>1. /\ Tail(int_io[c]) \in Seq(Interruptions)
      /\ Len(Tail(int_io[c])) = Len(int_io[c]) - 1
      /\ \A i \in 1..Len(Tail(int_io[c])) : Tail(int_io[c])[i] = int_io[c][i + 1]
      /\ Head(int_io[c]) = int_io[c][1] /\ Head(int_io[c]) \in Interruptions
    BY HeadTailProperties
<1>2. int_io'[c] = Tail(int_io[c]) /\ Len(int_io[c]) \in Nat \ {0}
    BY LenProperties, EmptySeq
<1> QED BY <1>1, <1>2

\* An SSCH that is let through finds room in every queue (Start).
LEMMA RoomInQueue ==
    ASSUME TypeOK, LengthInv, Cardinality(InterruptionsQueued) < MaxInts, NEW c \in Iscs
    PROVE  Len(int_io[c]) < MaxInts
<1> DEFINE n == Len(int_io[c])
           S == {<<c, i>> : i \in 1..n}
           f == [i \in 1..n |-> <<c, i>>]
<1>1. n \in Nat /\ n <= MaxInts /\ MaxInts \in Nat
    BY LenProperties, BoundAssumption DEF TypeOK, LengthInv
<1>2. IsFiniteSet(InterruptionsQueued)
  <2>1. IsFiniteSet(Iscs \X (1..MaxInts))
    <3>1. IsFiniteSet(Iscs)
        BY FS_Interval, IscAssumption DEF Iscs
    <3>2. IsFiniteSet(1..MaxInts)
        BY FS_Interval, <1>1
    <3> QED BY <3>1, <3>2, FS_Product
  <2> QED BY <2>1, FS_Subset DEF InterruptionsQueued
<1>3. S \subseteq InterruptionsQueued
    BY <1>1 DEF InterruptionsQueued
<1>4. Cardinality(S) = n
  <2>1. IsFiniteSet(1..n) /\ Cardinality(1..n) = n
    <3> HIDE DEF n
    <3> QED BY <1>1, FS_Interval
  <2>2. f \in Bijection(1..n, S)
    <3>1. f \in [1..n -> S] /\ \A x \in S : \E i \in 1..n : f[i] = x
        OBVIOUS
    <3>2. \A i, j \in 1..n : f[i] = f[j] => i = j
        OBVIOUS
    <3> HIDE DEF f, S
    <3> QED BY <3>1, <3>2 DEF Bijection, Injection, Surjection, IsInjective
  <2>3. ExistsBijection(1..n, S)
      BY <2>2 DEF ExistsBijection
  <2> QED BY <2>1, <2>3, FS_Bijection
<1>5. Cardinality(S) <= Cardinality(InterruptionsQueued)
    BY <1>2, <1>3, FS_Subset
<1>6. Cardinality(InterruptionsQueued) \in Nat
    BY <1>2, FS_CardinalityType
<1> QED BY <1>1, <1>4, <1>5, <1>6
-----------------------------------------------------------------------------
\* A step that changes neither a queue nor a subchannel keeps the invariant:
\* BEGIN, STOP, the wait of a guest, the entry to SIE, what the guest does by
\* itself, and the instructions that only set the condition code.
LEMMA NothingTouched ==
    ASSUME IndInv, TypeOK', UNCHANGED <<int_io, scsw, pmcw, ghosts>>
    PROVE  IndInv'
<1> USE DEF ghosts
<1>1. LengthInv'
    BY DEF IndInv, LengthInv
<1>2. StatusAnnounced'
    BY DEF IndInv, StatusAnnounced, Pending
<1>3. EntryInv'
    BY DEF IndInv, EntryInv, Pending
<1>4. FreeUnlessAbandoned'
    BY DEF IndInv, FreeUnlessAbandoned, Pending
<1> QED BY <1>1, <1>2, <1>3, <1>4 DEF IndInv

\* RESET_IO clears every subchannel; if interruptions stay queued, a status may
\* have been cleared early.
LEMMA ResetKeepsInv ==
    ASSUME IndInv, TypeOK', ResetIO
    PROVE  IndInv'
<1>1. LengthInv'
    BY DEF IndInv, LengthInv, ResetIO
<1>2. \A v \in Vdevs : scsw'[v] = ZeroSCSW
    BY DEF ResetIO
<1>3. StatusAnnounced' /\ FreeUnlessAbandoned'
    BY <1>2 DEF StatusAnnounced, FreeUnlessAbandoned, Pending, ZeroSCSW
<1>4. EntryInv'
  <2>1. ASSUME ~raced', NEW c \in Iscs PROVE Len(int_io'[c]) = 0
    <3>1. int_io[c] = <<>>
        BY <2>1, Zenon DEF ResetIO
    <3>2. int_io' = int_io
        BY DEF ResetIO
    <3> QED BY <3>1, <3>2
  <2> QED BY <2>1 DEF EntryInv
<1> QED BY <1>1, <1>3, <1>4 DEF IndInv

-----------------------------------------------------------------------------
\* __io_int: the interruption it takes either leaves a newer one of its
\* subchannel in the queue, or tells the guest of the status.
LEMMA IoIntKeepsInv ==
    ASSUME IndInv, TypeOK', IoInt
    PROVE  IndInv'
<1>1. PICK c \in Iscs :
        /\ int_io[c] # <<>>
        /\ int_io' = [int_io EXCEPT ![c] = Tail(@)]
        /\ told' = LET v == Head(int_io[c]).ssid
                   IN  IF c = pmcw[v].isc
                          /\ \A i \in 2..Len(int_io[c]) : int_io[c][i].ssid # v
                       THEN told \cup {v} ELSE told
    BY DEF IoInt, Deliverable, IndInv, TypeOK
<1>2. UNCHANGED <<scsw, pmcw, orphans, raced>>
    BY DEF IoInt
<1> DEFINE n == Len(int_io[c])
           v == int_io[c][1].ssid
<1>3. /\ \A d \in Iscs : d # c => int_io'[d] = int_io[d]
      /\ n \in Nat \ {0} /\ Len(int_io'[c]) = n - 1
      /\ \A i \in 1..(n - 1) : int_io'[c][i] = int_io[c][i + 1]
      /\ Head(int_io[c]) = int_io[c][1] /\ int_io[c][1] \in Interruptions
    BY <1>1, QueueTaken DEF IndInv, TypeOK
<1>4. v \in Vdevs
    BY <1>3 DEF Interruptions
<1>5. \A d \in Iscs : Len(int_io[d]) \in Nat
    BY LenProperties DEF IndInv, TypeOK
<1>6. LengthInv'
    BY <1>3, BoundAssumption DEF IndInv, LengthInv
<1>7. told' = IF c = pmcw[v].isc /\ \A i \in 2..n : int_io[c][i].ssid # v
              THEN told \cup {v} ELSE told
    BY <1>1, <1>3
<1>8. StatusAnnounced'
  <2> SUFFICES ASSUME NEW w \in Vdevs, Pending(w)', w \notin told'
               PROVE  \E i \in 1..Len(int_io'[pmcw[w].isc]) :
                          /\ int_io'[pmcw[w].isc][i] = [ssid |-> w, param |-> pmcw[w].param]
                          /\ \A j \in (i + 1)..Len(int_io'[pmcw[w].isc]) :
                                int_io'[pmcw[w].isc][j].ssid # w
      BY <1>2, SMTT(40) DEF StatusAnnounced
  <2> DEFINE e == pmcw[w].isc
             q == int_io[e]
  <2>1. Pending(w) /\ w \notin told /\ e \in Iscs
      BY <1>2, <1>7 DEF Pending, IndInv, TypeOK
  <2>2. PICK i \in 1..Len(q) : /\ q[i] = [ssid |-> w, param |-> pmcw[w].param]
                               /\ \A j \in (i + 1)..Len(q) : q[j].ssid # w
      BY <2>1 DEF IndInv, StatusAnnounced
  <2>3. CASE e # c
      BY <2>1, <2>2, <2>3, <1>3, ZenonT(60)
  <2>4. CASE e = c /\ i = 1
    <3>1. v = w /\ \A j \in 2..n : int_io[c][j].ssid # v
        BY <2>2, <2>4
    <3>2. w \in told'
        BY <3>1, <2>4, <1>7
    <3> QED BY <3>2
  <2>5. CASE e = c /\ i # 1
    <3>1. i - 1 \in 1..(n - 1) /\ int_io'[c][i - 1] = int_io[c][i]
        BY <2>2, <2>5, <1>3
    <3>2. \A j \in ((i - 1) + 1)..(n - 1) : int_io'[c][j].ssid # w
      <4>1. ASSUME NEW j \in i..(n - 1) PROVE int_io'[c][j].ssid # w
        <5>1. j + 1 \in (i + 1)..n /\ j \in 1..(n - 1)
            BY <1>3, <2>5
        <5> QED BY <5>1, <2>2, <2>5, <1>3
      <4> QED BY <4>1, <1>3, <2>5
    <3> QED BY <3>1, <3>2, <2>2, <2>5, <1>3
  <2> QED BY <2>3, <2>4, <2>5
<1>9. EntryInv'
  <2> SUFFICES ASSUME ~raced', NEW d \in Iscs, NEW e \in Iscs,
                      NEW i \in 1..Len(int_io'[d]), NEW j \in 1..Len(int_io'[e])
               PROVE  /\ "STATUS" \in scsw'[int_io'[d][i].ssid].sc
                      /\ int_io'[d][i].ssid \notin told'
                      /\ int_io'[d][i].ssid = int_io'[e][j].ssid => d = e /\ i = j
      BY DEF EntryInv, Pending
  <2> DEFINE k == IF d = c THEN i + 1 ELSE i
             l == IF e = c THEN j + 1 ELSE j
  <2>1. /\ k \in 1..Len(int_io[d]) /\ int_io'[d][i] = int_io[d][k]
        /\ d = c => k # 1
      BY <1>3
  <2>2. l \in 1..Len(int_io[e]) /\ int_io'[e][j] = int_io[e][l]
      BY <1>3, SMTT(40)
  <2>3. 1 \in 1..Len(int_io[c])
      BY <1>3
  <2> HIDE DEF k, l
  <2>4. /\ Pending(int_io[d][k].ssid) /\ int_io[d][k].ssid \notin told
        /\ int_io[d][k].ssid = int_io[e][l].ssid => d = e /\ k = l
        /\ int_io[d][k].ssid = v => d = c /\ k = 1
      BY <2>1, <2>2, <2>3, <1>2 DEF IndInv, EntryInv
  <2>5. int_io[d][k].ssid # v
      BY <2>4, <2>1
  <2>6. d = e /\ k = l => i = j
      BY DEF k, l
  <2> QED BY <2>1, <2>2, <2>4, <2>5, <2>6, <1>2, <1>7 DEF Pending
<1>10. FreeUnlessAbandoned'
    BY <1>2 DEF IndInv, FreeUnlessAbandoned, Pending
<1> QED BY <1>6, <1>8, <1>9, <1>10 DEF IndInv

\* queue_io_interrupt at the end of a channel program.
LEMMA ExecutedKeepsInv ==
    ASSUME IndInv, TypeOK', NEW v \in Vdevs, NEW param \in Params \cup {0},
           NEW alert \in SUBSET {"ALERT"}, ~Pending(v),
           Cardinality(InterruptionsQueued) < MaxInts,
           Executed(v, param, alert)
    PROVE  IndInv'
<1> DEFINE c == pmcw[v].isc
           n == Len(int_io[c])
           x == [ssid |-> v, param |-> param]
<1>1. c \in Iscs /\ x \in Interruptions
    BY DEF IndInv, TypeOK, Interruptions
<1>2. int_io' = [int_io EXCEPT ![c] = Append(@, x)]
    BY DEF Executed
<1>3. /\ \A d \in Iscs : d # c => int_io'[d] = int_io[d]
      /\ n \in Nat /\ Len(int_io'[c]) = n + 1
      /\ \A i \in 1..n : int_io'[c][i] = int_io[c][i]
      /\ int_io'[c][n + 1] = x
  <2> HIDE DEF c, x
  <2> QED BY <1>1, <1>2, QueueAppended DEF IndInv, TypeOK
<1>4. \A d \in Iscs : Len(int_io[d]) \in Nat
    BY LenProperties DEF IndInv, TypeOK
<1>5. /\ told' = told \ {v} /\ orphans' = orphans /\ raced' = raced
      /\ \A w \in Vdevs : w # v => scsw'[w] = scsw[w] /\ pmcw'[w] = pmcw[w]
      /\ "STATUS" \in scsw'[v].sc
      /\ pmcw'[v] = [isc |-> c, param |-> param]
    BY DEF Executed, IndInv, TypeOK
<1> HIDE DEF c
<1>6. LengthInv'
  <2>1. n < MaxInts
      BY <1>1, RoomInQueue DEF IndInv
  <2> QED BY <1>1, <1>3, <2>1, BoundAssumption DEF IndInv, LengthInv
<1>7. StatusAnnounced'
  <2> SUFFICES ASSUME NEW w \in Vdevs, Pending(w)', w \notin told'
               PROVE  LET q == int_io'[pmcw'[w].isc]
                      IN  \E i \in 1..Len(q) :
                          /\ q[i] = [ssid |-> w, param |-> pmcw'[w].param]
                          /\ \A j \in (i + 1)..Len(q) : q[j].ssid # w
      BY DEF StatusAnnounced
  <2>1. CASE w = v
    <3>1. n + 1 \in 1..Len(int_io'[c]) /\ \A j \in (n + 2)..Len(int_io'[c]) : FALSE
        BY <1>3
    <3> QED BY <3>1, <2>1, <1>3, <1>5
  <2>2. CASE w # v
    <3> DEFINE e == pmcw[w].isc
    <3>1. Pending(w) /\ w \notin told /\ e \in Iscs /\ pmcw'[w] = pmcw[w]
        BY <2>2, <1>5 DEF Pending, IndInv, TypeOK
    <3>2. PICK i \in 1..Len(int_io[e]) :
              /\ int_io[e][i] = [ssid |-> w, param |-> pmcw[w].param]
              /\ \A j \in (i + 1)..Len(int_io[e]) : int_io[e][j].ssid # w
        BY <3>1 DEF IndInv, StatusAnnounced
    <3> HIDE DEF e
    <3>3. CASE e # c
        BY <3>1, <3>2, <3>3, <1>3, SMTT(40) DEF e
    <3>4. CASE e = c
      <4>1. i \in 1..Len(int_io'[c]) /\ int_io'[c][i] = int_io[c][i]
          BY <3>2, <3>4, <1>3
      <4>2. \A j \in (i + 1)..Len(int_io'[c]) : int_io'[c][j].ssid # w
        <5>1. x.ssid # w
            BY <2>2
        <5> HIDE DEF x
        <5> QED BY <3>2, <3>4, <5>1, <1>3, SMTT(40)
      <4> QED BY <4>1, <4>2, <3>1, <3>2, <3>4 DEF e
    <3> QED BY <3>3, <3>4
  <2> QED BY <2>1, <2>2
<1>8. EntryInv'
  <2> SUFFICES ASSUME ~raced', NEW d \in Iscs, NEW e \in Iscs,
                      NEW i \in 1..Len(int_io'[d]), NEW j \in 1..Len(int_io'[e])
               PROVE  /\ "STATUS" \in scsw'[int_io'[d][i].ssid].sc
                      /\ int_io'[d][i].ssid \notin told'
                      /\ int_io'[d][i].ssid = int_io'[e][j].ssid => d = e /\ i = j
      BY DEF EntryInv, Pending
  <2>1. ASSUME NEW f \in Iscs, NEW k \in 1..Len(int_io'[f]), ~(f = c /\ k = n + 1)
        PROVE  /\ k \in 1..Len(int_io[f]) /\ int_io'[f][k] = int_io[f][k]
               /\ int_io[f][k].ssid \in Vdevs \ {v}
               /\ Pending(int_io[f][k].ssid) /\ int_io[f][k].ssid \notin told
    <3>1. k \in 1..Len(int_io[f]) /\ int_io'[f][k] = int_io[f][k]
        BY <2>1, <1>3
    <3>2. Pending(int_io[f][k].ssid) /\ int_io[f][k].ssid \notin told
        BY <3>1, <1>5 DEF IndInv, EntryInv
    <3>3. int_io[f][k] \in Interruptions
        BY <3>1, ElementOfSeq DEF IndInv, TypeOK
    <3> QED BY <3>1, <3>2, <3>3 DEF Interruptions
  <2>2. CASE ~(d = c /\ i = n + 1) /\ ~(e = c /\ j = n + 1)
    <3>1. int_io[d][i].ssid = int_io[e][j].ssid => d = e /\ i = j
        BY <2>1, <2>2, <1>5 DEF IndInv, EntryInv
    <3> QED BY <2>1, <2>2, <3>1, <1>5, SMTT(40) DEF Pending
  <2>3. CASE d = c /\ i = n + 1
      BY <2>1, <2>3, <1>3, <1>5 DEF Pending
  <2>4. CASE ~(d = c /\ i = n + 1) /\ e = c /\ j = n + 1
      BY <2>1, <2>4, <1>3, <1>5, SMTT(40) DEF Pending
  <2> QED BY <2>2, <2>3, <2>4
<1>9. FreeUnlessAbandoned'
    BY <1>5 DEF IndInv, FreeUnlessAbandoned, Pending
<1> QED BY <1>6, <1>7, <1>8, <1>9 DEF IndInv

\* A step that changes one subchannel without pending status and leaves it
\* without: MSCH, and a start function that is abandoned.
LEMMA QuietSubchannel ==
    ASSUME IndInv, TypeOK', NEW v \in Vdevs, ~Pending(v),
           UNCHANGED <<int_io, told, raced>>,
           \A w \in Vdevs : w # v => scsw'[w] = scsw[w] /\ pmcw'[w] = pmcw[w],
           "STATUS" \notin scsw'[v].sc,
           orphans \subseteq orphans',
           v \notin orphans' => scsw'[v] = scsw[v]
    PROVE  IndInv'
<1>1. LengthInv'
    BY DEF IndInv, LengthInv
<1>2. StatusAnnounced'
  <2> SUFFICES ASSUME NEW w \in Vdevs, Pending(w)', w \notin told'
               PROVE  LET q == int_io'[pmcw'[w].isc]
                      IN  \E i \in 1..Len(q) :
                          /\ q[i] = [ssid |-> w, param |-> pmcw'[w].param]
                          /\ \A j \in (i + 1)..Len(q) : q[j].ssid # w
      BY DEF StatusAnnounced
  <2>1. w # v
      BY DEF Pending
  <2> QED BY <2>1 DEF IndInv, StatusAnnounced, Pending
<1>3. EntryInv'
  <2> SUFFICES ASSUME ~raced', NEW d \in Iscs, NEW e \in Iscs,
                      NEW i \in 1..Len(int_io'[d]), NEW j \in 1..Len(int_io'[e])
               PROVE  /\ "STATUS" \in scsw'[int_io'[d][i].ssid].sc
                      /\ int_io'[d][i].ssid \notin told'
                      /\ int_io'[d][i].ssid = int_io'[e][j].ssid => d = e /\ i = j
      BY DEF EntryInv, Pending
  <2>1. int_io[d][i] \in Interruptions
      BY ElementOfSeq DEF IndInv, TypeOK
  <2>2. /\ "STATUS" \in scsw[int_io[d][i].ssid].sc
        /\ int_io[d][i].ssid \notin told
        /\ int_io[d][i].ssid = int_io[e][j].ssid => d = e /\ i = j
      BY DEF IndInv, EntryInv, Pending
  <2> QED BY <2>1, <2>2 DEF Pending, Interruptions
<1>4. FreeUnlessAbandoned'
    BY DEF IndInv, FreeUnlessAbandoned, Pending
<1> QED BY <1>1, <1>2, <1>3, <1>4 DEF IndInv

\* TSCH: a status that is cleared before the guest was told counts as raced.
LEMMA TschKeepsInv ==
    ASSUME IndInv, TypeOK', NEW v \in Vdevs, Tsch(v)
    PROVE  IndInv'
<1>1. /\ UNCHANGED <<int_io, pmcw, orphans, told>>
      /\ \A w \in Vdevs : w # v => scsw'[w] = scsw[w]
      /\ "STATUS" \notin scsw'[v].sc /\ scsw'[v].fc = {}
      /\ raced' = (raced \/ v \notin told)
    BY DEF Tsch, Tested, IndInv, TypeOK
<1>2. scsw'[v].ac = {}
    BY DEF Tsch, Tested, IndInv, TypeOK
<1>3. LengthInv'
    BY <1>1 DEF IndInv, LengthInv
<1>4. StatusAnnounced'
  <2> SUFFICES ASSUME NEW w \in Vdevs, Pending(w)', w \notin told'
               PROVE  LET q == int_io'[pmcw'[w].isc]
                      IN  \E i \in 1..Len(q) :
                          /\ q[i] = [ssid |-> w, param |-> pmcw'[w].param]
                          /\ \A j \in (i + 1)..Len(q) : q[j].ssid # w
      BY DEF StatusAnnounced
  <2>1. w # v
      BY <1>1 DEF Pending
  <2> QED BY <2>1, <1>1 DEF IndInv, StatusAnnounced, Pending
<1>5. EntryInv'
  <2> SUFFICES ASSUME ~raced', NEW d \in Iscs, NEW e \in Iscs,
                      NEW i \in 1..Len(int_io'[d]), NEW j \in 1..Len(int_io'[e])
               PROVE  /\ "STATUS" \in scsw'[int_io'[d][i].ssid].sc
                      /\ int_io'[d][i].ssid \notin told'
                      /\ int_io'[d][i].ssid = int_io'[e][j].ssid => d = e /\ i = j
      BY DEF EntryInv, Pending
  <2>1. ~raced /\ v \in told
      BY <1>1, Zenon
  <2>2. int_io[d][i] \in Interruptions
      BY <1>1, ElementOfSeq DEF IndInv, TypeOK
  <2>3. /\ "STATUS" \in scsw[int_io[d][i].ssid].sc
        /\ int_io[d][i].ssid \notin told
        /\ int_io[d][i].ssid = int_io[e][j].ssid => d = e /\ i = j
      BY <1>1, <2>1 DEF IndInv, EntryInv, Pending
  <2> QED BY <1>1, <2>1, <2>2, <2>3 DEF Interruptions
<1>6. FreeUnlessAbandoned'
    BY <1>1, <1>2 DEF IndInv, FreeUnlessAbandoned, Pending
<1> QED BY <1>3, <1>4, <1>5, <1>6 DEF IndInv

-----------------------------------------------------------------------------
LEMMA SetsCodeTypes ==
    ASSUME TypeOK, NEW code \in 0..3, SetsCode(code)
    PROVE  TypeOK'
BY DEF SetsCode, TypeOK, ghosts

LEMMA ResetTypes ==
    ASSUME TypeOK, ResetIO
    PROVE  /\ (int_io \in [Iscs -> Seq(Interruptions)])'
           /\ (scsw \in [Vdevs -> [fc : SUBSET {"START"}, ac : SUBSET {"START"},
                    sc : SUBSET {"PRIMARY", "SECONDARY", "STATUS", "ALERT"}]])'
           /\ (pmcw \in [Vdevs -> [isc : Iscs, param : Params \cup {0}]])'
           /\ orphans' \subseteq Vdevs /\ told' \subseteq Vdevs /\ raced' \in BOOLEAN
<1>1. 0 \in Iscs
    BY IscAssumption DEF Iscs
<1>2. raced' \in BOOLEAN
    BY Zenon DEF ResetIO
<1> QED BY <1>1, <1>2 DEF ResetIO, TypeOK, ZeroSCSW, ZeroPMCW

LEMMA CommandTypes ==
    ASSUME TypeOK, Command
    PROVE  TypeOK'
<1>1. ASSUME Begin \/ Stop PROVE TypeOK'
    BY <1>1 DEF Begin, Stop, TypeOK, ghosts
<1>2. ASSUME SystemReset PROVE TypeOK'
  <2>1. ResetIO /\ state' = "STOPPED" /\ UNCHANGED <<pc, psw, cr6, cc>>
      BY <1>2 DEF SystemReset
  <2> QED BY <2>1, ResetTypes DEF TypeOK
<1>3. ASSUME SystemClear PROVE TypeOK'
  <2>1. /\ ResetIO /\ state' = "STOPPED" /\ UNCHANGED pc
        /\ psw' = ZeroPSW /\ cr6' = {} /\ cc' = 0
      BY <1>3 DEF SystemClear
  <2> QED BY <2>1, ResetTypes DEF TypeOK
<1>4. ASSUME IplFails PROVE TypeOK'
  <2>1. CASE UNCHANGED <<psw, cr6, cc, int_io, scsw, pmcw, ghosts>>
      BY <1>4, <2>1 DEF IplFails, TypeOK, ghosts
  <2>2. CASE psw' = ZeroPSW /\ cr6' = {} /\ cc' = 0 /\ ResetIO
    <3>1. state' = "CHECKSTOP" /\ UNCHANGED pc
        BY <1>4 DEF IplFails
    <3> QED BY <2>2, <3>1, ResetTypes DEF TypeOK
  <2> QED BY <1>4, <2>1, <2>2 DEF IplFails
<1> QED BY <1>1, <1>2, <1>3, <1>4 DEF Command

LEMMA TurnTypes ==
    ASSUME TypeOK, Turn
    PROVE  TypeOK'
<1>1. ASSUME IoInt PROVE TypeOK'
  <2>1. PICK c \in Iscs, new \in GuestPSWs :
          /\ int_io[c] # <<>>
          /\ int_io' = [int_io EXCEPT ![c] = Tail(@)]
          /\ told' = LET v == Head(int_io[c]).ssid
                     IN  IF c = pmcw[v].isc
                            /\ \A i \in 2..Len(int_io[c]) : int_io[c][i].ssid # v
                         THEN told \cup {v} ELSE told
          /\ psw' = new
      BY <1>1 DEF IoInt, Deliverable, TypeOK
  <2>2. int_io' \in [Iscs -> Seq(Interruptions)] /\ Head(int_io[c]) \in Interruptions
      BY <2>1, QueueTaken DEF TypeOK
  <2>3. told' \subseteq Vdevs
      BY <2>1, <2>2 DEF TypeOK, Interruptions
  <2>4. pc' = "sie" /\ UNCHANGED <<state, cr6, cc, scsw, pmcw, orphans, raced>>
      BY <1>1 DEF IoInt
  <2> QED BY <2>1, <2>2, <2>3, <2>4 DEF TypeOK
<1>2. ASSUME Waits \/ EnterSIE PROVE TypeOK'
    BY <1>2 DEF Waits, EnterSIE, TypeOK, ghosts, cpu
<1> QED BY <1>1, <1>2 DEF Turn

LEMMA SschTypes ==
    ASSUME TypeOK, NEW v \in Vdevs, NEW param \in Params \cup {0}, Ssch(v, param)
    PROVE  TypeOK'
<1>1. pc' = "loop" /\ UNCHANGED <<psw, cr6>>
    BY DEF Ssch, Start
<1>2. ASSUME NEW alert \in SUBSET {"ALERT"}, Executed(v, param, alert)
      PROVE  TypeOK'
  <2> DEFINE c == pmcw[v].isc
             x == [ssid |-> v, param |-> param]
  <2>1. c \in Iscs /\ x \in Interruptions
      BY DEF TypeOK, Interruptions
  <2>2. int_io' = [int_io EXCEPT ![c] = Append(@, x)]
      BY <1>2 DEF Executed
  <2>3. int_io' \in [Iscs -> Seq(Interruptions)]
    <3> HIDE DEF c, x
    <3> QED BY <2>1, <2>2, QueueAppended DEF TypeOK
  <2>4. scsw' \in [Vdevs -> [fc : SUBSET {"START"}, ac : SUBSET {"START"},
                    sc : SUBSET {"PRIMARY", "SECONDARY", "STATUS", "ALERT"}]]
      BY <1>2 DEF Executed, TypeOK
  <2>5. pmcw' \in [Vdevs -> [isc : Iscs, param : Params \cup {0}]]
      BY <1>2, ZenonT(60) DEF Executed, TypeOK
  <2> QED BY <1>1, <1>2, <2>3, <2>4, <2>5 DEF Executed, TypeOK
<1>3. ASSUME NEW code \in 0..3, Abandoned(v, param, code)
      PROVE  TypeOK'
  <2>1. scsw' \in [Vdevs -> [fc : SUBSET {"START"}, ac : SUBSET {"START"},
                    sc : SUBSET {"PRIMARY", "SECONDARY", "STATUS", "ALERT"}]]
      BY <1>3 DEF Abandoned, TypeOK
  <2>2. pmcw' \in [Vdevs -> [isc : Iscs, param : Params \cup {0}]]
      BY <1>3, ZenonT(60) DEF Abandoned, TypeOK
  <2> QED BY <1>1, <1>3, <2>1, <2>2 DEF Abandoned, TypeOK
<1>4. \/ \E alert \in SUBSET {"ALERT"} : Executed(v, param, alert)
      \/ \E code \in 0..3 : Abandoned(v, param, code)
  <2>1. {} \in SUBSET {"ALERT"} /\ {"ALERT"} \in SUBSET {"ALERT"} /\ cc \in 0..3 /\ 0 \in 0..3
      BY DEF TypeOK
  <2> QED BY <2>1, Zenon DEF Ssch, Start
<1> QED BY <1>2, <1>3, <1>4

LEMMA InterceptTypes ==
    ASSUME TypeOK, Intercept
    PROVE  TypeOK'
<1>1. ASSUME GuestRuns \/ StopsGuest PROVE TypeOK'
    BY <1>1 DEF GuestRuns, StopsGuest, TypeOK, ghosts
<1>2. ASSUME NoSubchannel \/ Stsch PROVE TypeOK'
    BY <1>2, SetsCodeTypes DEF NoSubchannel, Stsch
<1>3. ASSUME NEW v \in Vdevs, Refused(v) \/ TschNothing(v) PROVE TypeOK'
    BY <1>3, SetsCodeTypes DEF Refused, TschNothing
<1>4. ASSUME NEW v \in Vdevs, Tsch(v) PROVE TypeOK'
  <2>1. raced' \in BOOLEAN
      BY <1>4, Zenon DEF Tsch, Tested
  <2>2. scsw' \in [Vdevs -> [fc : SUBSET {"START"}, ac : SUBSET {"START"},
                    sc : SUBSET {"PRIMARY", "SECONDARY", "STATUS", "ALERT"}]]
    <3> DEFINE R == [fc : SUBSET {"START"}, ac : SUBSET {"START"},
                     sc : SUBSET {"PRIMARY", "SECONDARY", "STATUS", "ALERT"}]
               r == [scsw[v] EXCEPT !.fc = {}, !.ac = @ \ {"RESUME", "START", "HALT", "CLEAR"},
                                    !.sc = @ \ {"STATUS"}]
    <3>1. scsw[v] \in R
        BY DEF TypeOK
    <3>2. r \in R
        BY <3>1
    <3>3. scsw' = [scsw EXCEPT ![v] = r]
        BY <1>4 DEF Tsch, Tested, TypeOK
    <3> HIDE DEF r
    <3> QED BY <3>2, <3>3 DEF TypeOK
  <2>3. pc' = "loop" /\ cc' = 0 /\ UNCHANGED <<state, psw, cr6, int_io, pmcw, orphans, told>>
      BY <1>4 DEF Tsch, Tested
  <2> QED BY <2>1, <2>2, <2>3 DEF TypeOK
<1>5. ASSUME NEW v \in Vdevs, NEW param \in Params \cup {0}, NEW isc \in Iscs,
             Msch(v, isc, param)
      PROVE  TypeOK'
    BY <1>5 DEF Msch, Modify, TypeOK, ghosts
<1> QED BY <1>1, <1>2, <1>3, <1>4, <1>5, SschTypes DEF Intercept

-----------------------------------------------------------------------------
LEMMA IndInvInit == Init => IndInv
<1> SUFFICES ASSUME Init PROVE IndInv
    OBVIOUS
<1>1. 0 \in Iscs /\ 0 \in 0..3
    BY IscAssumption DEF Iscs
<1>2. TypeOK
  <2>1. scsw \in [Vdevs -> [fc : SUBSET {"START"}, ac : SUBSET {"START"},
                sc : SUBSET {"PRIMARY", "SECONDARY", "STATUS", "ALERT"}]]
      BY DEF Init, ZeroSCSW
  <2>2. pmcw \in [Vdevs -> [isc : Iscs, param : Params \cup {0}]]
      BY <1>1 DEF Init, ZeroPMCW
  <2>3. int_io \in [Iscs -> Seq(Interruptions)]
      BY DEF Init
  <2> QED BY <1>1, <2>1, <2>2, <2>3 DEF Init, TypeOK
<1>3. \A c \in Iscs : Len(int_io[c]) = 0
    BY DEF Init
<1>4. LengthInv /\ EntryInv
    BY <1>3, BoundAssumption DEF LengthInv, EntryInv
<1>5. StatusAnnounced /\ FreeUnlessAbandoned
    BY DEF Init, StatusAnnounced, FreeUnlessAbandoned, Pending, ZeroSCSW
<1> QED BY <1>2, <1>4, <1>5 DEF IndInv

LEMMA SschKeepsInv ==
    ASSUME IndInv, TypeOK', NEW v \in Vdevs, NEW param \in Params \cup {0},
           Ssch(v, param)
    PROVE  IndInv'
<1>1. ~Pending(v)
    BY DEF Ssch
<1>2. \/ /\ Cardinality(InterruptionsQueued) < MaxInts
         /\ \E alert \in SUBSET {"ALERT"} : Executed(v, param, alert)
      \/ \E code \in {0, cc} : Abandoned(v, param, code)
  <2>1. {} \in SUBSET {"ALERT"} /\ {"ALERT"} \in SUBSET {"ALERT"}
      OBVIOUS
  <2> QED BY <2>1, Zenon DEF Ssch, Start
<1>3. ASSUME NEW code \in {0, cc}, Abandoned(v, param, code) PROVE IndInv'
  <2>1. /\ UNCHANGED <<int_io, told, raced>>
        /\ \A w \in Vdevs : w # v => scsw'[w] = scsw[w] /\ pmcw'[w] = pmcw[w]
        /\ "STATUS" \notin scsw'[v].sc
        /\ orphans \subseteq orphans' /\ v \in orphans'
      BY <1>3 DEF Abandoned, IndInv, TypeOK
  <2> QED BY <1>1, <2>1, QuietSubchannel
<1> QED BY <1>1, <1>2, <1>3, ExecutedKeepsInv

LEMMA IndInvStep == IndInv /\ [Next]_vars => IndInv'
<1> SUFFICES ASSUME IndInv, [Next]_vars PROVE IndInv'
    OBVIOUS
<1>1. TypeOK'
  <2>1. TypeOK
      BY DEF IndInv
  <2>2. CASE UNCHANGED vars
      BY <2>1, <2>2 DEF vars, TypeOK
  <2> QED BY <2>1, <2>2, CommandTypes, TurnTypes, InterceptTypes DEF Next
<1>2. ASSUME UNCHANGED <<int_io, scsw, pmcw, ghosts>> PROVE IndInv'
    BY <1>1, <1>2, NothingTouched
<1>3. CASE UNCHANGED vars
    BY <1>2, <1>3 DEF vars, ghosts
<1>4. CASE Command
  <2>1. ResetIO \/ UNCHANGED <<int_io, scsw, pmcw, ghosts>>
      BY <1>4 DEF Command, Begin, Stop, SystemReset, SystemClear, IplFails
  <2> QED BY <2>1, <1>1, <1>2, ResetKeepsInv
<1>5. CASE Turn
  <2>1. IoInt \/ UNCHANGED <<int_io, scsw, pmcw, ghosts>>
      BY <1>5 DEF Turn, Waits, EnterSIE
  <2> QED BY <2>1, <1>1, <1>2, IoIntKeepsInv
<1>6. CASE Intercept
  <2>1. ASSUME NEW code, SetsCode(code) PROVE IndInv'
      BY <2>1, <1>2 DEF SetsCode
  <2>2. ASSUME GuestRuns \/ StopsGuest \/ NoSubchannel \/ Stsch PROVE IndInv'
      BY <2>1, <2>2, <1>2 DEF GuestRuns, StopsGuest, NoSubchannel, Stsch
  <2>3. ASSUME NEW v \in Vdevs, Refused(v) \/ TschNothing(v) PROVE IndInv'
      BY <2>1, <2>3 DEF Refused, TschNothing
  <2>4. ASSUME NEW v \in Vdevs, Tsch(v) PROVE IndInv'
      BY <2>4, <1>1, TschKeepsInv
  <2>5. ASSUME NEW v \in Vdevs, NEW param \in Params \cup {0}, Ssch(v, param)
        PROVE  IndInv'
      BY <2>5, <1>1, SschKeepsInv
  <2>6. ASSUME NEW v \in Vdevs, NEW param \in Params \cup {0}, NEW isc \in Iscs,
               Msch(v, isc, param)
        PROVE  IndInv'
    <3>1. /\ ~Pending(v) /\ UNCHANGED <<int_io, told, raced, scsw, orphans>>
          /\ \A w \in Vdevs : w # v => pmcw'[w] = pmcw[w]
        BY <2>6 DEF Msch, Modify, ghosts, IndInv, TypeOK
    <3>2. "STATUS" \notin scsw'[v].sc
        BY <3>1 DEF Pending
    <3> QED BY <3>1, <3>2, <1>1, QuietSubchannel
  <2> QED BY <1>6, <2>2, <2>3, <2>4, <2>5, <2>6 DEF Intercept
<1> QED BY <1>3, <1>4, <1>5, <1>6 DEF Next

\* Every state of the virtual machine satisfies the inductive invariant.
THEOREM Invariance == Spec => []IndInv
BY IndInvInit, IndInvStep, PTL DEF Spec

\* The variables keep their types under commands, interruptions and the
\* simulated instructions.
THEOREM TypeCorrect == Spec => []TypeOK
<1>1. IndInv => TypeOK
    BY DEF IndInv
<1> QED BY Invariance, <1>1, PTL

\* No MSCH, TSCH, reset or earlier interruption takes a status away before the
\* guest is told of it: spool_exec's status is announced, or the newest queued
\* interruption of the subchannel announces it.
THEOREM StatusesAreAnnounced == Spec => []StatusAnnounced
<1>1. IndInv => StatusAnnounced
    BY DEF IndInv
<1> QED BY Invariance, <1>1, PTL

\* No sequence of SSCH, TSCH, MSCH and resets leaves a subchannel busy whose
\* start function was carried out.
THEOREM SubchannelsGetFree == Spec => []FreeUnlessAbandoned
<1>1. IndInv => FreeUnlessAbandoned
    BY DEF IndInv
<1> QED BY Invariance, <1>1, PTL

\* Unless a status was cleared early, queue_io_interrupt and __io_int keep
\* exactly one interruption for each status not announced, and no other.
THEOREM QueuesAreExact == Spec => []QueueIsExact
<1>1. IndInv => QueueIsExact
  <2> SUFFICES ASSUME IndInv, ~raced, NEW v \in Vdevs
               PROVE  Cardinality({x \in InterruptionsQueued : int_io[x[1]][x[2]].ssid = v})
                        = IF Pending(v) /\ v \notin told THEN 1 ELSE 0
      BY DEF QueueIsExact
  <2> DEFINE S == {x \in InterruptionsQueued : int_io[x[1]][x[2]].ssid = v}
  <2>1. \A x \in S : /\ x[1] \in Iscs /\ x[2] \in 1..Len(int_io[x[1]])
                     /\ x = <<x[1], x[2]>> /\ int_io[x[1]][x[2]].ssid = v
      BY LenProperties DEF InterruptionsQueued, IndInv, TypeOK
  <2>2. CASE Pending(v) /\ v \notin told
    <3> DEFINE c == pmcw[v].isc
    <3>1. c \in Iscs /\ Len(int_io[c]) \in Nat /\ Len(int_io[c]) <= MaxInts
        BY LenProperties DEF IndInv, TypeOK, LengthInv
    <3>2. PICK i \in 1..Len(int_io[c]) : int_io[c][i].ssid = v
      <4>1. \E i \in 1..Len(int_io[c]) : int_io[c][i] = [ssid |-> v, param |-> pmcw[v].param]
          BY <2>2 DEF IndInv, StatusAnnounced
      <4> QED BY <4>1
    <3> HIDE DEF c
    <3>3. <<c, i>> \in S
        BY <3>1, <3>2, BoundAssumption DEF InterruptionsQueued
    <3>4. ASSUME NEW x \in S PROVE x = <<c, i>>
      <4>1. x[1] = c /\ x[2] = i
          BY <2>1, <3>1, <3>2 DEF IndInv, EntryInv
      <4> QED BY <4>1, <2>1
    <3>5. S = {<<c, i>>}
        BY <3>3, <3>4
    <3> QED BY <3>5, <2>2, FS_Singleton
  <2>3. CASE ~(Pending(v) /\ v \notin told)
    <3>1. S = {}
        BY <2>1, <2>3 DEF IndInv, EntryInv
    <3> QED BY <3>1, <2>3, FS_EmptySet
  <2> QED BY <2>2, <2>3
<1> QED BY Invariance, <1>1, PTL
=============================================================================
