------------------------------ MODULE IOProofs ------------------------------
(***************************************************************************)
(* Proofs about IO for every set of submitting tasks, every range of the   *)
(* operation identifiers and every status a device may present.            *)
(***************************************************************************)
EXTENDS IO, Integers, Sequences, Functions, SequenceTheorems, TLAPS

-----------------------------------------------------------------------------
(* What list_add_tail and list_del do to a list: a sequence in which no    *)
(* element occurs twice.                                                   *)

\* list_add_tail of an element that is not linked keeps a list a list: its
\* elements are the old ones and the new one, each once.
LEMMA AppendFacts ==
    ASSUME NEW S, NEW s \in Seq(S), NEW x \in S
    PROVE  /\ Append(s, x) \in Seq(S)
           /\ Append(s, x) # <<>>
           /\ Range(Append(s, x)) = Range(s) \cup {x}
           /\ IsInjective(s) /\ x \notin Range(s) => IsInjective(Append(s, x))
<1> DEFINE a == Append(s, x)
<1>1. /\ a \in Seq(S) /\ Len(a) = Len(s) + 1 /\ Len(s) \in Nat
      /\ DOMAIN a = 1..Len(a) /\ DOMAIN s = 1..Len(s)
      /\ \A i \in 1..Len(s) : a[i] = s[i]
      /\ a[Len(s) + 1] = x
  BY AppendProperties, LenProperties
<1>2. a # <<>>
  BY <1>1, EmptySeq
<1> HIDE DEF a
<1>3. Range(a) = Range(s) \cup {x}
  <2>1. ASSUME NEW y \in Range(a) PROVE y \in Range(s) \cup {x}
    BY <1>1 DEF Range
  <2>2. ASSUME NEW y \in Range(s) \cup {x} PROVE y \in Range(a)
    BY <1>1 DEF Range
  <2> QED BY <2>1, <2>2
<1>4. ASSUME IsInjective(s), x \notin Range(s) PROVE IsInjective(a)
  BY <1>1, <1>4 DEF IsInjective, Range
<1> QED BY <1>1, <1>2, <1>3, <1>4 DEF a

\* list_del of the first element of a list leaves all the others.
LEMMA TailFacts ==
    ASSUME NEW S, NEW s \in Seq(S), s # <<>>, IsInjective(s)
    PROVE  /\ Head(s) \in S
           /\ Head(s) \in Range(s)
           /\ Tail(s) \in Seq(S)
           /\ Range(Tail(s)) = Range(s) \ {Head(s)}
           /\ IsInjective(Tail(s))
<1> DEFINE a == Tail(s)
           h == Head(s)
<1>1. /\ a \in Seq(S) /\ Len(a) = Len(s) - 1 /\ Len(s) \in Nat \ {0}
      /\ DOMAIN a = 1..Len(a) /\ DOMAIN s = 1..Len(s)
      /\ \A i \in 1..Len(a) : a[i] = s[i + 1]
      /\ h = s[1] /\ h \in S
  BY HeadTailProperties, LenProperties, EmptySeq
<1> HIDE DEF a, h
<1>2. h \in Range(s)
  BY <1>1 DEF Range
<1>3. Range(a) = Range(s) \ {h}
  <2>1. ASSUME NEW y \in Range(a) PROVE y \in Range(s) \ {h}
    BY <1>1, SMTT(40) DEF Range, IsInjective
  <2>2. ASSUME NEW y \in Range(s) \ {h} PROVE y \in Range(a)
    <3>1. PICK i \in 1..Len(s) : y = s[i]
      BY <1>1 DEF Range
    <3>2. i - 1 \in 1..Len(a) /\ a[i - 1] = y
      BY <1>1, <3>1
    <3> QED BY <1>1, <3>2 DEF Range
  <2> QED BY <2>1, <2>2
<1>4. IsInjective(a)
  BY <1>1, SMTT(40) DEF IsInjective
<1> QED BY <1>1, <1>2, <1>3, <1>4 DEF a, h

\* Two sequences with the same elements in the same places are the same.
LEMMA SameSequence ==
    ASSUME NEW S, NEW s \in Seq(S), NEW t \in Seq(S), Len(s) = Len(t),
           \A i \in 1..Len(s) : s[i] = t[i]
    PROVE  s = t
OBVIOUS

\* A sequence with an element put in front of it.
LEMMA ConsFacts ==
    ASSUME NEW S, NEW x \in S, NEW s \in Seq(S)
    PROVE  /\ <<x>> \o s \in Seq(S)
           /\ <<x>> \o s # <<>>
           /\ Head(<<x>> \o s) = x
           /\ Tail(<<x>> \o s) = s
           /\ \A y \in S : Append(<<x>> \o s, y) = <<x>> \o Append(s, y)
<1>1. <<x>> \in Seq(S) /\ Len(<<x>>) = 1 /\ <<x>>[1] = x
  OBVIOUS
<1>2. PICK a \in Seq(S) : a = <<x>> \o s
  BY <1>1, ConcatProperties
<1>3. /\ Len(a) = Len(s) + 1 /\ Len(s) \in Nat
      /\ a[1] = x
      /\ \A i \in 1..Len(s) : a[i + 1] = s[i]
  BY <1>1, <1>2, ConcatProperties, LenProperties
<1>4. a # <<>> /\ Head(a) = x
  BY <1>3, EmptySeq
<1>5. Tail(a) = s
  <2>1. /\ Tail(a) \in Seq(S) /\ Len(Tail(a)) = Len(s)
        /\ \A i \in 1..Len(s) : Tail(a)[i] = s[i]
    BY <1>3, <1>4, HeadTailProperties
  <2> QED BY <2>1, SameSequence
<1>6. ASSUME NEW y \in S PROVE Append(a, y) = <<x>> \o Append(s, y)
  <2>1. PICK b \in Seq(S) : b = Append(s, y)
    BY AppendProperties
  <2>2. Len(b) = Len(s) + 1 /\ (\A i \in 1..Len(s) : b[i] = s[i]) /\ b[Len(s) + 1] = y
    BY <2>1, AppendProperties
  <2>3. PICK c \in Seq(S) : c = <<x>> \o b
    BY <1>1, ConcatProperties
  <2>4. Len(c) = Len(s) + 2 /\ c[1] = x /\ \A i \in 1..(Len(s) + 1) : c[i + 1] = b[i]
    BY <1>1, <1>3, <2>2, <2>3, ConcatProperties
  <2>5. PICK d \in Seq(S) : d = Append(a, y)
    BY AppendProperties
  <2>6. Len(d) = Len(s) + 2 /\ (\A i \in 1..(Len(s) + 1) : d[i] = a[i]) /\ d[Len(s) + 2] = y
    BY <1>3, <2>5, AppendProperties
  <2>7. ASSUME NEW i \in 1..Len(c) PROVE c[i] = d[i]
    <3>1. CASE i = 1
      BY <3>1, <1>3, <2>4, <2>6
    <3>2. CASE i # 1 /\ i # Len(s) + 2
      <4>1. PICK j \in 1..Len(s) : i = j + 1
        <5>1. i - 1 \in 1..Len(s) /\ i = (i - 1) + 1
          BY <3>2, <1>3, <2>4
        <5> QED BY <5>1
      <4>2. j \in 1..(Len(s) + 1) /\ j + 1 \in 1..(Len(s) + 1)
        BY <1>3
      <4>3. c[j + 1] = s[j] /\ d[j + 1] = s[j]
        BY <4>2, <1>3, <2>2, <2>4, <2>6
      <4> QED BY <4>1, <4>3
    <3>3. CASE i # 1 /\ i = Len(s) + 2
      <4>1. i - 1 \in 1..(Len(s) + 1) /\ (i - 1) + 1 = i /\ i - 1 = Len(s) + 1
        BY <3>3, <1>3, <2>4
      <4> QED BY <4>1, <3>3, <2>2, <2>4, <2>6
    <3> QED BY <3>1, <3>2, <3>3
  <2>8. c = d
    BY <2>4, <2>6, <2>7, SameSequence
  <2> QED BY <2>1, <2>3, <2>5, <2>8
<1> QED BY <1>2, <1>4, <1>5, <1>6

\* A sequence is its first element in front of the rest.
LEMMA SplitFacts ==
    ASSUME NEW S, NEW s \in Seq(S), s # <<>>
    PROVE  <<Head(s)>> \o Tail(s) = s
<1>1. /\ Head(s) \in S /\ Tail(s) \in Seq(S) /\ Len(Tail(s)) = Len(s) - 1
      /\ \A i \in 1..Len(Tail(s)) : Tail(s)[i] = s[i + 1]
      /\ Len(s) \in Nat \ {0} /\ Head(s) = s[1]
  BY HeadTailProperties, LenProperties, EmptySeq
<1>2. <<Head(s)>> \in Seq(S) /\ Len(<<Head(s)>>) = 1 /\ <<Head(s)>>[1] = Head(s)
  BY <1>1
<1>3. PICK a \in Seq(S) : a = <<Head(s)>> \o Tail(s)
  BY <1>1, <1>2, ConcatProperties
<1>4. Len(a) = Len(s) /\ \A i \in 1..Len(s) :
          a[i] = IF i <= 1 THEN <<Head(s)>>[i] ELSE Tail(s)[i - 1]
  BY <1>1, <1>2, <1>3, ConcatProperties
<1>5. ASSUME NEW i \in 1..Len(s) PROVE a[i] = s[i]
  <2>1. CASE i = 1
    BY <2>1, <1>1, <1>2, <1>4
  <2>2. CASE i # 1
    <3>1. i - 1 \in 1..Len(Tail(s)) /\ (i - 1) + 1 = i /\ ~(i <= 1)
      BY <2>2, <1>1
    <3>2. Tail(s)[i - 1] = s[i]
      BY <3>1, <1>1
    <3> QED BY <3>1, <3>2, <1>4
  <2> QED BY <2>1, <2>2
<1> QED BY <1>3, <1>4, <1>5, SameSequence

-----------------------------------------------------------------------------

Errors == {0, EBUSY, EAGAIN, EINVAL, EUCHECK}
SchStates == {"idle", "active", "pending", "device", "gone"}

\* The queue that q_cur = c and q_out = q stand for.
Fifo(c, q) == (IF c = None THEN <<>> ELSE <<c>>) \o q

\* What __submit_io does: the operations stay the same ones in the same order,
\* and either one is under way, or none waits, or the start of the first one
\* was refused.
LEMMA SubmitFacts ==
    ASSUME TypeOK,
           NEW cur \in Tasks \cup {None}, NEW q \in Seq(Tasks), NEW s \in SchStates,
           NEW e \in [Tasks -> Errors],
           IsInjective(q), cur \notin Range(q),
           SubmitIo(cur, q, s, e)
    PROVE  /\ q_out' \in Seq(Tasks) /\ q_cur' \in Tasks \cup {None}
           /\ sch' \in SchStates /\ err' \in [Tasks -> Errors]
           /\ intparm' \in 0..(ParamMod - 1) /\ started' \in Tasks \cup {None}
           /\ IsInjective(q_out') /\ q_cur' \notin Range(q_out')
           /\ \A t \in Tasks :
                 t \in Range(q_out') \/ t = q_cur' <=> t \in Range(q) \/ t = cur
           /\ q_cur' = None /\ q_out' # <<>> => err'[Head(q_out')] \in {EBUSY, EINVAL}
           /\ cur = None /\ q_cur' # None =>
                 /\ s \in {"idle", "device"} /\ sch' = "active"
                 /\ started' = q_cur' /\ intparm' = param[q_cur']
           /\ sch' = s \/ (s \in {"idle", "device"} /\ sch' = "active")
           /\ cur # None =>
                 /\ q_cur' = cur /\ q_out' = q /\ sch' = s /\ err' = e
                 /\ started' = started /\ intparm' = intparm
           /\ \A t \in Tasks \ Range(q) : err'[t] = e[t]
           /\ Fifo(q_cur', q_out') = Fifo(cur, q)
<1>0. None \notin Tasks /\ ParamMod \in Nat \ {0}
  BY TaskAssumption, ParamAssumption
<1>1. CASE cur # None \/ q = <<>>
  <2>1. /\ q_cur' = cur /\ q_out' = q /\ sch' = s /\ err' = e
        /\ intparm' = intparm /\ started' = started
    BY <1>1 DEF SubmitIo
  <2>2. q_cur' = None => q_out' = <<>>
    BY <1>1, <2>1
  <2>3. cur = None => q_cur' = None
    BY <2>1
  <2> QED BY <1>0, <2>1, <2>2, <2>3 DEF TypeOK, Errors, SchStates
<1>2. CASE cur = None /\ q # <<>>
  <2>1. /\ Head(q) \in Tasks /\ Head(q) \in Range(q) /\ Tail(q) \in Seq(Tasks)
        /\ Range(Tail(q)) = Range(q) \ {Head(q)} /\ IsInjective(Tail(q))
        /\ <<Head(q)>> \o Tail(q) = q /\ <<>> \o q = q
    BY <1>2, TailFacts, SplitFacts, ConcatEmptySeq
  <2>2. PICK cc \in StartSch(s) :
            IF cc = 0
            THEN /\ q_cur' = Head(q) /\ q_out' = Tail(q)
                 /\ sch' = "active" /\ err' = e
                 /\ started' = Head(q) /\ intparm' = param[Head(q)]
            ELSE /\ q_cur' = None /\ q_out' = q
                 /\ sch' = s /\ err' = [e EXCEPT ![Head(q)] = cc]
                 /\ UNCHANGED <<intparm, started>>
    BY <1>2 DEF SubmitIo
  <2>3. cc \in {0, EBUSY, EINVAL}
    BY <2>2 DEF StartSch, SchStates
  <2>4. CASE cc = 0
    <3>1. /\ q_cur' = Head(q) /\ q_out' = Tail(q)
          /\ sch' = "active" /\ err' = e
          /\ started' = Head(q) /\ intparm' = param[Head(q)]
      BY <2>2, <2>4
    <3>2. Fifo(q_cur', q_out') = q /\ Fifo(cur, q) = q
      BY <1>0, <1>2, <2>1, <3>1, ZenonT(60) DEF Fifo
    <3>3. intparm' \in 0..(ParamMod - 1)
      BY <2>1, <3>1 DEF TypeOK
    <3>4. s \in {"idle", "device"}
      BY <2>2, <2>4 DEF StartSch, SchStates, EBUSY, EINVAL
    <3> QED BY <1>0, <1>2, <2>1, <3>1, <3>2, <3>3, <3>4, SMTT(40) DEF TypeOK, SchStates
  <2>5. CASE cc # 0
    <3>1. /\ q_cur' = None /\ q_out' = q
          /\ sch' = s /\ err' = [e EXCEPT ![Head(q)] = cc]
          /\ intparm' = intparm /\ started' = started
      BY <2>2, <2>5
    <3>2. Fifo(q_cur', q_out') = Fifo(cur, q)
      BY <1>2, <3>1
    <3>3. err' \in [Tasks -> Errors] /\ err'[Head(q_out')] \in {EBUSY, EINVAL}
      BY <2>1, <2>3, <2>5, <3>1 DEF Errors
    <3> QED BY <1>0, <1>2, <2>1, <3>1, <3>2, <3>3 DEF TypeOK
  <2> QED BY <2>4, <2>5
<1> QED BY <1>1, <1>2

-----------------------------------------------------------------------------
(* The invariant.                                                          *)

LEMMA InitInv == Init => IndInv
<1> SUFFICES ASSUME Init PROVE IndInv
  OBVIOUS
<1>0. None \notin Tasks /\ ParamMod \in Nat \ {0} /\ 0 \in 0..(ParamMod - 1)
  BY TaskAssumption, ParamAssumption
<1>1. TypeOK
  <2>1. q_out \in Seq(Tasks)
    BY DEF Init
  <2> QED BY <1>0, <2>1 DEF Init, TypeOK
<1>2. q_out = <<>> /\ Range(q_out) = {} /\ IsInjective(q_out)
  BY DEF Init, Range, IsInjective
<1>3. OneHome
  BY <1>0, <1>2 DEF Init, OneHome
<1> QED BY <1>1, <1>2, <1>3 DEF Init, IndInv, InterruptsMatch, NothingIdles, FreshInv,
         StatusInv

\* The first operation of q_out is one that waits.
LEMMA HeadWaits ==
    ASSUME IndInv, q_out # <<>>
    PROVE  Head(q_out) \in Tasks /\ Head(q_out) \in Range(q_out)
           /\ submit[Head(q_out)] = "wait" /\ ~done[Head(q_out)]
<1>1. q_out \in Seq(Tasks) /\ IsInjective(q_out)
  BY DEF IndInv, TypeOK, OneHome
<1>2. Head(q_out) \in Tasks /\ Head(q_out) \in Range(q_out)
  BY <1>1, TailFacts
<1> QED BY <1>2 DEF IndInv, OneHome

LEMMA SubchannelInv ==
    ASSUME IndInv, Subchannel
    PROVE  IndInv'
<1>0. None \notin Tasks /\ \A s \in Statuses : s \subseteq {"CE", "DE", "UC"} /\ s # {}
  BY TaskAssumption, StatusAssumption
<1>1. /\ UNCHANGED <<counter, submit, param, err, done, q_out, q_cur, intparm, started,
                     devsLock, halted>>
      /\ sch' \in {"pending", "gone"}
      /\ q_cur # None => sch' = "pending"
      /\ status' \subseteq {"CE", "DE", "UC", "ATTN"}
      /\ q_cur # None => "ATTN" \notin status'
      /\ sch' = "pending" <=> status' # {}
  <2>1. CASE \E s \in Statuses : Present(s) \/ PresentDeviceEnd(s)
    BY <1>0, <2>1 DEF Present, PresentDeviceEnd, ops, queues
  <2>2. CASE Attention \/ Detach
    BY <2>2 DEF Attention, Detach, ops, queues, IndInv, InterruptsMatch, StatusInv, TypeOK
  <2> QED BY <2>1, <2>2 DEF Subchannel
<1>2. TypeOK'
  BY <1>1 DEF IndInv, TypeOK
<1>3. OneHome' /\ NothingIdles'
  BY <1>1 DEF IndInv, OneHome, NothingIdles
<1>4. InterruptsMatch'
  BY <1>1 DEF IndInv, InterruptsMatch, IsCpuInitiated
<1>5. FreshInv' /\ StatusInv'
  BY <1>1 DEF IndInv, FreshInv, StatusInv
<1> QED BY <1>2, <1>3, <1>4, <1>5 DEF IndInv

LEMMA SubmitInitInv ==
    ASSUME IndInv, NEW t \in Tasks, SubmitInit(t)
    PROVE  IndInv'
<1>0. None \notin Tasks /\ ParamMod \in Nat \ {0}
  BY TaskAssumption, ParamAssumption
<1>1. /\ submit[t] = "no" /\ submit' = [submit EXCEPT ![t] = "init"]
      /\ counter' = (counter + 1) % ParamMod
      /\ param' = [param EXCEPT ![t] = counter']
      /\ err' = [err EXCEPT ![t] = 0] /\ done' = [done EXCEPT ![t] = FALSE]
      /\ UNCHANGED <<q_out, q_cur, sch, status, intparm, started, devsLock, halted>>
  BY DEF SubmitInit, queues, subchannel
<1>2. counter' \in 0..(ParamMod - 1)
  BY <1>0, <1>1 DEF IndInv, TypeOK
<1>3. TypeOK'
  BY <1>1, <1>2 DEF IndInv, TypeOK
<1>4. t # q_cur /\ t \notin Range(q_out)
  BY <1>1 DEF IndInv, OneHome
<1>5. OneHome'
  BY <1>1, <1>4 DEF IndInv, OneHome, TypeOK
<1>6. InterruptsMatch'
  BY <1>1, <1>4 DEF IndInv, InterruptsMatch, IsCpuInitiated, TypeOK
<1>7. NothingIdles'
  <2> SUFFICES ASSUME q_cur = None, q_out # <<>>
               PROVE  err'[Head(q_out)] \in {EBUSY, EINVAL}
    BY <1>1 DEF NothingIdles
  <2>1. Head(q_out) \in Tasks /\ Head(q_out) # t
    BY <1>4, HeadWaits
  <2> QED BY <1>1, <2>1 DEF IndInv, NothingIdles, TypeOK
<1>8. FreshInv' /\ StatusInv'
  BY <1>1 DEF IndInv, FreshInv, StatusInv, TypeOK
<1> QED BY <1>3, <1>5, <1>6, <1>7, <1>8 DEF IndInv

LEMMA SubmitQueueInv ==
    ASSUME IndInv, NEW t \in Tasks, SubmitQueue(t)
    PROVE  IndInv' /\ Fifo(q_cur', q_out') = Fifo(q_cur, Append(q_out, t))
<1>0. None \notin Tasks
  BY TaskAssumption
<1>1. /\ submit[t] = "init" /\ submit' = [submit EXCEPT ![t] = "wait"]
      /\ SubmitIo(q_cur, Append(q_out, t), sch, err)
      /\ UNCHANGED <<counter, param, done, status, devsLock, halted>>
  BY DEF SubmitQueue, ops
<1>2. t # q_cur /\ t \notin Range(q_out) /\ ~done[t]
  BY <1>1, <1>0 DEF IndInv, OneHome, FreshInv
<1>3. PICK q \in Seq(Tasks) : q = Append(q_out, t)
  BY AppendProperties DEF IndInv, TypeOK
<1>4. IsInjective(q) /\ Range(q) = Range(q_out) \cup {t} /\ q_cur \notin Range(q)
  BY <1>2, <1>3, AppendFacts DEF IndInv, TypeOK, OneHome
<1>5. /\ q_out' \in Seq(Tasks) /\ q_cur' \in Tasks \cup {None}
      /\ sch' \in SchStates /\ err' \in [Tasks -> Errors]
      /\ intparm' \in 0..(ParamMod - 1) /\ started' \in Tasks \cup {None}
      /\ IsInjective(q_out') /\ q_cur' \notin Range(q_out')
      /\ \A u \in Tasks : u \in Range(q_out') \/ u = q_cur' <=> u \in Range(q) \/ u = q_cur
      /\ q_cur' = None /\ q_out' # <<>> => err'[Head(q_out')] \in {EBUSY, EINVAL}
      /\ q_cur = None /\ q_cur' # None =>
            /\ sch \in {"idle", "device"} /\ sch' = "active"
            /\ started' = q_cur' /\ intparm' = param[q_cur']
      /\ sch' = sch \/ (sch \in {"idle", "device"} /\ sch' = "active")
      /\ q_cur # None =>
            q_cur' = q_cur /\ sch' = sch /\ started' = started /\ intparm' = intparm
      /\ Fifo(q_cur', q_out') = Fifo(q_cur, q)
  <2>1. SubmitIo(q_cur, q, sch, err)
    BY <1>1, <1>3
  <2>2. q_cur \in Tasks \cup {None} /\ sch \in SchStates /\ err \in [Tasks -> Errors] /\ TypeOK
    BY DEF IndInv, TypeOK, SchStates, Errors
  <2> QED BY <1>4, <2>1, <2>2, SubmitFacts, SMTT(40)
<1>6. TypeOK'
  BY <1>1, <1>5 DEF IndInv, TypeOK, SchStates, Errors
<1>7. OneHome'
  BY <1>1, <1>2, <1>4, <1>5 DEF IndInv, OneHome, TypeOK
<1>8. InterruptsMatch'
  <2>1. CASE q_cur = None
    <3>1. q_cur' # None => "ATTN" \notin status'
      BY <2>1, <1>1, <1>5 DEF IndInv, StatusInv
    <3> QED BY <2>1, <3>1, <1>0, <1>1, <1>5 DEF InterruptsMatch, IsCpuInitiated
  <2>2. CASE q_cur # None
    BY <2>2, <1>1, <1>5 DEF IndInv, InterruptsMatch, IsCpuInitiated
  <2> QED BY <2>1, <2>2
<1>9. NothingIdles'
  BY <1>5 DEF NothingIdles
<1>10. FreshInv' /\ StatusInv'
  BY <1>1, <1>5 DEF IndInv, FreshInv, StatusInv, TypeOK
<1> QED BY <1>3, <1>5, <1>6, <1>7, <1>8, <1>9, <1>10 DEF IndInv

\* submit_io returns, or a task takes or releases devs_lock.
LEMMA OtherStepInv ==
    ASSUME IndInv, NEW t \in Tasks, SubmitReturn(t) \/ LockDevices(t) \/ UnlockDevices(t)
    PROVE  IndInv'
<1>1. /\ UNCHANGED <<counter, param, err, done, q_out, q_cur, sch, status, intparm, started,
                     halted>>
      /\ submit' = submit \/ (done[t] /\ submit' = [submit EXCEPT ![t] = "no"])
      /\ devsLock' \in Tasks \cup {None}
  BY DEF SubmitReturn, LockDevices, UnlockDevices, ops, queues, subchannel, IndInv, TypeOK
<1>2. TypeOK'
  BY <1>1 DEF IndInv, TypeOK
<1>3. OneHome'
  BY <1>1 DEF IndInv, OneHome, TypeOK
<1>4. InterruptsMatch' /\ NothingIdles' /\ StatusInv'
  BY <1>1 DEF IndInv, InterruptsMatch, IsCpuInitiated, NothingIdles, StatusInv
<1>5. FreshInv'
  BY <1>1 DEF IndInv, FreshInv, TypeOK
<1> QED BY <1>2, <1>3, <1>4, <1>5 DEF IndInv

\* An interruption that leaves the operation under way: Channel End alone.
LEMMA EarlyInterruptInv ==
    ASSUME IndInv, NEW after \in TestSch, IoInterrupt(after), q_cur # None, Ended(after) = EAGAIN
    PROVE  IndInv' /\ UNCHANGED <<q_cur, q_out, done, submit>>
<1>0. None \notin Tasks
  BY TaskAssumption
<1>1. /\ err' = [err EXCEPT ![q_cur] = EAGAIN] /\ sch' = after /\ status' = {}
      /\ sch = "pending" /\ after # "gone" /\ DefaultIoHandler(status) = EAGAIN
      /\ UNCHANGED <<counter, param, done, q_out, q_cur, intparm, started, submit, devsLock, halted>>
  BY DEF IndInv, InterruptsMatch, IoInterrupt, CpuInitiatedIo, DevInitiatedIo, Ended,
         EAGAIN, EINVAL, queues
<1>2. q_cur \in Tasks /\ sch' = "device"
  <2>1. "UC" \notin status /\ "DE" \notin status /\ "ATTN" \notin status /\ status # {}
    BY <1>1 DEF IndInv, InterruptsMatch, StatusInv, DefaultIoHandler, EAGAIN, EUCHECK
  <2>2. "CE" \in status
    BY <1>1, <2>1 DEF IndInv, TypeOK
  <2> QED BY <1>1, <2>1, <2>2 DEF IndInv, TypeOK, TestSch
<1>3. TypeOK'
  BY <1>1, <1>2 DEF IndInv, TypeOK
<1> QED BY <1>1, <1>2, <1>3 DEF IndInv, OneHome, InterruptsMatch, IsCpuInitiated, NothingIdles,
         FreshInv, StatusInv

\* An interruption that completes the operation under way.
LEMMA CompletionInv ==
    ASSUME IndInv, NEW after \in TestSch, IoInterrupt(after), q_cur # None, Ended(after) # EAGAIN
    PROVE  /\ IndInv'
           /\ done' = [done EXCEPT ![q_cur] = TRUE]
           /\ err'[q_cur] = Ended(after)
           /\ after = "gone" => sch' = "gone"
           /\ Fifo(q_cur', q_out') = q_out
<1>0. None \notin Tasks
  BY TaskAssumption
<1> SUFFICES ASSUME NEW c \in Tasks, c = q_cur, NEW q \in Seq(Tasks), q = q_out,
                    NEW e \in {0, EUCHECK, EINVAL}, e = Ended(after)
             PROVE  /\ IndInv' /\ done' = [done EXCEPT ![c] = TRUE]
                    /\ err'[c] = e /\ Fifo(q_cur', q_out') = q
                    /\ after = "gone" => sch' = "gone"
  BY DEF IndInv, TypeOK, DefaultIoHandler, Ended
<1>1. /\ SubmitIo(None, q, after, [err EXCEPT ![c] = e])
      /\ done' = [done EXCEPT ![c] = TRUE] /\ status' = {}
      /\ UNCHANGED <<counter, param, submit, devsLock, halted>>
  BY DEF IndInv, InterruptsMatch, IoInterrupt, CpuInitiatedIo, DevInitiatedIo
<1>2. after \in {"idle", "device", "gone"}
  BY DEF TestSch
<1>3. PICK er \in [Tasks -> Errors] : er = [err EXCEPT ![c] = e]
  BY DEF IndInv, TypeOK, Errors
<1>4. IsInjective(q) /\ None \notin Range(q) /\ c \notin Range(q)
  <2>1. Range(q) \subseteq Tasks
    BY DEF Range
  <2> QED BY <1>0, <2>1 DEF IndInv, OneHome
<1>5. /\ q_out' \in Seq(Tasks) /\ q_cur' \in Tasks \cup {None}
      /\ sch' \in SchStates /\ err' \in [Tasks -> Errors]
      /\ intparm' \in 0..(ParamMod - 1) /\ started' \in Tasks \cup {None}
      /\ IsInjective(q_out') /\ q_cur' \notin Range(q_out')
      /\ \A t \in Tasks : t \in Range(q_out') \/ t = q_cur' <=> t \in Range(q)
      /\ q_cur' = None /\ q_out' # <<>> => err'[Head(q_out')] \in {EBUSY, EINVAL}
      /\ q_cur' # None => started' = q_cur' /\ intparm' = param[q_cur'] /\ sch' = "active"
      /\ sch' = after \/ (after \in {"idle", "device"} /\ sch' = "active")
      /\ \A t \in Tasks \ Range(q) : err'[t] = er[t]
      /\ Fifo(q_cur', q_out') = Fifo(None, q)
  <2>1. PICK s \in SchStates : s = after
    BY <1>2 DEF SchStates
  <2>2. PICK n \in Tasks \cup {None} : n = None
    OBVIOUS
  <2>3. SubmitIo(n, q, s, er) /\ TypeOK /\ n \notin Range(q)
    BY <1>1, <1>3, <1>4, <2>1, <2>2 DEF IndInv
  <2>4. /\ q_out' \in Seq(Tasks) /\ q_cur' \in Tasks \cup {None}
        /\ sch' \in SchStates /\ err' \in [Tasks -> Errors]
        /\ intparm' \in 0..(ParamMod - 1) /\ started' \in Tasks \cup {None}
        /\ IsInjective(q_out') /\ q_cur' \notin Range(q_out')
        /\ \A t \in Tasks : t \in Range(q_out') \/ t = q_cur' <=> t \in Range(q) \/ t = n
        /\ q_cur' = None /\ q_out' # <<>> => err'[Head(q_out')] \in {EBUSY, EINVAL}
        /\ n = None /\ q_cur' # None =>
              /\ s \in {"idle", "device"} /\ sch' = "active"
              /\ started' = q_cur' /\ intparm' = param[q_cur']
        /\ sch' = s \/ (s \in {"idle", "device"} /\ sch' = "active")
        /\ \A t \in Tasks \ Range(q) : err'[t] = er[t]
        /\ Fifo(q_cur', q_out') = Fifo(n, q)
    BY <1>4, <2>3, SubmitFacts, SMTT(60)
  <2> QED BY <1>0, <2>1, <2>2, <2>4
<1>6. TypeOK'
  BY <1>1, <1>5 DEF IndInv, TypeOK, SchStates, Errors
<1>7. OneHome'
  BY <1>1, <1>4, <1>5 DEF IndInv, OneHome, TypeOK
<1>8. InterruptsMatch' /\ NothingIdles'
  BY <1>1, <1>5 DEF InterruptsMatch, IsCpuInitiated, NothingIdles
<1>9. FreshInv' /\ StatusInv'
  <2>1. submit[c] = "wait"
    BY DEF IndInv, OneHome
  <2> QED BY <1>1, <1>2, <1>5, <2>1 DEF IndInv, FreshInv, StatusInv, TypeOK
<1>10. err'[c] = e
  BY <1>3, <1>4, <1>5 DEF IndInv, TypeOK
<1>11. Fifo(None, q) = q
  BY ConcatEmptySeq DEF Fifo
<1>12. after = "gone" => sch' = "gone"
  BY <1>5
<1> QED BY <1>1, <1>5, <1>6, <1>7, <1>8, <1>9, <1>10, <1>11, <1>12 DEF IndInv

\* An interruption that belongs to no operation.
LEMMA DeviceInterruptInv ==
    ASSUME IndInv, halted = "no", NEW after \in TestSch, IoInterrupt(after), q_cur = None
    PROVE  IndInv' /\ UNCHANGED <<q_cur, q_out, done, submit>>
<1>1. /\ sch' \in {"idle", "device", "gone"} /\ status' = {}
      /\ halted' \in {"no", "bug"}
      /\ UNCHANGED <<counter, param, err, done, q_out, q_cur, intparm, started, submit, devsLock>>
  BY DEF IoInterrupt, CpuInitiatedIo, DevInitiatedIo, IsCpuInitiated, TestSch, ops, queues
<1>2. TypeOK'
  BY <1>1 DEF IndInv, TypeOK
<1> QED BY <1>1, <1>2 DEF IndInv, OneHome, InterruptsMatch, NothingIdles, FreshInv, StatusInv

LEMMA StepInv == IndInv /\ [Next]_vars => IndInv'
<1> SUFFICES ASSUME IndInv, [Next]_vars PROVE IndInv'
  OBVIOUS
<1>1. CASE Subchannel
  BY <1>1, SubchannelInv
<1>2. ASSUME NEW t \in Tasks, SubmitInit(t) PROVE IndInv'
  BY <1>2, SubmitInitInv
<1>3. ASSUME NEW t \in Tasks, SubmitQueue(t) PROVE IndInv'
  BY <1>3, SubmitQueueInv
<1>4. ASSUME NEW t \in Tasks, SubmitReturn(t) \/ LockDevices(t) \/ UnlockDevices(t)
      PROVE  IndInv'
  BY <1>4, OtherStepInv
<1>5. ASSUME halted = "no", NEW after \in TestSch, IoInterrupt(after) PROVE IndInv'
  BY <1>5, EarlyInterruptInv, CompletionInv, DeviceInterruptInv
<1>6. CASE IoInterruptHangs \/ UNCHANGED vars
  <2>1. /\ UNCHANGED <<counter, submit, param, err, done, q_out, q_cur, sch, status, intparm,
                       started, devsLock>>
        /\ halted' \in {"no", "spin", "bug"}
    BY <1>6 DEF IoInterruptHangs, vars, ops, queues, subchannel, IndInv, TypeOK
  <2>2. TypeOK'
    BY <2>1 DEF IndInv, TypeOK
  <2> QED BY <2>1, <2>2 DEF IndInv, OneHome, InterruptsMatch, IsCpuInitiated, NothingIdles,
          FreshInv, StatusInv
<1> QED BY <1>1, <1>2, <1>3, <1>4, <1>5, <1>6 DEF Next

\* The inductive invariant of the I/O code holds in every reachable state.
THEOREM Invariance == Spec => []IndInv
<1> QED BY InitInv, StepInv, PTL DEF Spec

\* The fields of every operation, of the device and of the subchannel keep
\* their types, also when op_id_counter wraps around.
THEOREM TypeCorrect == Spec => []TypeOK
<1>1. IndInv => TypeOK
  BY DEF IndInv
<1> QED BY <1>1, Invariance, PTL

\* q_cur and q_out refer to exactly the operations that are waited for, so the
\* handler never writes into the stack of a task that has returned.
THEOREM EveryOperationHasOneHome == Spec => []OneHome
<1>1. IndInv => OneHome
  BY DEF IndInv
<1> QED BY <1>1, Invariance, PTL

\* The comparison of parameters in __io_int_handler never takes the end of the
\* operation under way for a device-initiated interruption.
THEOREM InterruptsAreMatched == Spec => []InterruptsMatch
<1>1. IndInv => InterruptsMatch
  BY DEF IndInv
<1> QED BY <1>1, Invariance, PTL

\* The device is left without work only after a refused start.
THEOREM NothingIsLeftIdle == Spec => []NothingIdles
<1>1. IndInv => NothingIdles
  BY DEF IndInv
<1> QED BY <1>1, Invariance, PTL

\* An operation is completed only by an interruption of its own, and with the
\* error that the status calls for.
THEOREM CompletionsAreOwn == Spec => CompletionIsOwn
<1> DEFINE A == \A t \in Tasks : done'[t] /\ ~done[t] =>
                   /\ sch = "pending" /\ started = t
                   /\ \/ err'[t] = 0 /\ "DE" \in status
                      \/ err'[t] = EUCHECK /\ "DE" \notin status /\ "UC" \in status
                      \/ err'[t] = EINVAL /\ sch' = "gone"
<1>1. ASSUME IndInv, Next PROVE A
  <2>1. ASSUME NEW after \in TestSch, IoInterrupt(after), q_cur # None, Ended(after) # EAGAIN
        PROVE  A
    <3>1. /\ done' = [done EXCEPT ![q_cur] = TRUE]
          /\ err'[q_cur] = Ended(after)
          /\ after = "gone" => sch' = "gone"
          /\ sch = "pending" /\ started = q_cur
      BY <1>1, <2>1, CompletionInv DEF IoInterrupt, IndInv, InterruptsMatch
    <3>2. \/ Ended(after) = 0 /\ "DE" \in status
          \/ Ended(after) = EUCHECK /\ "DE" \notin status /\ "UC" \in status
          \/ Ended(after) = EINVAL /\ after = "gone"
      BY <2>1 DEF DefaultIoHandler, Ended
    <3> QED BY <1>1, <3>1, <3>2 DEF IndInv, TypeOK
  <2>2. ASSUME \A t \in Tasks : done'[t] => done[t] PROVE A
    BY <2>2
  <2>3. ASSUME NEW after \in TestSch, IoInterrupt(after) PROVE A
    BY <1>1, <2>1, <2>2, <2>3, EarlyInterruptInv, DeviceInterruptInv DEF Next
  <2>4. ASSUME NEW t \in Tasks, SubmitInit(t) PROVE A
    BY <1>1, <2>2, <2>4 DEF SubmitInit, IndInv, TypeOK
  <2>5. CASE done' = done
    BY <2>2, <2>5
  <2> QED BY <1>1, <2>3, <2>4, <2>5 DEF Next, Subchannel, Present, PresentDeviceEnd,
          Attention, Detach, SubmitQueue, SubmitReturn, LockDevices, UnlockDevices,
          IoInterruptHangs, ops
<1>2. IndInv /\ [Next]_vars => [A]_vars
  BY <1>1
<1> QED BY <1>2, Invariance, PTL DEF Spec, CompletionIsOwn

-----------------------------------------------------------------------------
(* The device implements OpQueue.                                          *)

\* The operations of the queue are the one under way and those of q_out.
LEMMA FifoElements ==
    ASSUME NEW c \in Tasks \cup {None}, NEW q \in Seq(Tasks), NEW t \in Tasks,
           t # c, t \notin Range(q)
    PROVE  /\ \A i \in 1..Len(Fifo(c, q)) : Fifo(c, q)[i] # t
           /\ Fifo(c, Append(q, t)) = Append(Fifo(c, q), t)
<1>0. None \notin Tasks
  BY TaskAssumption
<1>1. /\ \A i \in 1..Len(q) : q[i] # t
      /\ Append(q, t) \in Seq(Tasks) /\ <<>> \o q = q /\ <<>> \o Append(q, t) = Append(q, t)
  BY AppendProperties, ConcatEmptySeq DEF Range
<1>2. CASE c = None
  BY <1>1, <1>2 DEF Fifo
<1>3. CASE c # None
  <2>1. c \in Tasks /\ Fifo(c, q) = <<c>> \o q /\ Fifo(c, Append(q, t)) = <<c>> \o Append(q, t)
    BY <1>3 DEF Fifo
  <2>2. Fifo(c, Append(q, t)) = Append(Fifo(c, q), t)
    BY <2>1, ConsFacts
  <2>3. PICK a \in Seq(Tasks) : a = <<c>> \o q
    BY <2>1, ConsFacts
  <2>4. /\ Len(a) = Len(q) + 1 /\ Len(q) \in Nat
        /\ \A i \in 1..(1 + Len(q)) : a[i] = IF i <= 1 THEN <<c>>[i] ELSE q[i - 1]
    <3>1. <<c>> \in Seq(Tasks) /\ Len(<<c>>) = 1
      BY <2>1
    <3> QED BY <2>3, <3>1, ConcatProperties, LenProperties
  <2>5. ASSUME NEW i \in 1..Len(a) PROVE a[i] # t
    <3>1. CASE i = 1
      BY <2>4, <3>1
    <3>2. CASE i # 1
      <4>1. i - 1 \in 1..Len(q) /\ ~(i <= 1) /\ i \in 1..(1 + Len(q))
        BY <2>4, <3>2
      <4> QED BY <1>1, <2>4, <4>1
    <3> QED BY <3>1, <3>2
  <2> QED BY <2>1, <2>2, <2>3, <2>5
<1> QED BY <1>2, <1>3

\* The mapping of Abstract.
Queue == Current \o q_out
Completed == {t \in Tasks : done[t]}

LEMMA QueueIsFifo == Queue = Fifo(q_cur, q_out) /\ Queue' = Fifo(q_cur', q_out')
BY DEF Queue, Current, Fifo

LEMMA RenewStep ==
    ASSUME IndInv, NEW t \in Tasks, SubmitInit(t)
    PROVE  Abstract!Renew(t)
<1>1. /\ submit[t] = "no" /\ done' = [done EXCEPT ![t] = FALSE]
      /\ UNCHANGED <<q_out, q_cur>>
  BY DEF SubmitInit, queues
<1>2. /\ t # q_cur /\ t \notin Range(q_out)
      /\ q_cur \in Tasks \cup {None} /\ q_out \in Seq(Tasks)
  BY <1>1 DEF IndInv, OneHome, TypeOK
<1>3. \A i \in 1..Len(Queue) : Queue[i] # t
  BY <1>2, FifoElements, QueueIsFifo, ZenonT(60)
<1>4. Completed' = Completed \ {t}
  BY <1>1 DEF Completed, IndInv, TypeOK
<1>5. Queue' = Queue
  BY <1>1, QueueIsFifo
<1> QED BY <1>3, <1>4, <1>5 DEF Abstract!Renew, Queue, Completed

LEMMA SubmitStep ==
    ASSUME IndInv, NEW t \in Tasks, SubmitQueue(t)
    PROVE  Abstract!Submit(t)
<1>1. submit[t] = "init" /\ done' = done
  BY DEF SubmitQueue, ops
<1>2. /\ t # q_cur /\ t \notin Range(q_out) /\ ~done[t]
      /\ q_cur \in Tasks \cup {None} /\ q_out \in Seq(Tasks)
  BY <1>1 DEF IndInv, OneHome, TypeOK, FreshInv
<1>3. (\A i \in 1..Len(Queue) : Queue[i] # t) /\ Queue' = Append(Queue, t)
  BY <1>2, FifoElements, QueueIsFifo, SubmitQueueInv
<1>4. Completed' = Completed /\ t \notin Completed
  BY <1>1, <1>2 DEF Completed
<1> QED BY <1>3, <1>4 DEF Abstract!Submit, Queue, Completed

LEMMA CompleteStep ==
    ASSUME IndInv, NEW after \in TestSch, IoInterrupt(after), q_cur # None, Ended(after) # EAGAIN
    PROVE  Abstract!Complete
<1>1. done' = [done EXCEPT ![q_cur] = TRUE] /\ Queue' = q_out
  BY CompletionInv, QueueIsFifo
<1>2. q_cur \in Tasks /\ q_out \in Seq(Tasks) /\ Queue = <<q_cur>> \o q_out
  BY QueueIsFifo DEF IndInv, TypeOK, Fifo
<1>3. Queue # <<>> /\ Head(Queue) = q_cur /\ Tail(Queue) = q_out
  BY <1>2, ConsFacts
<1>4. Completed' = Completed \cup {q_cur}
  BY <1>1, <1>2 DEF Completed, IndInv, TypeOK
<1> QED BY <1>1, <1>3, <1>4 DEF Abstract!Complete, Queue, Completed

\* Every behaviour of the device is one of the queue the drivers rely on:
\* operations are completed one at a time, once, and in the order submitted.
THEOREM Refinement == Spec => ImplementsOpQueue
<1>1. Init => Abstract!Init
  <2> SUFFICES ASSUME Init PROVE Queue = <<>> /\ Completed = {}
    BY DEF Abstract!Init, Queue, Completed
  <2> QED BY DEF Init, Queue, Current, Completed
<1>2. IndInv /\ [Next]_vars => [Abstract!Next]_<<Queue, Completed>>
  <2> SUFFICES ASSUME IndInv, [Next]_vars
               PROVE  Abstract!Next \/ UNCHANGED <<Queue, Completed>>
    OBVIOUS
  <2>1. ASSUME NEW t \in Tasks, SubmitInit(t) PROVE Abstract!Next
    BY <2>1, RenewStep DEF Abstract!Next
  <2>2. ASSUME NEW t \in Tasks, SubmitQueue(t) PROVE Abstract!Next
    BY <2>2, SubmitStep DEF Abstract!Next
  <2>3. CASE UNCHANGED <<q_cur, q_out, done>>
    BY <2>3 DEF Queue, Current, Completed
  <2>4. ASSUME halted = "no", NEW after \in TestSch, IoInterrupt(after)
        PROVE  Abstract!Next \/ UNCHANGED <<Queue, Completed>>
    <3>1. CASE q_cur # None /\ Ended(after) # EAGAIN
      BY <2>4, <3>1, CompleteStep DEF Abstract!Next
    <3>2. CASE q_cur = None \/ Ended(after) = EAGAIN
      BY <2>3, <2>4, <3>2, EarlyInterruptInv, DeviceInterruptInv
    <3> QED BY <3>1, <3>2
  <2> QED BY <2>1, <2>2, <2>3, <2>4 DEF Next, vars, Subchannel, Present, PresentDeviceEnd,
          Attention, Detach, SubmitReturn, LockDevices, UnlockDevices, IoInterruptHangs,
          ops, queues
<1> QED BY <1>1, <1>2, Invariance, PTL DEF Spec, ImplementsOpQueue, Abstract!Spec, Queue, Completed
=============================================================================
