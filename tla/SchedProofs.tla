---------------------------- MODULE SchedProofs ----------------------------
(***************************************************************************)
(* Proofs about Sched for every set of tasks, set of mutexes and slice.    *)
(***************************************************************************)
EXTENDS Sched, Integers, Sequences, Functions, SequenceTheorems, TLAPS

-----------------------------------------------------------------------------
(* What list_add_tail and list_del do to a list: a sequence in which no    *)
(* element occurs twice.                                                   *)

\* list_add_tail of an element that is not linked keeps a list a list: its
\* elements are the old ones and the new one, each once.
LEMMA AppendFacts ==
    ASSUME NEW S, NEW s \in Seq(S), NEW x \in S
    PROVE  /\ Append(s, x) \in Seq(S)
           /\ Append(s, x) # <<>>
           /\ Range(Append(s, x)) = Range(s) \cup {x}
           /\ IsInjective(s) /\ x \notin Range(s) => IsInjective(Append(s, x))
<1> DEFINE a == Append(s, x)
<1>1. /\ a \in Seq(S) /\ Len(a) = Len(s) + 1 /\ Len(s) \in Nat
      /\ DOMAIN a = 1..Len(a) /\ DOMAIN s = 1..Len(s)
      /\ \A i \in 1..Len(s) : a[i] = s[i]
      /\ a[Len(s) + 1] = x
  BY AppendProperties, LenProperties
<1>2. a # <<>>
  BY <1>1, EmptySeq
<1> HIDE DEF a
<1>3. Range(a) = Range(s) \cup {x}
  <2>1. ASSUME NEW y \in Range(a) PROVE y \in Range(s) \cup {x}
    BY <1>1 DEF Range
  <2>2. ASSUME NEW y \in Range(s) \cup {x} PROVE y \in Range(a)
    BY <1>1 DEF Range
  <2> QED BY <2>1, <2>2
<1>4. ASSUME IsInjective(s), x \notin Range(s) PROVE IsInjective(a)
  BY <1>1, <1>4 DEF IsInjective, Range
<1> QED BY <1>1, <1>2, <1>3, <1>4 DEF a

\* list_del of the first element of a list leaves all the others.
LEMMA TailFacts ==
    ASSUME NEW S, NEW s \in Seq(S), s # <<>>, IsInjective(s)
    PROVE  /\ Head(s) \in S
           /\ Head(s) \in Range(s)
           /\ Tail(s) \in Seq(S)
           /\ Range(Tail(s)) = Range(s) \ {Head(s)}
           /\ IsInjective(Tail(s))
<1> DEFINE a == Tail(s)
           h == Head(s)
<1>1. /\ a \in Seq(S) /\ Len(a) = Len(s) - 1 /\ Len(s) \in Nat \ {0}
      /\ DOMAIN a = 1..Len(a) /\ DOMAIN s = 1..Len(s)
      /\ \A i \in 1..Len(a) : a[i] = s[i + 1]
      /\ h = s[1] /\ h \in S
  BY HeadTailProperties, LenProperties, EmptySeq
<1> HIDE DEF a, h
<1>2. h \in Range(s)
  BY <1>1 DEF Range
<1>3. Range(a) = Range(s) \ {h}
  <2>1. ASSUME NEW y \in Range(a) PROVE y \in Range(s) \ {h}
    BY <1>1, SMTT(40) DEF Range, IsInjective
  <2>2. ASSUME NEW y \in Range(s) \ {h} PROVE y \in Range(a)
    <3>1. PICK i \in 1..Len(s) : y = s[i]
      BY <1>1 DEF Range
    <3>2. i - 1 \in 1..Len(a) /\ a[i - 1] = y
      BY <1>1, <3>1
    <3> QED BY <1>1, <3>2 DEF Range
  <2> QED BY <2>1, <2>2
<1>4. IsInjective(a)
  BY <1>1, SMTT(40) DEF IsInjective
<1> QED BY <1>1, <1>2, <1>3, <1>4 DEF a, h

-----------------------------------------------------------------------------

\* What __schedule does to the lists, whichever task it dispatches: they stay
\* well formed, and only the task that gives up the processor can become
\* TASK_LOCKED.
LEMMA ScheduleFacts ==
    ASSUME TypeOK, ListInv, ~corrupt, NEW ns \in {SLEEPING, LOCKED, ZOMBIE},
           current = Idle => ns = SLEEPING,
           NEW remaining, Schedule(ns, remaining)
    PROVE  /\ current' \in Tasks \cup {Idle}
           /\ left' \in 0..Slice
           /\ current' # Idle => left' = Slice
           /\ runnable' \in Seq(Tasks)
           /\ IsInjective(runnable')
           /\ processes' = IF ns = ZOMBIE THEN processes \ {current} ELSE processes
           /\ Range(runnable') \subseteq processes'
           /\ current' \in processes' \cup {Idle}
           /\ current' \notin Range(runnable')
           /\ state' \in [Tasks -> {RUNNING, SLEEPING, LOCKED, ZOMBIE}]
           /\ \A t \in Tasks : state'[t] = LOCKED <=>
                 IF t = current THEN ns = LOCKED ELSE state[t] = LOCKED
           /\ \A t \in processes' :
                 state'[t] = LOCKED <=> t # current' /\ t \notin Range(runnable')
<1> DEFINE q == IF current = Idle \/ ns \in {ZOMBIE, LOCKED} THEN runnable
                ELSE Append(runnable, current)
           st == IF current = Idle THEN state ELSE [state EXCEPT ![current] = ns]
           force == current # Idle /\ remaining >= Slice
           procs == IF ns = ZOMBIE THEN processes \ {current} ELSE processes
<1>0. Idle \notin Tasks /\ Slice \in Nat \ {0}
  BY TaskAssumption, SliceAssumption
<1>1. Dispatch(force, q, st) /\ processes' = procs
  <2>1. CASE current = Idle
    BY <2>1 DEF Schedule, Dispatch
  <2>2. CASE current # Idle
    BY <2>2 DEF Schedule, Dispatch
  <2> QED BY <2>1, <2>2
<1>2. /\ q \in Seq(Tasks)
      /\ Range(q) = IF current = Idle \/ ns \in {ZOMBIE, LOCKED} THEN Range(runnable)
                    ELSE Range(runnable) \cup {current}
      /\ IsInjective(q)
  <2>1. CASE current = Idle \/ ns \in {ZOMBIE, LOCKED}
    BY <2>1 DEF TypeOK, ListInv
  <2>2. CASE ~(current = Idle \/ ns \in {ZOMBIE, LOCKED})
    BY <2>2, AppendFacts DEF TypeOK, ListInv
  <2> QED BY <2>1, <2>2
<1>3. /\ st \in [Tasks -> {RUNNING, SLEEPING, LOCKED, ZOMBIE}]
      /\ \A t \in Tasks : st[t] = LOCKED <=>
             IF t = current THEN ns = LOCKED ELSE state[t] = LOCKED
  BY <1>0 DEF TypeOK
<1>4. /\ Range(q) \subseteq procs
      /\ \A t \in procs : st[t] = LOCKED <=> t \notin Range(q)
  BY <1>0, <1>2, <1>3 DEF ListInv, TypeOK, SLEEPING, LOCKED, ZOMBIE
<1> HIDE DEF q, st, force, procs
<1>5. procs \subseteq Tasks
  BY DEF TypeOK, procs
<1>6. CASE force \/ q = <<>>
  <2>1. current' = Idle /\ left' = 0 /\ runnable' = q /\ state' = st
    BY <1>1, <1>6 DEF Dispatch
  <2> QED BY <1>0, <1>1, <1>2, <1>3, <1>4, <1>5, <2>1 DEF procs
<1>7. CASE ~(force \/ q = <<>>)
  <2>1. /\ current' = Head(q) /\ left' = Slice /\ runnable' = Tail(q)
        /\ state' = [st EXCEPT ![Head(q)] = RUNNING]
    BY <1>1, <1>7 DEF Dispatch
  <2>2. /\ Head(q) \in Tasks /\ Head(q) \in Range(q) /\ Tail(q) \in Seq(Tasks)
        /\ Range(Tail(q)) = Range(q) \ {Head(q)} /\ IsInjective(Tail(q))
    BY <1>2, <1>7, TailFacts
  <2>3. \A t \in Tasks : state'[t] = LOCKED <=> t # Head(q) /\ st[t] = LOCKED
    BY <1>3, <2>1, <2>2 DEF RUNNING, LOCKED
  <2>4. st[Head(q)] # LOCKED
    BY <1>4, <2>2
  <2>5. state' \in [Tasks -> {RUNNING, SLEEPING, LOCKED, ZOMBIE}]
    BY <1>3, <2>1, <2>2
  <2> QED BY <1>0, <1>1, <1>2, <1>3, <1>4, <1>5, <2>1, <2>2, <2>3, <2>4, <2>5 DEF procs
<1> QED BY <1>6, <1>7

-----------------------------------------------------------------------------
(* The parts of the invariant that the code of the mutex works with.       *)

CodeInv == LabelInv /\ QueueInv /\ StateInv /\ WakeInv

\* A reschedule that blocks nobody leaves the mutexes as they are.
LEMMA RescheduleKeeps ==
    ASSUME IndInv, ~corrupt, NEW ns \in {SLEEPING, ZOMBIE}, NEW remaining,
           ns = ZOMBIE => At("run") /\ held[current] = {},
           Schedule(ns, remaining), UNCHANGED <<code, mutexes, corrupt>>
    PROVE  (ListInv /\ CodeInv)'
<1> USE DEF IndInv
<1>1. current = Idle => ns = SLEEPING
  BY DEF At
<1>2. ns \in {SLEEPING, LOCKED, ZOMBIE} /\ TypeOK /\ ListInv
  OBVIOUS
<1>3. ListInv'
  BY <1>1, <1>2, ScheduleFacts DEF ListInv
<1>4. \A t \in Tasks : state'[t] = LOCKED <=> state[t] = LOCKED
  <2>1. \A t \in Tasks : t = current => state[t] # LOCKED
    BY TaskAssumption DEF ListInv
  <2>2. ns # LOCKED
    BY DEF SLEEPING, LOCKED, ZOMBIE
  <2> QED BY <1>1, <1>2, <2>1, <2>2, ScheduleFacts
<1>5. processes' = IF ns = ZOMBIE THEN processes \ {current} ELSE processes
  BY <1>1, <1>2, ScheduleFacts
<1>6. /\ pc' = pc /\ want' = want /\ waking' = waking /\ held' = held
      /\ mval' = mval /\ qlock' = qlock /\ queue' = queue /\ corrupt' = corrupt
  BY DEF code, mutexes
<1>7. LabelInv'
  BY <1>4, <1>5, <1>6 DEF LabelInv, At
<1>8. QueueInv'
  BY <1>4, <1>6 DEF QueueInv
<1>9. StateInv'
  BY <1>6 DEF StateInv, MutualExclusion, NoWaiterLeftBehind, Owns, HandedOver
<1>10. WakeInv'
  BY <1>4, <1>6 DEF WakeInv, HandedOver
<1> QED BY <1>3, <1>7, <1>8, <1>9, <1>10 DEF CodeInv

LEMMA TickKeeps ==
    ASSUME IndInv, ~corrupt, Tick
    PROVE  IndInv'
<1> USE DEF IndInv
<1>0. /\ Slice \in Nat \ {0} /\ Idle \notin Tasks
      /\ phase \in 0..(Slice - 1) /\ left \in 0..Slice
  BY TaskAssumption, SliceAssumption DEF TypeOK
<1>1. phase' = IF phase + 1 = Slice THEN 0 ELSE phase + 1
  BY <1>0 DEF Tick
<1>2. CASE phase' = 0
  <2>1. Schedule(SLEEPING, left - 1) /\ UNCHANGED <<code, mutexes, corrupt>>
    BY <1>2 DEF Tick
  <2>2. TypeOK'
    BY <1>0, <1>2, <2>1, ScheduleFacts DEF TypeOK, code, mutexes
  <2>3. (ListInv /\ CodeInv)'
    BY <2>1, RescheduleKeeps, SLEEPING # ZOMBIE DEF SLEEPING, ZOMBIE
  <2>4. SliceBound'
    BY <1>0, <1>2, <2>1, ScheduleFacts DEF SliceBound
  <2> QED BY <2>2, <2>3, <2>4 DEF CodeInv
<1>3. CASE phase' # 0
  <2>1. /\ left' = IF current = Idle THEN left ELSE left - 1
        /\ UNCHANGED <<current, lists, code, mutexes, corrupt>>
    BY <1>3 DEF Tick
  <2>2. SliceBound'
    BY <1>0, <1>1, <1>3, <2>1 DEF SliceBound
  <2>3. TypeOK'
    BY <1>0, <1>1, <1>3, <2>1 DEF TypeOK, SliceBound, lists, code, mutexes
  <2>4. (ListInv /\ CodeInv)'
    BY <2>1 DEF ListInv, CodeInv, LabelInv, QueueInv, StateInv, WakeInv, MutualExclusion,
        NoWaiterLeftBehind, Owns, HandedOver, lists, code, mutexes
  <2> QED BY <2>2, <2>3, <2>4 DEF CodeInv
<1> QED BY <1>2, <1>3

LEMMA YieldKeeps ==
    ASSUME IndInv, ~corrupt, Yield
    PROVE  IndInv'
<1>1. /\ Schedule(SLEEPING, left) /\ UNCHANGED <<phase, code, mutexes, corrupt>>
      /\ current # Idle /\ TypeOK /\ ListInv
  BY DEF Yield, At, IndInv
<1>2. TypeOK'
  BY <1>1, ScheduleFacts DEF TypeOK, code, mutexes
<1>3. (ListInv /\ CodeInv)'
  BY <1>1, RescheduleKeeps DEF SLEEPING, ZOMBIE
<1>4. SliceBound'
  BY <1>1, ScheduleFacts, SliceAssumption DEF SliceBound, TypeOK
<1> QED BY <1>2, <1>3, <1>4 DEF IndInv, CodeInv

LEMMA ExitKeeps ==
    ASSUME IndInv, ~corrupt, Exit
    PROVE  IndInv'
<1>1. /\ Schedule(ZOMBIE, left) /\ UNCHANGED <<phase, code, mutexes, corrupt>>
      /\ At("run") /\ held[current] = {}
      /\ current # Idle /\ TypeOK /\ ListInv
  BY DEF Exit, At, IndInv
<1>2. TypeOK'
  BY <1>1, ScheduleFacts DEF TypeOK, code, mutexes
<1>3. (ListInv /\ CodeInv)'
  BY <1>1, RescheduleKeeps
<1>4. SliceBound'
  BY <1>1, ScheduleFacts, SliceAssumption DEF SliceBound, TypeOK
<1> QED BY <1>2, <1>3, <1>4 DEF IndInv, CodeInv

LEMMA CreateTaskKeeps ==
    ASSUME IndInv, ~corrupt, NEW t \in Tasks, CreateTask(t)
    PROVE  IndInv'
<1> USE DEF IndInv
<1>1. /\ t \notin processes /\ t \notin Range(runnable) /\ t # current
      /\ state' = [state EXCEPT ![t] = SLEEPING]
      /\ processes' = processes \cup {t}
      /\ runnable' = Append(runnable, t)
      /\ phase' = phase /\ left' = left /\ current' = current
      /\ pc' = pc /\ want' = want /\ waking' = waking /\ held' = held
      /\ mval' = mval /\ qlock' = qlock /\ queue' = queue /\ corrupt' = corrupt
  BY TaskAssumption DEF CreateTask, At, ListInv, cpu, code, mutexes
<1>2. /\ runnable' \in Seq(Tasks) /\ IsInjective(runnable')
      /\ Range(runnable') = Range(runnable) \cup {t}
  BY <1>1, AppendFacts DEF TypeOK, ListInv
<1>3. TypeOK'
  BY <1>1, <1>2 DEF TypeOK
<1>4. ListInv'
  BY <1>1, <1>2 DEF ListInv, TypeOK, SLEEPING, LOCKED
<1>5. /\ state'[t] # LOCKED /\ pc[t] = "run"
      /\ \A u \in Tasks : u # t => state'[u] = state[u]
  BY <1>1 DEF TypeOK, LabelInv, SLEEPING, LOCKED
<1>6. LabelInv'
  BY <1>1, <1>5 DEF LabelInv
<1>7. QueueInv'
  BY <1>1, <1>5 DEF QueueInv
<1>8. StateInv'
  BY <1>1 DEF StateInv, MutualExclusion, NoWaiterLeftBehind, Owns, HandedOver
<1>9. WakeInv'
  BY <1>1, <1>5 DEF WakeInv, HandedOver
<1>10. SliceBound'
  BY <1>1 DEF SliceBound
<1> QED BY <1>3, <1>4, <1>6, <1>7, <1>8, <1>9, <1>10

\* Blocking a task that is queued, or for which a waker is on its way.
LEMMA ScheduleBlockedKeeps ==
    ASSUME IndInv, ~corrupt, ScheduleBlocked
    PROVE  IndInv'
<1> USE DEF IndInv
<1> DEFINE c == current
<1>1. /\ c \in Tasks /\ c \in processes /\ pc[c] = "block"
      /\ pc' = [pc EXCEPT ![c] = "wait"]
      /\ Schedule(LOCKED, left)
      /\ phase' = phase /\ want' = want /\ waking' = waking /\ held' = held
      /\ mval' = mval /\ qlock' = qlock /\ queue' = queue /\ corrupt' = corrupt
  BY DEF ScheduleBlocked, At, Goto, mutexes, TypeOK, ListInv
<1>2. TypeOK'
  BY <1>1, ScheduleFacts, TaskAssumption DEF TypeOK, Labels
<1>3. /\ processes' = processes
      /\ \A t \in Tasks : state'[t] = LOCKED <=> t = c \/ state[t] = LOCKED
  BY <1>1, ScheduleFacts, TaskAssumption DEF LOCKED, ZOMBIE
<1>4. ListInv'
  BY <1>1, ScheduleFacts, TaskAssumption DEF ListInv
<1>11. SliceBound'
  BY <1>1, ScheduleFacts, SliceAssumption, TaskAssumption DEF SliceBound, TypeOK
<1> HIDE DEF c
<1>5. /\ pc'[c] = "wait"
      /\ \A t \in Tasks : t # c => pc'[t] = pc[t]
  BY <1>1 DEF TypeOK
<1>6. LabelInv'
  BY <1>1, <1>3, <1>5 DEF LabelInv, Spinning
<1>7. QueueInv'
  BY <1>1, <1>3, <1>5 DEF QueueInv
<1>8. \A t \in Tasks, m \in Mutexes : HandedOver(m, t)' <=> HandedOver(m, t)
  BY <1>1, <1>5 DEF HandedOver
<1>9. StateInv'
  BY <1>1, <1>5, <1>8 DEF StateInv, MutualExclusion, NoWaiterLeftBehind, Owns
<1>10. WakeInv'
  BY <1>1, <1>3, <1>5, <1>8 DEF WakeInv, TypeOK
<1> QED BY <1>2, <1>4, <1>6, <1>7, <1>9, <1>10, <1>11

-----------------------------------------------------------------------------
(* Steps of the mutex code that leave the scheduler alone.                 *)

LEMMA QuietKeeps ==
    ASSUME IndInv, UNCHANGED <<cpu, lists, corrupt>>, TypeOK', CodeInv'
    PROVE  IndInv'
BY DEF IndInv, CodeInv, ListInv, SliceBound, cpu, lists

\* The task that executes the code exists and is not blocked.
LEMMA RunnerFacts ==
    ASSUME IndInv, NEW l, At(l)
    PROVE  /\ current \in Tasks /\ current \in processes
           /\ pc[current] = l /\ state[current] # LOCKED
BY DEF At, IndInv, ListInv, TypeOK

\* spin_lock(&lock->queue_lock): nobody was inside the critical section.
LEMMA SpinLockKeeps ==
    ASSUME IndInv, ~corrupt, NEW from, NEW to, SpinLock(from, to),
           <<from, to>> \in {<<"slow", "try">>, <<"unlock", "unlq">>}
    PROVE  IndInv'
<1> USE DEF IndInv
<1> DEFINE c == current
           m == want[c]
<1>1. /\ c \in Tasks /\ c \in processes /\ pc[c] = from /\ state[c] # LOCKED
      /\ m \in Mutexes
      /\ qlock[m] = NoTask
      /\ qlock' = [qlock EXCEPT ![m] = c]
      /\ pc' = [pc EXCEPT ![c] = to]
      /\ want' = want /\ waking' = waking /\ held' = held
      /\ mval' = mval /\ queue' = queue /\ corrupt' = corrupt
      /\ state' = state /\ processes' = processes
      /\ UNCHANGED <<cpu, lists, corrupt>>
  <2>1. At(from)
    BY DEF SpinLock
  <2>2. m # 0
    BY <2>1, RunnerFacts DEF LabelInv
  <2> QED BY <2>1, <2>2, RunnerFacts DEF SpinLock, Goto, TypeOK, lists
<1> HIDE DEF m, c
<1>2. TypeOK'
  BY <1>1 DEF TypeOK, Labels, cpu, lists
<1>3. /\ pc'[c] = to /\ \A t \in Tasks : t # c => pc'[t] = pc[t]
      /\ qlock'[m] = c /\ \A k \in Mutexes : k # m => qlock'[k] = qlock[k]
      /\ from # "run" /\ to # "run" /\ to \in Spinning
      /\ m = want[c]
      /\ <<from, to>> = <<"slow", "try">> \/ <<from, to>> = <<"unlock", "unlq">>
  BY <1>1 DEF TypeOK, Spinning, m
<1>4. LabelInv'
  <2>1. \A t \in Tasks : t # c /\ pc[t] \in Spinning => qlock'[want[t]] = t
    BY <1>1, <1>3, TaskAssumption DEF LabelInv, TypeOK
  <2> QED BY <1>1, <1>3, <2>1 DEF LabelInv
<1>5. QueueInv'
  BY <1>1, <1>3 DEF QueueInv
<1>6. \A t \in Tasks, k \in Mutexes : HandedOver(k, t)' <=> HandedOver(k, t)
  BY <1>1, <1>3 DEF HandedOver
<1>7. StateInv'
  BY <1>1, <1>3, <1>6 DEF StateInv, MutualExclusion, NoWaiterLeftBehind, Owns
<1>8. WakeInv'
  BY <1>1, <1>3, <1>6 DEF WakeInv, TypeOK
<1> QED BY <1>1, <1>2, <1>4, <1>5, <1>7, <1>8, QuietKeeps DEF CodeInv

\* spin_unlock(&lock->queue_lock), on the four ways out of the critical
\* sections.
LEMMA SpinUnlockKeeps ==
    ASSUME IndInv, ~corrupt, NEW from, NEW to, SpinUnlock(from, to),
           <<from, to>> \in {<<"got", "run">>, <<"queued", "block">>,
                             <<"unlrel", "run">>, <<"wake1", "wake2">>}
    PROVE  IndInv'
<1> USE DEF IndInv
<1> DEFINE c == current
           m == want[c]
<1>1. /\ c \in Tasks /\ c \in processes /\ pc[c] = from /\ state[c] # LOCKED
      /\ m \in Mutexes /\ qlock[m] = c
      /\ qlock' = [qlock EXCEPT ![m] = NoTask]
      /\ pc' = [pc EXCEPT ![c] = to]
      /\ want' = IF to = "run" THEN [want EXCEPT ![c] = 0] ELSE want
      /\ waking' = waking /\ held' = held
      /\ mval' = mval /\ queue' = queue /\ corrupt' = corrupt
      /\ state' = state /\ processes' = processes
      /\ UNCHANGED <<cpu, lists, corrupt>>
  <2>1. At(from)
    BY DEF SpinUnlock
  <2>2. m # 0 /\ qlock[m] = c
    BY <2>1, RunnerFacts DEF LabelInv, Spinning
  <2> QED BY <2>1, <2>2, RunnerFacts DEF SpinUnlock, Return, Goto, TypeOK, lists
<1> HIDE DEF m, c
<1>2. TypeOK'
  BY <1>1 DEF TypeOK, Labels, cpu, lists
<1>3. /\ pc'[c] = to /\ \A t \in Tasks : t # c => pc'[t] = pc[t] /\ want'[t] = want[t]
      /\ want'[c] = IF to = "run" THEN 0 ELSE m
      /\ \A k \in Mutexes : k # m => qlock'[k] = qlock[k]
      /\ m = want[c] /\ m # 0
      /\ \/ <<from, to>> = <<"got", "run">>
         \/ <<from, to>> = <<"queued", "block">>
         \/ <<from, to>> = <<"unlrel", "run">>
         \/ <<from, to>> = <<"wake1", "wake2">>
  BY <1>1, MutexAssumption DEF TypeOK, m
<1>4. LabelInv'
  <2>1. \A t \in Tasks : t # c /\ pc[t] \in Spinning => want[t] # m
    BY <1>1 DEF LabelInv
  <2>2. \A t \in Tasks : pc[t] \in Spinning => want[t] \in Mutexes
    BY DEF LabelInv, Spinning, TypeOK
  <2> QED BY <1>1, <1>3, <2>1, <2>2 DEF LabelInv, Spinning
<1>5. QueueInv'
  BY <1>1, <1>3, MutexAssumption DEF QueueInv
<1>6. \A t \in Tasks, k \in Mutexes : HandedOver(k, t)' <=> HandedOver(k, t)
  BY <1>1, <1>3, MutexAssumption DEF HandedOver, QueueInv
<1>7. StateInv'
  BY <1>1, <1>3, <1>6 DEF StateInv, MutualExclusion, NoWaiterLeftBehind, Owns
<1>8. WakeInv'
  <2>1. \A u \in Tasks : waking[u] # NoTask => pc[u] \in {"wake1", "wake2"}
    BY DEF LabelInv
  <2>2. \A u \in Tasks : waking[u] # NoTask => want'[u] = want[u]
    BY <1>1, <1>3, <2>1
  <2>3. \A u, w \in Tasks : waking[u] = w => pc[w] \in {"block", "wait"} /\ w # c
    BY <1>1, <1>3 DEF WakeInv, HandedOver
  <2>4. \A u, w \in Tasks : waking[u] = w => HandedOver(want[u], w)'
    <3> SUFFICES ASSUME NEW u \in Tasks, NEW w \in Tasks, waking[u] = w
                 PROVE  HandedOver(want[u], w)'
      OBVIOUS
    <3>1. want'[u] = want[u] /\ want[u] \in Mutexes /\ HandedOver(want[u], w)
      BY <2>2, TaskAssumption DEF WakeInv, TypeOK
    <3>2. want'[w] = want[w] /\ pc'[w] = pc[w] /\ queue' = queue
      BY <1>1, <1>3, <2>3
    <3> QED BY <3>1, <3>2 DEF HandedOver
  <2>5. \A w \in Tasks, k \in Mutexes :
            HandedOver(k, w)' /\ (pc'[w] = "block" \/ state'[w] = LOCKED)
               => HandedOver(k, w) /\ (pc[w] = "block" \/ state[w] = LOCKED)
    BY <1>1, <1>3, <1>6 DEF HandedOver
  <2>6. \A u, w \in Tasks : waking[u] = w => want'[u] # 0
    BY <1>1, <2>2, TaskAssumption DEF WakeInv
  <2> QED BY <1>1, <1>3, <2>3, <2>4, <2>5, <2>6 DEF WakeInv
<1> QED BY <1>1, <1>2, <1>4, <1>5, <1>7, <1>8, QuietKeeps DEF CodeInv

\* The fast path of mutex_lock.
LEMMA MutexLockKeeps ==
    ASSUME IndInv, ~corrupt, NEW m \in Mutexes, MutexLock(m)
    PROVE  IndInv'
<1> USE DEF IndInv
<1> DEFINE c == current
<1>1. /\ c \in Tasks /\ c \in processes /\ pc[c] = "run" /\ want[c] = 0
      /\ waking' = waking /\ qlock' = qlock /\ queue' = queue /\ corrupt' = corrupt
      /\ state' = state /\ processes' = processes
      /\ UNCHANGED <<cpu, lists, corrupt>>
  BY RunnerFacts DEF MutexLock, LabelInv, lists
<1>2. CASE Take(m) /\ UNCHANGED <<pc, want>>
  <2>1. /\ mval[m] = 1 /\ mval' = [mval EXCEPT ![m] = 0]
        /\ held' = [held EXCEPT ![c] = held[c] \cup {m}]
        /\ pc' = pc /\ want' = want
    <3>1. mval[m] = 1 /\ mval[m] - 1 = 0
      BY <1>2 DEF Take, TypeOK
    <3> QED BY <1>1, <1>2, <3>1 DEF Take
  <2> HIDE DEF c
  <2>2. TypeOK'
    BY <1>1, <2>1 DEF TypeOK, cpu, lists
  <2>3. /\ \A t \in Tasks, k \in Mutexes :
              k \in held'[t] <=> k \in held[t] \/ (t = c /\ k = m)
        /\ mval'[m] = 0 /\ \A k \in Mutexes : k # m => mval'[k] = mval[k]
        /\ \A t \in Tasks, k \in Mutexes : HandedOver(k, t)' <=> HandedOver(k, t)
    BY <1>1, <2>1 DEF TypeOK, HandedOver
  <2>4. LabelInv'
    BY <1>1, <2>1, <2>3 DEF LabelInv, TypeOK
  <2>5. QueueInv'
    BY <1>1, <2>1 DEF QueueInv
  <2>6. StateInv'
    <3>1. \A t \in Tasks : ~Owns(t, m)
      BY <2>1 DEF StateInv, MutualExclusion
    <3>2. \A t \in Tasks, k \in Mutexes :
              Owns(t, k)' <=> Owns(t, k) \/ (t = c /\ k = m)
      BY <2>3 DEF Owns
    <3>3. MutualExclusion'
      BY <1>1, <2>3, <3>1, <3>2 DEF StateInv, MutualExclusion
    <3>4. \A k \in Mutexes : mval'[k] = 0 => \E t \in Tasks : Owns(t, k)'
      BY <1>1, <2>3, <3>2 DEF StateInv
    <3>5. \A t \in Tasks : pc'[t] = "add" => mval'[want'[t]] = 0
      BY <1>1, <2>1, <2>3 DEF StateInv, LabelInv, TypeOK
    <3> QED BY <1>1, <2>1, <2>3, <3>3, <3>4, <3>5 DEF StateInv, NoWaiterLeftBehind
  <2>7. WakeInv'
    BY <1>1, <2>1 DEF WakeInv, HandedOver
  <2> QED BY <1>1, <2>2, <2>4, <2>5, <2>6, <2>7, QuietKeeps DEF CodeInv
<1>3. CASE mval[m] = 0 /\ Enter(m, "slow") /\ UNCHANGED <<mval, held>>
  <2>1. /\ pc' = [pc EXCEPT ![c] = "slow"] /\ want' = [want EXCEPT ![c] = m]
        /\ mval' = mval /\ held' = held
    BY <1>3 DEF Enter, Goto
  <2> HIDE DEF c
  <2>2. TypeOK'
    BY <1>1, <2>1 DEF TypeOK, Labels, cpu, lists
  <2>3. /\ pc'[c] = "slow" /\ want'[c] = m /\ m # 0
        /\ \A t \in Tasks : t # c => pc'[t] = pc[t] /\ want'[t] = want[t]
    BY <1>1, <2>1, MutexAssumption DEF TypeOK
  <2>4. LabelInv'
    BY <1>1, <2>1, <2>3 DEF LabelInv, Spinning
  <2>5. QueueInv'
    BY <1>1, <2>1, <2>3 DEF QueueInv
  <2>6. \A t \in Tasks, k \in Mutexes : HandedOver(k, t)' <=> HandedOver(k, t)
    BY <1>1, <2>3 DEF HandedOver
  <2>7. StateInv'
    BY <1>1, <2>1, <2>3, <2>6 DEF StateInv, MutualExclusion, NoWaiterLeftBehind, Owns
  <2>8. WakeInv'
    <3>1. \A u, w \in Tasks : waking[u] = w => u # c /\ w # c /\ want[u] \in Mutexes
      BY <1>1, TaskAssumption DEF WakeInv, HandedOver, LabelInv, TypeOK
    <3> QED BY <1>1, <2>3, <2>6, <3>1 DEF WakeInv, HandedOver
  <2> QED BY <1>1, <2>2, <2>4, <2>5, <2>7, <2>8, QuietKeeps DEF CodeInv
<1> QED BY <1>2, <1>3 DEF MutexLock

\* The second try, under the queue_lock.
LEMMA SlowTryKeeps ==
    ASSUME IndInv, ~corrupt, SlowTry
    PROVE  IndInv'
<1> USE DEF IndInv
<1> DEFINE c == current
           m == want[c]
<1>1. /\ c \in Tasks /\ c \in processes /\ pc[c] = "try"
      /\ m \in Mutexes /\ qlock[m] = c
      /\ want' = want /\ waking' = waking /\ qlock' = qlock /\ queue' = queue
      /\ corrupt' = corrupt /\ state' = state /\ processes' = processes
      /\ UNCHANGED <<cpu, lists, corrupt>>
  <2>1. At("try")
    BY DEF SlowTry
  <2> QED BY <2>1, RunnerFacts DEF SlowTry, LabelInv, Spinning, TypeOK, lists
<1>2. CASE Take(m) /\ Goto("got")
  <2>1. /\ mval[m] = 1 /\ mval' = [mval EXCEPT ![m] = 0]
        /\ held' = [held EXCEPT ![c] = held[c] \cup {m}]
        /\ pc' = [pc EXCEPT ![c] = "got"]
    <3>1. mval[m] = 1 /\ mval[m] - 1 = 0
      BY <1>1, <1>2 DEF Take, TypeOK
    <3> QED BY <1>1, <1>2, <3>1 DEF Take, Goto
  <2> HIDE DEF c, m
  <2>2. TypeOK'
    BY <1>1, <2>1 DEF TypeOK, Labels, cpu, lists
  <2>3. /\ \A t \in Tasks, k \in Mutexes :
              k \in held'[t] <=> k \in held[t] \/ (t = c /\ k = m)
        /\ mval'[m] = 0 /\ \A k \in Mutexes : k # m => mval'[k] = mval[k]
        /\ pc'[c] = "got" /\ \A t \in Tasks : t # c => pc'[t] = pc[t]
        /\ m = want[c]
    BY <1>1, <2>1 DEF TypeOK, m
  <2>4. \A t \in Tasks, k \in Mutexes : HandedOver(k, t)' <=> HandedOver(k, t)
    BY <1>1, <2>3 DEF HandedOver
  <2>5. LabelInv'
    BY <1>1, <2>1, <2>3 DEF LabelInv, TypeOK, Spinning
  <2>6. QueueInv'
    BY <1>1, <2>3 DEF QueueInv
  <2>7. StateInv'
    <3>1. \A t \in Tasks : ~Owns(t, m)
      BY <1>1, <2>1 DEF StateInv, MutualExclusion
    <3>2. \A t \in Tasks, k \in Mutexes :
              Owns(t, k)' <=> Owns(t, k) \/ (t = c /\ k = m)
      BY <2>3, <2>4 DEF Owns
    <3>3. MutualExclusion'
      BY <1>1, <2>3, <3>1, <3>2 DEF StateInv, MutualExclusion
    <3>4. \A k \in Mutexes : mval'[k] = 0 => \E t \in Tasks : Owns(t, k)'
      BY <1>1, <2>3, <3>2 DEF StateInv
    <3>5. \A t \in Tasks : pc'[t] = "add" => mval'[want'[t]] = 0
      BY <1>1, <2>1, <2>3 DEF StateInv, LabelInv, TypeOK
    <3>6. \A t \in Tasks : pc'[t] = "inc" => queue'[want'[t]] = <<>>
      BY <1>1, <2>3 DEF StateInv
    <3> QED BY <1>1, <2>1, <2>3, <3>3, <3>4, <3>5, <3>6 DEF StateInv, NoWaiterLeftBehind
  <2>8. WakeInv'
    <3>1. \A w \in Tasks : pc[w] \in {"block", "wait"} => pc'[w] = pc[w]
      BY <1>1, <2>3
    <3>2. \A w \in Tasks : pc'[w] \in {"block", "wait"} => pc'[w] = pc[w]
      BY <1>1, <2>3
    <3> QED BY <1>1, <2>4, <3>1, <3>2 DEF WakeInv, HandedOver
  <2> QED BY <1>1, <2>2, <2>5, <2>6, <2>7, <2>8, QuietKeeps DEF CodeInv
<1>3. CASE mval[m] = 0 /\ Goto("add") /\ UNCHANGED <<mval, held>>
  <2>1. /\ mval[m] = 0 /\ pc' = [pc EXCEPT ![c] = "add"] /\ mval' = mval /\ held' = held
    BY <1>3 DEF Goto
  <2> HIDE DEF c, m
  <2>2. TypeOK'
    BY <1>1, <2>1 DEF TypeOK, Labels, cpu, lists
  <2>3. /\ pc'[c] = "add" /\ \A t \in Tasks : t # c => pc'[t] = pc[t]
        /\ m = want[c]
    BY <1>1, <2>1 DEF TypeOK, m
  <2>4. \A t \in Tasks, k \in Mutexes : HandedOver(k, t)' <=> HandedOver(k, t)
    BY <1>1, <2>3 DEF HandedOver
  <2>5. LabelInv'
    BY <1>1, <2>1, <2>3 DEF LabelInv, Spinning
  <2>6. QueueInv'
    BY <1>1, <2>3 DEF QueueInv
  <2>7. StateInv'
    BY <1>1, <2>1, <2>3, <2>4 DEF StateInv, MutualExclusion, NoWaiterLeftBehind, Owns
  <2>8. WakeInv'
    BY <1>1, <2>1, <2>3, <2>4 DEF WakeInv, TypeOK
  <2> QED BY <1>1, <2>2, <2>5, <2>6, <2>7, <2>8, QuietKeeps DEF CodeInv
<1> QED BY <1>2, <1>3 DEF SlowTry

\* Queueing: the mutex is still taken, because its state can become 1 only
\* under the queue_lock.
LEMMA SlowAddKeeps ==
    ASSUME IndInv, ~corrupt, SlowAdd
    PROVE  IndInv'
<1> USE DEF IndInv
<1> DEFINE c == current
           m == want[c]
<1>1. /\ c \in Tasks /\ c \in processes /\ pc[c] = "add" /\ state[c] # LOCKED
      /\ m \in Mutexes /\ qlock[m] = c /\ mval[m] = 0
      /\ queue' = [queue EXCEPT ![m] = Append(queue[m], c)]
      /\ pc' = [pc EXCEPT ![c] = "queued"]
      /\ want' = want /\ waking' = waking /\ held' = held
      /\ mval' = mval /\ qlock' = qlock
      /\ corrupt' = corrupt /\ state' = state /\ processes' = processes
      /\ UNCHANGED <<cpu, lists, corrupt>>
  <2>1. At("add")
    BY DEF SlowAdd
  <2> QED BY <2>1, RunnerFacts DEF SlowAdd, Goto, LabelInv, StateInv, Spinning, TypeOK, lists
<1> HIDE DEF c, m
<1>2. \A k \in Mutexes : c \notin Range(queue[k])
  BY <1>1 DEF QueueInv
<1>3. /\ queue[m] \in Seq(Tasks) /\ IsInjective(queue[m])
      /\ Append(queue[m], c) \in Seq(Tasks) /\ IsInjective(Append(queue[m], c))
      /\ Range(Append(queue[m], c)) = Range(queue[m]) \cup {c}
  BY <1>1, <1>2, AppendFacts DEF TypeOK, QueueInv
<1>4. /\ queue'[m] = Append(queue[m], c)
      /\ \A k \in Mutexes : k # m => queue'[k] = queue[k]
      /\ pc'[c] = "queued" /\ \A t \in Tasks : t # c => pc'[t] = pc[t]
      /\ m = want[c]
  BY <1>1 DEF TypeOK, m
<1>5. \A t \in Tasks, k \in Mutexes :
          t \in Range(queue'[k]) <=> t \in Range(queue[k]) \/ (t = c /\ k = m)
  <2> SUFFICES ASSUME NEW t \in Tasks, NEW k \in Mutexes
               PROVE  t \in Range(queue'[k]) <=> t \in Range(queue[k]) \/ (t = c /\ k = m)
    OBVIOUS
  <2>1. CASE k = m
    BY <1>3, <1>4, <2>1
  <2>2. CASE k # m
    BY <1>4, <2>2
  <2> QED BY <2>1, <2>2
<1>6. TypeOK'
  BY <1>1, <1>3 DEF TypeOK, Labels, cpu, lists
<1>7. LabelInv'
  BY <1>1, <1>4 DEF LabelInv, Spinning
<1>8. QueueInv'
  <2>1. \A k \in Mutexes : IsInjective(queue'[k])
    BY <1>3, <1>4 DEF QueueInv
  <2> QED BY <1>1, <1>4, <1>5, <2>1 DEF QueueInv
<1>9. \A t \in Tasks, k \in Mutexes : HandedOver(k, t)' <=> HandedOver(k, t)
  BY <1>1, <1>4, <1>5 DEF HandedOver
<1>10. StateInv'
  <2>1. \A t \in Tasks : pc'[t] = "inc" => queue'[want'[t]] = <<>>
    <3>1. \A t \in Tasks : pc[t] = "inc" => want[t] # m /\ want[t] \in Mutexes
      BY <1>1 DEF LabelInv, Spinning, TypeOK
    <3> QED BY <1>1, <1>4, <3>1 DEF StateInv
  <2>2. NoWaiterLeftBehind'
    BY <1>1, <1>4 DEF NoWaiterLeftBehind, StateInv
  <2> QED BY <1>1, <1>4, <1>9, <2>1, <2>2 DEF StateInv, MutualExclusion, Owns
<1>11. WakeInv'
  BY <1>1, <1>4, <1>9 DEF WakeInv, TypeOK
<1> QED BY <1>1, <1>6, <1>7, <1>8, <1>10, <1>11, QuietKeeps DEF CodeInv

\* The waiter returns from mutex_lock: it had been handed the mutex, because a
\* task on the queue is still blocked.
LEMMA ResumeKeeps ==
    ASSUME IndInv, ~corrupt, Resume
    PROVE  IndInv'
<1> USE DEF IndInv
<1> DEFINE c == current
           m == want[c]
<1>1. /\ c \in Tasks /\ c \in processes /\ pc[c] = "wait" /\ state[c] # LOCKED
      /\ m \in Mutexes
      /\ held' = [held EXCEPT ![c] = held[c] \cup {m}]
      /\ pc' = [pc EXCEPT ![c] = "run"] /\ want' = [want EXCEPT ![c] = 0]
      /\ waking' = waking /\ mval' = mval /\ qlock' = qlock /\ queue' = queue
      /\ corrupt' = corrupt /\ state' = state /\ processes' = processes
      /\ UNCHANGED <<cpu, lists, corrupt>>
  <2>1. At("wait")
    BY DEF Resume
  <2> QED BY <2>1, RunnerFacts DEF Resume, Return, Goto, LabelInv, TypeOK, lists, mutexes
<1> HIDE DEF c, m
<1>2. /\ \A t \in Tasks, k \in Mutexes :
            k \in held'[t] <=> k \in held[t] \/ (t = c /\ k = m)
      /\ pc'[c] = "run" /\ want'[c] = 0
      /\ \A t \in Tasks : t # c => pc'[t] = pc[t] /\ want'[t] = want[t]
      /\ m = want[c] /\ m # 0
  BY <1>1, MutexAssumption DEF TypeOK, m
<1>3. /\ \A k \in Mutexes : c \notin Range(queue[k])
      /\ HandedOver(m, c)
      /\ \A u \in Tasks : waking[u] # c
  BY <1>1, <1>2 DEF QueueInv, HandedOver, WakeInv
<1>4. TypeOK'
  BY <1>1 DEF TypeOK, Labels, cpu, lists
<1>5. LabelInv'
  BY <1>1, <1>2 DEF LabelInv, Spinning, TypeOK
<1>6. QueueInv'
  BY <1>1, <1>2, <1>3 DEF QueueInv
<1>7. \A t \in Tasks, k \in Mutexes : HandedOver(k, t)' <=> HandedOver(k, t) /\ t # c
  BY <1>1, <1>2 DEF HandedOver
<1>8. \A t \in Tasks, k \in Mutexes : Owns(t, k)' <=> Owns(t, k)
  BY <1>2, <1>3, <1>7 DEF Owns, HandedOver
<1>9. StateInv'
  BY <1>1, <1>2, <1>8 DEF StateInv, MutualExclusion, NoWaiterLeftBehind
<1>10. WakeInv'
  <2>1. \A u, w \in Tasks : waking[u] = w => u # c /\ w # c
    BY <1>1, <1>3, TaskAssumption DEF LabelInv
  <2> QED BY <1>1, <1>2, <1>7, <2>1 DEF WakeInv, HandedOver
<1> QED BY <1>1, <1>4, <1>5, <1>6, <1>9, <1>10, QuietKeeps DEF CodeInv

LEMMA MutexUnlockKeeps ==
    ASSUME IndInv, ~corrupt, NEW m \in Mutexes, MutexUnlock(m)
    PROVE  IndInv'
<1> USE DEF IndInv
<1> DEFINE c == current
<1>1. /\ c \in Tasks /\ c \in processes /\ pc[c] = "run" /\ want[c] = 0
      /\ m \in held[c] /\ state[c] # LOCKED
      /\ pc' = [pc EXCEPT ![c] = "unlock"] /\ want' = [want EXCEPT ![c] = m]
      /\ waking' = waking /\ held' = held
      /\ mval' = mval /\ qlock' = qlock /\ queue' = queue
      /\ corrupt' = corrupt /\ state' = state /\ processes' = processes
      /\ UNCHANGED <<cpu, lists, corrupt>>
  BY RunnerFacts DEF MutexUnlock, Enter, Goto, LabelInv, lists, mutexes
<1> HIDE DEF c
<1>2. /\ pc'[c] = "unlock" /\ want'[c] = m /\ m # 0
      /\ \A t \in Tasks : t # c => pc'[t] = pc[t] /\ want'[t] = want[t]
  BY <1>1, MutexAssumption DEF TypeOK
<1>3. TypeOK'
  BY <1>1 DEF TypeOK, Labels, cpu, lists
<1>4. LabelInv'
  BY <1>1, <1>2 DEF LabelInv, Spinning
<1>5. QueueInv'
  BY <1>1, <1>2 DEF QueueInv
<1>6. \A t \in Tasks, k \in Mutexes : HandedOver(k, t)' <=> HandedOver(k, t)
  BY <1>1, <1>2 DEF HandedOver
<1>7. StateInv'
  BY <1>1, <1>2, <1>6 DEF StateInv, MutualExclusion, NoWaiterLeftBehind, Owns
<1>8. WakeInv'
  <2>1. \A u, w \in Tasks : waking[u] = w => u # c /\ w # c
    BY <1>1, TaskAssumption DEF WakeInv, HandedOver, LabelInv
  <2> QED BY <1>1, <1>2, <1>6, <2>1 DEF WakeInv, HandedOver
<1> QED BY <1>1, <1>3, <1>4, <1>5, <1>7, <1>8, QuietKeeps DEF CodeInv

\* The release: to the first waiter, which is past spin_unlock in
\* __mutex_lock_slow because the queue_lock is ours, or towards atomic_inc.
LEMMA UnlockTestKeeps ==
    ASSUME IndInv, ~corrupt, UnlockTest
    PROVE  IndInv'
<1> USE DEF IndInv
<1> SUFFICES ASSUME NEW c, NEW m, NEW h,
                    c = current, m = want[c], h = Head(queue[m])
             PROVE  IndInv'
  OBVIOUS
<1>1. /\ c \in Tasks /\ c \in processes /\ pc[c] = "unlq" /\ state[c] # LOCKED
      /\ m \in Mutexes /\ qlock[m] = c /\ m \in held[c] /\ waking[c] = NoTask
      /\ want' = want /\ mval' = mval /\ qlock' = qlock
      /\ corrupt' = corrupt /\ state' = state /\ processes' = processes
      /\ UNCHANGED <<cpu, lists, corrupt>>
  <2>1. At("unlq")
    BY DEF UnlockTest
  <2>2. c \in Tasks /\ c \in processes /\ pc[c] = "unlq" /\ state[c] # LOCKED
    BY <2>1, RunnerFacts
  <2>3. m \in Mutexes /\ qlock[m] = c /\ m \in held[c] /\ waking[c] = NoTask
    BY <2>2 DEF LabelInv, Spinning, TypeOK
  <2> QED BY <2>2, <2>3 DEF UnlockTest, lists
<1>2. CASE queue[m] = <<>>
  <2>1. /\ pc' = [pc EXCEPT ![c] = "inc"]
        /\ queue' = queue /\ waking' = waking /\ held' = held
    BY <1>2 DEF UnlockTest, Goto
  <2>2. /\ pc'[c] = "inc" /\ \A t \in Tasks : t # c => pc'[t] = pc[t]
        /\ m = want[c]
    BY <1>1, <2>1 DEF TypeOK
  <2>3. TypeOK'
    BY <1>1, <2>1 DEF TypeOK, Labels, cpu, lists
  <2>4. LabelInv'
    BY <1>1, <2>1, <2>2 DEF LabelInv, Spinning
  <2>5. QueueInv'
    BY <1>1, <2>1, <2>2 DEF QueueInv
  <2>6. \A t \in Tasks, k \in Mutexes : HandedOver(k, t)' <=> HandedOver(k, t)
    BY <1>1, <2>1, <2>2 DEF HandedOver
  <2>7. StateInv'
    BY <1>1, <1>2, <2>1, <2>2, <2>6 DEF StateInv, MutualExclusion, NoWaiterLeftBehind, Owns
  <2>8. WakeInv'
    BY <1>1, <2>1, <2>2, <2>6 DEF WakeInv, TypeOK
  <2> QED BY <1>1, <2>3, <2>4, <2>5, <2>7, <2>8, QuietKeeps DEF CodeInv
<1>3. CASE queue[m] # <<>>
  <2>1. /\ pc' = [pc EXCEPT ![c] = "wake1"]
        /\ waking' = [waking EXCEPT ![c] = h]
        /\ queue' = [queue EXCEPT ![m] = Tail(queue[m])]
        /\ held' = [held EXCEPT ![c] = held[c] \ {m}]
    BY <1>3 DEF UnlockTest, Goto, GiveUp
  <2>2. /\ h \in Tasks /\ h \in Range(queue[m]) /\ Tail(queue[m]) \in Seq(Tasks)
        /\ Range(Tail(queue[m])) = Range(queue[m]) \ {h} /\ IsInjective(Tail(queue[m]))
    BY <1>1, <1>3, TailFacts DEF TypeOK, QueueInv
  <2>3. /\ pc'[c] = "wake1" /\ \A t \in Tasks : t # c => pc'[t] = pc[t]
        /\ waking'[c] = h /\ \A t \in Tasks : t # c => waking'[t] = waking[t]
        /\ queue'[m] = Tail(queue[m])
        /\ \A k \in Mutexes : k # m => queue'[k] = queue[k]
        /\ \A t \in Tasks, k \in Mutexes :
              k \in held'[t] <=> k \in held[t] /\ ~(t = c /\ k = m)
        /\ m = want[c] /\ m # 0
    BY <1>1, <2>1, MutexAssumption DEF TypeOK
  <2>4. \A t \in Tasks, k \in Mutexes :
            t \in Range(queue'[k]) <=> t \in Range(queue[k]) /\ ~(t = h /\ k = m)
    <3> SUFFICES ASSUME NEW t \in Tasks, NEW k \in Mutexes
                 PROVE  t \in Range(queue'[k]) <=> t \in Range(queue[k]) /\ ~(t = h /\ k = m)
      OBVIOUS
    <3>1. CASE k = m
      BY <2>2, <2>3, <3>1
    <3>2. CASE k # m
      BY <2>3, <3>2
    <3> QED BY <3>1, <3>2
  <2>5. /\ want[h] = m /\ pc[h] \in {"block", "wait"} /\ h # c
        /\ pc[h] = "wait" => state[h] = LOCKED
    BY <1>1, <2>2 DEF QueueInv, LabelInv, Spinning
  <2>6. TypeOK'
    BY <1>1, <2>1, <2>2 DEF TypeOK, Labels, cpu, lists
  <2>7. LabelInv'
    <3>2. \A t \in Tasks : t # c => held'[t] = held[t]
      BY <1>1, <2>1 DEF TypeOK
    <3>3. h # NoTask
      BY <2>2, TaskAssumption
    <3>4. \A t \in Tasks : t # c =>
              pc'[t] = pc[t] /\ waking'[t] = waking[t] /\ want'[t] = want[t]
      BY <1>1, <2>3
    <3> QED BY <1>1, <2>3, <3>2, <3>3, <3>4 DEF LabelInv, Spinning
  <2>8. QueueInv'
    <3>1. \A k \in Mutexes : IsInjective(queue'[k])
      BY <2>2, <2>3 DEF QueueInv
    <3>2. \A k \in Mutexes, t \in Tasks :
              pc'[t] = "queued" /\ want'[t] = k => t \in Range(queue'[k])
      BY <1>1, <2>3, <2>4, <2>5 DEF QueueInv
    <3> QED BY <1>1, <2>3, <2>4, <3>1, <3>2 DEF QueueInv
  <2>9. \A t \in Tasks, k \in Mutexes :
            HandedOver(k, t)' <=> HandedOver(k, t) \/ (t = h /\ k = m)
    BY <1>1, <2>2, <2>3, <2>4, <2>5 DEF HandedOver
  <2>10. StateInv'
    <3>1. \A t \in Tasks : Owns(t, m) => t = c
      BY <1>1 DEF StateInv, MutualExclusion, Owns
    <3>2. /\ \A t \in Tasks : Owns(t, m)' <=> t = h
          /\ \A t \in Tasks, k \in Mutexes : k # m => (Owns(t, k)' <=> Owns(t, k))
      BY <1>1, <2>2, <2>3, <2>5, <2>9, <3>1 DEF Owns, HandedOver
    <3>3. mval[m] = 0
      BY <1>1 DEF StateInv, MutualExclusion, Owns
    <3>4. MutualExclusion'
      BY <1>1, <3>2, <3>3 DEF StateInv, MutualExclusion
    <3>5. NoWaiterLeftBehind'
      BY <1>1, <2>3, <3>3 DEF StateInv, NoWaiterLeftBehind
    <3>6. \A k \in Mutexes : mval'[k] = 0 => \E t \in Tasks : Owns(t, k)'
      BY <1>1, <2>2, <3>2 DEF StateInv
    <3>7. \A t \in Tasks : pc'[t] = "add" => mval'[want'[t]] = 0
      BY <1>1, <2>3 DEF StateInv
    <3>8. \A t \in Tasks : pc'[t] = "inc" => queue'[want'[t]] = <<>>
      <4>1. \A t \in Tasks : pc[t] = "inc" /\ t # c => want[t] # m /\ want[t] \in Mutexes
        BY <1>1 DEF LabelInv, Spinning, TypeOK
      <4> QED BY <1>1, <2>3, <4>1 DEF StateInv
    <3> QED BY <3>4, <3>5, <3>6, <3>7, <3>8 DEF StateInv
  <2>11. WakeInv'
    <3>1. \A u \in Tasks : waking[u] # h
      BY <2>2, <2>5, TaskAssumption DEF WakeInv, HandedOver
    <3>2. \A u, w \in Tasks : waking[u] = w => want[u] \in Mutexes /\ w # c /\ u # c
      BY <1>1, TaskAssumption DEF WakeInv, HandedOver, TypeOK
    <3>3. ASSUME NEW u \in Tasks, NEW w \in Tasks, waking'[u] = w
          PROVE  /\ want'[u] # 0 /\ HandedOver(want[u], w)'
                 /\ pc'[w] = "wait" => state'[w] = LOCKED
                 /\ \A v \in Tasks : waking'[v] = w => u = v
      <4>1. CASE u = c
        <5>1. w = h /\ HandedOver(m, h)' /\ want'[u] = m
          BY <1>1, <2>2, <2>3, <2>9, <3>3, <4>1
        <5> QED BY <1>1, <2>3, <2>5, <3>1, <4>1, <5>1 DEF HandedOver
      <4>2. CASE u # c
        <5>1. waking[u] = w /\ w # h /\ w # c
          BY <2>3, <3>1, <3>2, <3>3, <4>2
        <5>2. HandedOver(want[u], w) /\ want[u] \in Mutexes /\ want[u] # 0
          BY <3>2, <5>1 DEF WakeInv
        <5>3. HandedOver(want[u], w)'
          BY <1>1, <2>3, <2>4, <5>1, <5>2 DEF HandedOver
        <5> QED BY <1>1, <2>3, <5>1, <5>2, <5>3 DEF WakeInv
      <4> QED BY <4>1, <4>2
    <3>4. ASSUME NEW w \in Tasks, NEW k \in Mutexes, HandedOver(k, w)',
                 state'[w] = LOCKED \/ (pc'[w] = "block" /\ ~corrupt')
          PROVE  \E u \in Tasks : waking'[u] = w
      <4>1. CASE w = h
        BY <1>1, <2>3, <4>1
      <4>2. CASE w # h
        <5>1. HandedOver(k, w) /\ (pc[w] = "block" \/ state[w] = LOCKED)
          BY <1>1, <2>3, <2>9, <3>4, <4>2 DEF HandedOver
        <5>2. PICK u \in Tasks : waking[u] = w
          BY <1>1, <3>4, <5>1 DEF WakeInv
        <5> QED BY <2>3, <3>2, <5>2
      <4> QED BY <4>1, <4>2
    <3> QED BY <3>3, <3>4 DEF WakeInv
  <2> QED BY <1>1, <2>6, <2>7, <2>8, <2>10, <2>11, QuietKeeps DEF CodeInv
<1> QED BY <1>2, <1>3

\* atomic_inc: nobody owns the mutex any more, and nobody waits for it.
LEMMA UnlockIncKeeps ==
    ASSUME IndInv, ~corrupt, UnlockInc
    PROVE  IndInv'
<1> USE DEF IndInv
<1> SUFFICES ASSUME NEW c, NEW m, c = current, m = want[c]
             PROVE  IndInv'
  OBVIOUS
<1>1. /\ c \in Tasks /\ c \in processes /\ pc[c] = "inc" /\ state[c] # LOCKED
      /\ m \in Mutexes /\ qlock[m] = c /\ m \in held[c] /\ queue[m] = <<>>
      /\ pc' = [pc EXCEPT ![c] = "unlrel"]
      /\ held' = [held EXCEPT ![c] = held[c] \ {m}]
      /\ mval' = [mval EXCEPT ![m] = mval[m] + 1]
      /\ want' = want /\ waking' = waking /\ qlock' = qlock /\ queue' = queue
      /\ corrupt' = corrupt /\ state' = state /\ processes' = processes
      /\ UNCHANGED <<cpu, lists, corrupt>>
  <2>1. At("inc")
    BY DEF UnlockInc
  <2>2. c \in Tasks /\ c \in processes /\ pc[c] = "inc" /\ state[c] # LOCKED
    BY <2>1, RunnerFacts
  <2>3. m \in Mutexes /\ qlock[m] = c /\ m \in held[c] /\ queue[m] = <<>>
    BY <2>2 DEF LabelInv, StateInv, Spinning, TypeOK
  <2> QED BY <2>2, <2>3 DEF UnlockInc, Goto, GiveUp, lists
<1>2. mval[m] = 0 /\ \A t \in Tasks : Owns(t, m) => t = c
  BY <1>1 DEF StateInv, MutualExclusion, Owns
<1>3. mval' = [mval EXCEPT ![m] = 1]
  BY <1>1, <1>2
<1>4. /\ pc'[c] = "unlrel" /\ \A t \in Tasks : t # c => pc'[t] = pc[t] /\ held'[t] = held[t]
      /\ \A t \in Tasks, k \in Mutexes :
            k \in held'[t] <=> k \in held[t] /\ ~(t = c /\ k = m)
      /\ mval'[m] = 1 /\ \A k \in Mutexes : k # m => mval'[k] = mval[k]
  BY <1>1, <1>3 DEF TypeOK
<1>5. TypeOK'
  BY <1>1, <1>3 DEF TypeOK, Labels, cpu, lists
<1>6. LabelInv'
  BY <1>1, <1>4 DEF LabelInv, Spinning
<1>7. QueueInv'
  BY <1>1, <1>4 DEF QueueInv
<1>8. \A t \in Tasks, k \in Mutexes : HandedOver(k, t)' <=> HandedOver(k, t)
  BY <1>1, <1>4 DEF HandedOver
<1>9. StateInv'
  <2>1. \A t \in Tasks, k \in Mutexes : Owns(t, k)' <=> Owns(t, k) /\ k # m
    BY <1>1, <1>2, <1>4, <1>8 DEF Owns, HandedOver
  <2>2. MutualExclusion'
    BY <1>4, <2>1 DEF StateInv, MutualExclusion
  <2>3. NoWaiterLeftBehind'
    BY <1>1, <1>4 DEF StateInv, NoWaiterLeftBehind
  <2>4. \A k \in Mutexes : mval'[k] = 0 => \E t \in Tasks : Owns(t, k)'
    BY <1>4, <2>1 DEF StateInv
  <2>5. \A t \in Tasks : pc'[t] = "add" => mval'[want'[t]] = 0
    <3>1. \A t \in Tasks : pc[t] = "add" => want[t] # m /\ want[t] \in Mutexes
      BY <1>1 DEF LabelInv, Spinning, TypeOK
    <3> QED BY <1>1, <1>4, <3>1 DEF StateInv
  <2>6. \A t \in Tasks : pc'[t] = "inc" => queue'[want'[t]] = <<>>
    BY <1>1, <1>4 DEF StateInv
  <2> QED BY <2>2, <2>3, <2>4, <2>5, <2>6 DEF StateInv
<1>10. WakeInv'
  <2>1. \A w \in Tasks : pc[w] \in {"block", "wait"} => pc'[w] = pc[w]
    BY <1>1, <1>4
  <2>2. \A w \in Tasks : pc'[w] \in {"block", "wait"} => pc'[w] = pc[w]
    BY <1>1, <1>4
  <2> QED BY <1>1, <2>1, <2>2 DEF WakeInv, HandedOver
<1> QED BY <1>1, <1>5, <1>6, <1>7, <1>9, <1>10, QuietKeeps DEF CodeInv

\* make_runnable of a task that has not blocked yet finds it on the run queue.
LEMMA MakeRunnableKeeps ==
    ASSUME IndInv, ~corrupt, MakeRunnable
    PROVE  IndInv'
<1> USE DEF IndInv
<1> SUFFICES ASSUME NEW c, NEW w, c = current, w = waking[c]
             PROVE  IndInv'
  OBVIOUS
<1>1. /\ c \in Tasks /\ c \in processes /\ pc[c] = "wake2" /\ state[c] # LOCKED
      /\ w \in Tasks
      /\ state' = [state EXCEPT ![w] = SLEEPING]
      /\ corrupt' = (w \in Range(runnable))
      /\ runnable' = Append(runnable, w)
      /\ waking' = [waking EXCEPT ![c] = NoTask]
      /\ pc' = [pc EXCEPT ![c] = "run"] /\ want' = [want EXCEPT ![c] = 0]
      /\ held' = held /\ mval' = mval /\ qlock' = qlock /\ queue' = queue
      /\ processes' = processes /\ phase' = phase /\ left' = left /\ current' = current
  <2>1. At("wake2")
    BY DEF MakeRunnable
  <2>2. c \in Tasks /\ c \in processes /\ pc[c] = "wake2" /\ state[c] # LOCKED
    BY <2>1, RunnerFacts
  <2>3. w \in Tasks
    BY <2>2 DEF LabelInv, TypeOK
  <2> QED BY <2>2, <2>3 DEF MakeRunnable, Return, Goto, cpu, mutexes
<1>2. /\ pc[w] \in {"block", "wait"} /\ w # c /\ w \in processes
      /\ pc[w] = "wait" => state[w] = LOCKED
      /\ \A k \in Mutexes : w \notin Range(queue[k])
      /\ \A v \in Tasks : waking[v] = w => v = c
  <2>1. /\ want[c] # 0 /\ HandedOver(want[c], w)
        /\ pc[w] = "wait" => state[w] = LOCKED
        /\ \A v \in Tasks : waking[v] = w => v = c
    BY <1>1 DEF WakeInv
  <2>2. \A k \in Mutexes : w \notin Range(queue[k])
    BY <1>1, <2>1 DEF HandedOver, QueueInv
  <2> QED BY <1>1, <2>1, <2>2 DEF HandedOver, LabelInv
<1>3. w \notin Range(runnable) => state[w] = LOCKED /\ pc[w] = "wait"
  BY <1>1, <1>2 DEF ListInv, LabelInv
<1>4. /\ runnable' \in Seq(Tasks) /\ Range(runnable') = Range(runnable) \cup {w}
      /\ ~corrupt' => IsInjective(runnable')
  <2>1. w \notin Range(runnable) => IsInjective(Append(runnable, w))
    BY <1>1, AppendFacts DEF TypeOK, ListInv
  <2>2. ~corrupt' => w \notin Range(runnable)
    BY <1>1
  <2>3. runnable' \in Seq(Tasks) /\ Range(runnable') = Range(runnable) \cup {w}
    BY <1>1, AppendFacts DEF TypeOK
  <2> QED BY <1>1, <2>1, <2>2, <2>3
<1>5. /\ pc'[c] = "run" /\ want'[c] = 0 /\ waking'[c] = NoTask /\ state'[w] # LOCKED
      /\ \A t \in Tasks : t # c =>
            pc'[t] = pc[t] /\ want'[t] = want[t] /\ waking'[t] = waking[t]
      /\ \A t \in Tasks : t # w => state'[t] = state[t]
  BY <1>1 DEF TypeOK, SLEEPING, LOCKED
<1>6. TypeOK'
  BY <1>1, <1>4 DEF TypeOK, Labels
<1>7. ListInv'
  BY <1>1, <1>2, <1>4, <1>5 DEF ListInv, TypeOK
<1>8. LabelInv'
  BY <1>1, <1>2, <1>5 DEF LabelInv, Spinning
<1>9. QueueInv'
  BY <1>1, <1>2, <1>5, MutexAssumption DEF QueueInv
<1>10. \A t \in Tasks, k \in Mutexes : HandedOver(k, t)' <=> HandedOver(k, t)
  BY <1>1, <1>5, MutexAssumption DEF HandedOver
<1>11. StateInv'
  BY <1>1, <1>5, <1>10 DEF StateInv, MutualExclusion, NoWaiterLeftBehind, Owns
<1>12. WakeInv'
  <2>1. ASSUME NEW u \in Tasks, NEW x \in Tasks, waking'[u] = x
        PROVE  /\ want'[u] # 0 /\ HandedOver(want[u], x)'
               /\ pc'[x] = "wait" => state'[x] = LOCKED
               /\ \A v \in Tasks : waking'[v] = x => u = v
    <3>1. u # c /\ waking[u] = x /\ x # w
      BY <1>2, <1>5, <2>1, TaskAssumption
    <3>2. /\ want[u] # 0 /\ HandedOver(want[u], x) /\ x # c
          /\ pc[x] = "wait" => state[x] = LOCKED
          /\ \A v \in Tasks : waking[v] = x => u = v
      BY <1>1, <3>1 DEF WakeInv, HandedOver
    <3>3. HandedOver(want[u], x)'
      BY <1>1, <1>5, <3>1, <3>2 DEF HandedOver
    <3>4. \A v \in Tasks : waking'[v] = x => u = v
      BY <1>5, <3>2, TaskAssumption
    <3> QED BY <1>5, <3>1, <3>2, <3>3, <3>4
  <2>2. ASSUME NEW x \in Tasks, NEW k \in Mutexes, HandedOver(k, x)',
               state'[x] = LOCKED \/ (pc'[x] = "block" /\ ~corrupt')
        PROVE  \E u \in Tasks : waking'[u] = x
    <3>1. x # w /\ x # c
      BY <1>1, <1>2, <1>3, <1>5, <2>2, ZenonT(60) DEF HandedOver
    <3>2. PICK u \in Tasks : waking[u] = x
      BY <1>5, <1>10, <2>2, <3>1 DEF WakeInv
    <3> QED BY <1>1, <1>5, <3>1, <3>2
  <2> QED BY <2>1, <2>2 DEF WakeInv
<1>13. SliceBound'
  BY <1>1 DEF SliceBound
<1> QED BY <1>6, <1>7, <1>8, <1>9, <1>11, <1>12, <1>13

-----------------------------------------------------------------------------
LEMMA InitEstablishes == Init => IndInv
<1> SUFFICES ASSUME Init PROVE IndInv
  OBVIOUS
<1>1. PICK boot \in Tasks :
          /\ runnable = <<boot>> /\ processes = {boot}
          /\ state = [t \in Tasks |-> IF t = boot THEN SLEEPING ELSE ZOMBIE]
  BY DEF Init
<1>2. runnable \in Seq(Tasks) /\ Range(runnable) = {boot} /\ IsInjective(runnable)
  BY <1>1 DEF Range, IsInjective
<1>3. \A m \in Mutexes : queue[m] = <<>> /\ queue[m] \in Seq(Tasks)
          /\ Range(queue[m]) = {} /\ IsInjective(queue[m])
  BY DEF Init, Range, IsInjective
<1>4. TypeOK
  <2>1. state \in [Tasks -> {RUNNING, SLEEPING, LOCKED, ZOMBIE}]
    BY <1>1
  <2>2. queue \in [Mutexes -> Seq(Tasks)]
    BY <1>3 DEF Init
  <2>3. 0 \in 0..(Slice - 1) /\ 0 \in 0..Slice
    BY SliceAssumption
  <2> QED BY <1>1, <1>2, <2>1, <2>2, <2>3 DEF Init, TypeOK, Labels
<1>5. ListInv
  BY <1>1, <1>2, TaskAssumption DEF Init, ListInv, SLEEPING, LOCKED
<1>6. LabelInv
  BY <1>1 DEF Init, LabelInv, Spinning, SLEEPING, ZOMBIE, LOCKED
<1>7. QueueInv
  BY <1>3 DEF Init, QueueInv
<1>8. StateInv
  BY <1>3 DEF Init, StateInv, MutualExclusion, NoWaiterLeftBehind, Owns, HandedOver
<1>9. WakeInv
  BY TaskAssumption DEF Init, WakeInv, HandedOver
<1>10. SliceBound
  BY DEF Init, SliceBound
<1> QED BY <1>4, <1>5, <1>6, <1>7, <1>8, <1>9, <1>10 DEF IndInv

LEMMA NextKeeps == IndInv /\ [Next]_vars => IndInv'
<1> SUFFICES ASSUME IndInv, [Next]_vars PROVE IndInv'
  OBVIOUS
<1>1. CASE UNCHANGED vars
  BY <1>1 DEF vars, IndInv, TypeOK, ListInv, LabelInv, QueueInv, StateInv, WakeInv, SliceBound,
     MutualExclusion, NoWaiterLeftBehind, Owns, HandedOver
<1>2. CASE ~corrupt /\ Tick
  BY <1>2, TickKeeps
<1>3. CASE ~corrupt /\ MutexCode
  <2>1. CASE SlowSpinLock
    BY <1>3, <2>1, SpinLockKeeps DEF SlowSpinLock
  <2>2. CASE SlowTry
    BY <1>3, <2>2, SlowTryKeeps
  <2>3. CASE SlowGot
    BY <1>3, <2>3, SpinUnlockKeeps DEF SlowGot
  <2>4. CASE SlowAdd
    BY <1>3, <2>4, SlowAddKeeps
  <2>5. CASE SlowSpinUnlock
    BY <1>3, <2>5, SpinUnlockKeeps DEF SlowSpinUnlock
  <2>6. CASE ScheduleBlocked
    BY <1>3, <2>6, ScheduleBlockedKeeps
  <2>7. CASE Resume
    BY <1>3, <2>7, ResumeKeeps
  <2>8. CASE UnlockSpinLock
    BY <1>3, <2>8, SpinLockKeeps DEF UnlockSpinLock
  <2>9. CASE UnlockTest
    BY <1>3, <2>9, UnlockTestKeeps
  <2>10. CASE UnlockInc
    BY <1>3, <2>10, UnlockIncKeeps
  <2>11. CASE UnlockReturn
    BY <1>3, <2>11, SpinUnlockKeeps DEF UnlockReturn
  <2>12. CASE UnlockSpinUnlock
    BY <1>3, <2>12, SpinUnlockKeeps DEF UnlockSpinUnlock
  <2>13. CASE MakeRunnable
    BY <1>3, <2>13, MakeRunnableKeeps
  <2> QED BY <1>3, <2>1, <2>2, <2>3, <2>4, <2>5, <2>6, <2>7, <2>8, <2>9, <2>10, <2>11,
             <2>12, <2>13 DEF MutexCode
<1>4. CASE ~corrupt /\ ClientCall
  BY <1>4, YieldKeeps, ExitKeeps, CreateTaskKeeps, MutexLockKeeps, MutexUnlockKeeps
     DEF ClientCall
<1> QED BY <1>1, <1>2, <1>3, <1>4 DEF Next

\* Every reachable state of the scheduler and the mutexes satisfies the
\* inductive invariant.
THEOREM Invariance == Spec => []IndInv
BY InitEstablishes, NextKeeps, PTL DEF Spec

\* No field of the scheduler or of a mutex ever leaves its type; in particular
\* lock->state is 0 or 1 at all times.
THEOREM TypeCorrect == Spec => []TypeOK
<1>1. IndInv => TypeOK
  BY DEF IndInv
<1> QED BY <1>1, Invariance, PTL

\* mutex_lock gives a mutex to one task at a time, for any number of tasks and
\* mutexes and wherever the timer interrupts them.
THEOREM Exclusion == Spec => []MutualExclusion
<1>1. IndInv => MutualExclusion
  BY DEF IndInv, StateInv
<1> QED BY <1>1, Invariance, PTL

\* __mutex_unlock never sets lock->state to 1 with a task left on the queue.
THEOREM NobodyLeftBehind == Spec => []NoWaiterLeftBehind
<1>1. IndInv => NoWaiterLeftBehind
  BY DEF IndInv, StateInv
<1> QED BY <1>1, Invariance, PTL

\* A blocked task is on the queue of an owned mutex, or has exactly one waker.
THEOREM SleepersAccountedFor == Spec => []SleeperAccountedFor
<1>1. ASSUME IndInv PROVE SleeperAccountedFor
  <2> SUFFICES ASSUME NEW t \in processes, state[t] = LOCKED
               PROVE  \/ /\ t \in Range(queue[want[t]])
                         /\ \E u \in Tasks : Owns(u, want[t])
                      \/ \E u \in Tasks :
                            waking[u] = t /\ \A v \in Tasks : waking[v] = t => u = v
    BY DEF SleeperAccountedFor
  <2>1. t \in Tasks /\ pc[t] = "wait" /\ want[t] \in Mutexes
    BY <1>1 DEF IndInv, TypeOK, LabelInv
  <2>2. CASE t \in Range(queue[want[t]])
    <3>1. queue[want[t]] # <<>>
      BY <2>2 DEF Range
    <3>2. mval[want[t]] = 0
      BY <1>1, <2>1, <3>1 DEF IndInv, StateInv, NoWaiterLeftBehind, TypeOK
    <3> QED BY <1>1, <2>1, <2>2, <3>2 DEF IndInv, StateInv
  <2>3. CASE t \notin Range(queue[want[t]])
    <3>1. HandedOver(want[t], t)
      BY <2>1, <2>3 DEF HandedOver
    <3>2. \E u \in Tasks : waking[u] = t
      BY <1>1, <2>1, <3>1 DEF IndInv, WakeInv
    <3> QED BY <1>1, <2>1, <3>2 DEF IndInv, WakeInv
  <2> QED BY <2>2, <2>3
<1>2. IndInv => SleeperAccountedFor
  BY <1>1
<1> QED BY <1>2, Invariance, PTL

\* Every task runs, is runnable once, or is blocked, until the run queue is
\* destroyed by a double wake-up.
THEOREM EveryTaskInOnePlace == Spec => []OnePlace
<1>1. IndInv => OnePlace
  BY DEF IndInv, ListInv, OnePlace
<1> QED BY <1>1, Invariance, PTL

\* No task runs past its slice.
THEOREM SlicesAreBounded == Spec => []SliceBound
<1>1. IndInv => SliceBound
  BY DEF IndInv
<1> QED BY <1>1, Invariance, PTL

=============================================================================
