------------------------------- MODULE Sched -------------------------------
(***************************************************************************)
(* The CP task scheduler (cp/nucleus/sched.c, ext.c) together with the     *)
(* sleeping mutex built on it (cp/include/mutex.h, cp/nucleus/mutex.c).    *)
(*                                                                         *)
(* CP runs on one processor.  Only the task in `current' executes; it is   *)
(* enabled for interrupts all the time, so the CPU timer may take the      *)
(* processor away between any two steps below.  An interrupt handler runs  *)
(* disabled and is therefore one action.                                   *)
(*                                                                         *)
(* The doubly linked lists `runnable' and `lock->queue' are sequences.  A  *)
(* list_head that is added while it is already linked destroys the list it *)
(* is on; the model stops there with corrupt = TRUE.                       *)
(***************************************************************************)
EXTENDS Integers, Sequences, Functions

CONSTANTS
    Tasks,      \* the struct task objects, idle_task apart
    Idle,       \* &idle_task
    NoTask,     \* NULL
    Mutexes,    \* the mutexes, numbered in the order clients nest them
    Slice       \* SCHED_TICKS_PER_SLICE

ASSUME TaskAssumption == Idle \notin Tasks /\ NoTask \notin Tasks /\ Idle # NoTask
ASSUME MutexAssumption == Mutexes \subseteq Nat \ {0}
ASSUME SliceAssumption == Slice \in Nat \ {0}

VARIABLES
    phase,      \* ticks % SCHED_TICKS_PER_SLICE
    left,       \* current->slice_end_time - ticks, while a task runs
    current,    \* the task PSA_CURRENT points to
    runnable,   \* the run queue
    processes,  \* the tasks on the processes list
    state,      \* task->state
    pc,         \* where in the mutex code a task is ("run": elsewhere)
    want,       \* the mutex that code works on, 0 outside of it
    waking,     \* the task __mutex_unlock has dequeued
    held,       \* the mutexes for which mutex_lock returned
    mval,       \* lock->state
    qlock,      \* lock->queue_lock: its holder, or NoTask
    queue,      \* lock->queue
    corrupt     \* a linked run_queue was linked again

cpu == <<phase, left, current>>
lists == <<runnable, processes, state>>
code == <<pc, want, waking, held>>
mutexes == <<mval, qlock, queue>>
vars == <<phase, left, current, runnable, processes, state,
          pc, want, waking, held, mval, qlock, queue, corrupt>>

RUNNING == 0
SLEEPING == 1
LOCKED == 2
ZOMBIE == 3     \* also the state of a struct task that does not exist

\* Where the mutex code can be interrupted.  run: outside of it; slow: before
\* spin_lock in __mutex_lock_slow; try, add, got, queued: inside its critical
\* section; block: before schedule_blocked; wait: inside it; unlock: before
\* spin_lock in __mutex_unlock; unlq, inc, unlrel, wake1: inside its critical
\* section; wake2: before make_runnable.
Labels == {"run", "slow", "try", "add", "got", "queued", "block", "wait",
           "unlock", "unlq", "inc", "unlrel", "wake1", "wake2"}

\* Labels at which a task holds the queue_lock of the mutex it works on.
Spinning == {"try", "add", "got", "queued", "unlq", "inc", "unlrel", "wake1"}

-----------------------------------------------------------------------------
(* The scheduler.                                                          *)

\* start() has created the task *finish-loading, and idle_task_body has just
\* enabled the processor for the timer.
Init ==
    /\ phase = 0 /\ left = 0 /\ current = Idle
    /\ \E boot \in Tasks :
          /\ runnable = <<boot>>
          /\ processes = {boot}
          /\ state = [t \in Tasks |-> IF t = boot THEN SLEEPING ELSE ZOMBIE]
    /\ pc = [t \in Tasks |-> "run"]
    /\ want = [t \in Tasks |-> 0]
    /\ waking = [t \in Tasks |-> NoTask]
    /\ held = [t \in Tasks |-> {}]
    /\ mval = [m \in Mutexes |-> 1]
    /\ qlock = [m \in Mutexes |-> NoTask]
    /\ queue = [m \in Mutexes |-> <<>>]
    /\ corrupt = FALSE

\* __sched: idle if told to or if nothing is runnable, else the first task of
\* the run queue q, for a full slice.  st is the state of every task so far.
Dispatch(forceIdle, q, st) ==
    IF forceIdle \/ q = <<>>
    THEN /\ current' = Idle
         /\ left' = 0
         /\ runnable' = q
         /\ state' = st
    ELSE /\ current' = Head(q)
         /\ left' = Slice
         /\ runnable' = Tail(q)
         /\ state' = [st EXCEPT ![Head(q)] = RUNNING]

\* Mutant of Schedule: a task that blocks goes on the run queue.
ScheduleKeepsLocked(newstate, remaining) ==
    /\ IF current = Idle
       THEN Dispatch(FALSE, runnable, state)
       ELSE Dispatch(remaining >= Slice,
                     IF newstate = ZOMBIE THEN runnable ELSE Append(runnable, current),
                     [state EXCEPT ![current] = newstate])
    /\ processes' = IF newstate = ZOMBIE THEN processes \ {current} ELSE processes

\* __schedule: take the processor from current, whose slice has remaining
\* ticks to go, and run something else.  The idle task is on no list.
Schedule(newstate, remaining) ==
    /\ IF current = Idle
       THEN Dispatch(FALSE, runnable, state)
       ELSE Dispatch(remaining >= Slice,
                     IF newstate \in {ZOMBIE, LOCKED} THEN runnable
                     ELSE Append(runnable, current),
                     [state EXCEPT ![current] = newstate])
    /\ processes' = IF newstate = ZOMBIE THEN processes \ {current} ELSE processes

\* __ext_int_handler: the CPU timer ends a tick, and at the end of a slice
\* whatever runs is preempted.
Tick ==
    /\ phase' = (phase + 1) % Slice
    /\ IF phase' = 0
       THEN Schedule(SLEEPING, left - 1)
       ELSE /\ left' = IF current = Idle THEN left ELSE left - 1
            /\ UNCHANGED <<current, lists>>
    /\ UNCHANGED <<code, mutexes, corrupt>>

At(label) == current # Idle /\ pc[current] = label

Goto(label) == pc' = [pc EXCEPT ![current] = label]

\* Enter the code of mutex m at a label, and return from it.
Enter(m, label) == Goto(label) /\ want' = [want EXCEPT ![current] = m]

Return == Goto("run") /\ want' = [want EXCEPT ![current] = 0]

\* schedule(): SVC_SCHEDULE.
Yield ==
    /\ At("run")
    /\ Schedule(SLEEPING, left)
    /\ UNCHANGED <<phase, code, mutexes, corrupt>>

\* start_task returns from the task's function: ldep_no_locks(), exit().
Exit ==
    /\ At("run")
    /\ held[current] = {}
    /\ Schedule(ZOMBIE, left)
    /\ UNCHANGED <<phase, code, mutexes, corrupt>>

\* create_task, when both allocations succeed (else nothing changes).
CreateTask(t) ==
    /\ At("run")
    /\ t \notin processes
    /\ state' = [state EXCEPT ![t] = SLEEPING]
    /\ processes' = processes \cup {t}
    /\ runnable' = Append(runnable, t)
    /\ UNCHANGED <<cpu, code, mutexes, corrupt>>

-----------------------------------------------------------------------------
(* mutex_lock.                                                             *)

\* spin_lock(&lock->queue_lock), at one label, ending at another.  While the
\* lock is taken the task spins and only the timer can help.
SpinLock(from, to) ==
    LET m == want[current] IN
    /\ At(from)
    /\ qlock[m] = NoTask
    /\ qlock' = [qlock EXCEPT ![m] = current]
    /\ Goto(to)
    /\ UNCHANGED <<cpu, lists, want, waking, held, mval, queue, corrupt>>

SpinUnlock(from, to) ==
    LET m == want[current] IN
    /\ At(from)
    /\ qlock' = [qlock EXCEPT ![m] = NoTask]
    /\ IF to = "run" THEN Return ELSE Goto(to) /\ UNCHANGED want
    /\ UNCHANGED <<cpu, lists, waking, held, mval, queue, corrupt>>

\* atomic_add_unless(&lock->state, -1, 0) succeeds, if m is unlocked.
Take(m) ==
    /\ mval[m] # 0
    /\ mval' = [mval EXCEPT ![m] = @ - 1]
    /\ held' = [held EXCEPT ![current] = @ \cup {m}]

\* __mutex_lock.  Clients nest mutexes in one order, which is what
\* cp/nucleus/ldep.c watches over.
MutexLock(m) ==
    /\ At("run")
    /\ \A h \in held[current] : h < m
    /\ \/ Take(m) /\ UNCHANGED <<pc, want>>
       \/ mval[m] = 0 /\ Enter(m, "slow") /\ UNCHANGED <<mval, held>>
    /\ UNCHANGED <<cpu, lists, waking, qlock, queue, corrupt>>

SlowSpinLock == SpinLock("slow", "try")

\* Mutant of SlowTry: no second look at lock->state.
SlowTryNotAgain ==
    /\ At("try")
    /\ Goto("add")
    /\ UNCHANGED <<cpu, lists, want, waking, held, mval, qlock, queue, corrupt>>

\* __mutex_lock_slow tries again under the queue_lock ...
SlowTry ==
    /\ At("try")
    /\ \/ Take(want[current]) /\ Goto("got")
       \/ mval[want[current]] = 0 /\ Goto("add") /\ UNCHANGED <<mval, held>>
    /\ UNCHANGED <<cpu, lists, want, waking, qlock, queue, corrupt>>

SlowGot == SpinUnlock("got", "run")

\* Mutant of SlowAdd: list_add instead of list_add_tail.
SlowAddFirst ==
    /\ At("add")
    /\ queue' = [queue EXCEPT ![want[current]] = <<current>> \o @]
    /\ Goto("queued")
    /\ UNCHANGED <<cpu, lists, want, waking, held, mval, qlock, corrupt>>

\* ... and otherwise waits on the queue.
SlowAdd ==
    /\ At("add")
    /\ queue' = [queue EXCEPT ![want[current]] = Append(@, current)]
    /\ Goto("queued")
    /\ UNCHANGED <<cpu, lists, want, waking, held, mval, qlock, corrupt>>

SlowSpinUnlock == SpinUnlock("queued", "block")

\* schedule_blocked(): SVC_SCHEDULE_BLOCKED.
ScheduleBlocked ==
    /\ At("block")
    /\ Goto("wait")
    /\ Schedule(LOCKED, left)
    /\ UNCHANGED <<phase, want, waking, held, mutexes, corrupt>>

\* The task is dispatched again: schedule_blocked, __mutex_lock_slow and
\* mutex_lock return, and the task believes the mutex is its own.
Resume ==
    /\ At("wait")
    /\ held' = [held EXCEPT ![current] = @ \cup {want[current]}]
    /\ Return
    /\ UNCHANGED <<cpu, lists, waking, mutexes, corrupt>>

-----------------------------------------------------------------------------
(* mutex_unlock.                                                           *)

MutexUnlock(m) ==
    /\ At("run")
    /\ m \in held[current]
    /\ Enter(m, "unlock")
    /\ UNCHANGED <<cpu, lists, waking, held, mutexes, corrupt>>

UnlockSpinLock == SpinLock("unlock", "unlq")

GiveUp(m) == held' = [held EXCEPT ![current] = @ \ {m}]

\* Mutant of UnlockTest: lock->state is incremented also when someone waits.
UnlockTestAndInc ==
    LET m == want[current] IN
    /\ At("unlq")
    /\ IF queue[m] = <<>>
       THEN Goto("inc") /\ UNCHANGED <<queue, waking, held, mval>>
       ELSE /\ waking' = [waking EXCEPT ![current] = Head(queue[m])]
            /\ queue' = [queue EXCEPT ![m] = Tail(@)]
            /\ mval' = [mval EXCEPT ![m] = @ + 1]
            /\ GiveUp(m)
            /\ Goto("wake1")
    /\ UNCHANGED <<cpu, lists, want, qlock, corrupt>>

\* Mutant of UnlockTest: the last waiter is woken, the first one dequeued.
UnlockTestLast ==
    LET m == want[current] IN
    /\ At("unlq")
    /\ IF queue[m] = <<>>
       THEN Goto("inc") /\ UNCHANGED <<queue, waking, held>>
       ELSE /\ waking' = [waking EXCEPT ![current] = queue[m][Len(queue[m])]]
            /\ queue' = [queue EXCEPT ![m] = Tail(@)]
            /\ GiveUp(m)
            /\ Goto("wake1")
    /\ UNCHANGED <<cpu, lists, want, mval, qlock, corrupt>>

\* list_empty(&lock->queue)?  If someone waits, dequeue the first: the mutex
\* is handed over without lock->state ever becoming 1.
UnlockTest ==
    LET m == want[current] IN
    /\ At("unlq")
    /\ IF queue[m] = <<>>
       THEN /\ Goto("inc")
            /\ UNCHANGED <<queue, waking, held>>
       ELSE /\ waking' = [waking EXCEPT ![current] = Head(queue[m])]
            /\ queue' = [queue EXCEPT ![m] = Tail(@)]
            /\ GiveUp(m)
            /\ Goto("wake1")
    /\ UNCHANGED <<cpu, lists, want, mval, qlock, corrupt>>

UnlockInc ==
    /\ At("inc")
    /\ mval' = [mval EXCEPT ![want[current]] = @ + 1]
    /\ GiveUp(want[current])
    /\ Goto("unlrel")
    /\ UNCHANGED <<cpu, lists, want, waking, qlock, queue, corrupt>>

UnlockReturn == SpinUnlock("unlrel", "run")

UnlockSpinUnlock == SpinUnlock("wake1", "wake2")

\* make_runnable.  The woken task may be on the run queue already.
MakeRunnable ==
    LET w == waking[current] IN
    /\ At("wake2")
    /\ state' = [state EXCEPT ![w] = SLEEPING]
    /\ corrupt' = (w \in Range(runnable))
    /\ runnable' = Append(runnable, w)
    /\ waking' = [waking EXCEPT ![current] = NoTask]
    /\ Return
    /\ UNCHANGED <<cpu, processes, held, mutexes>>

-----------------------------------------------------------------------------
\* A step of the running task inside the mutex code, which is straight-line
\* code that never stops of its own accord.
MutexCode ==
    \/ SlowSpinLock \/ SlowTry \/ SlowGot \/ SlowAdd \/ SlowSpinUnlock
    \/ ScheduleBlocked \/ Resume
    \/ UnlockSpinLock \/ UnlockTest \/ UnlockInc \/ UnlockReturn
    \/ UnlockSpinUnlock \/ MakeRunnable

\* A call made by the code of a task.
ClientCall ==
    \/ Yield
    \/ Exit
    \/ \E t \in Tasks : CreateTask(t)
    \/ \E m \in Mutexes : MutexLock(m) \/ MutexUnlock(m)

Next == ~corrupt /\ (Tick \/ MutexCode \/ ClientCall)

\* The timer keeps ticking.  A task that is dispatched again and again makes
\* progress in its slices (a slice is 30 ms), and does not keep a mutex for
\* ever.
Fairness ==
    /\ WF_vars(~corrupt /\ Tick)
    /\ \A t \in Tasks : SF_vars(~corrupt /\ current = t /\ MutexCode)
    /\ \A t \in Tasks, m \in Mutexes :
          SF_vars(~corrupt /\ current = t /\ MutexUnlock(m))

Spec == Init /\ [][Next]_vars

FairSpec == Spec /\ Fairness

-----------------------------------------------------------------------------
(* Properties.                                                             *)

TypeOK ==
    /\ phase \in 0..(Slice - 1)
    /\ left \in 0..Slice
    /\ current \in Tasks \cup {Idle}
    /\ runnable \in Seq(Tasks)
    /\ processes \subseteq Tasks
    /\ state \in [Tasks -> {RUNNING, SLEEPING, LOCKED, ZOMBIE}]
    /\ pc \in [Tasks -> Labels]
    /\ want \in [Tasks -> Mutexes \cup {0}]
    /\ waking \in [Tasks -> Tasks \cup {NoTask}]
    /\ held \in [Tasks -> SUBSET Mutexes]
    /\ mval \in [Mutexes -> {0, 1}]
    /\ qlock \in [Mutexes -> Tasks \cup {NoTask}]
    /\ queue \in [Mutexes -> Seq(Tasks)]
    /\ corrupt \in BOOLEAN

\* The mutex was taken from the queue for t, which has not returned from
\* mutex_lock yet.
HandedOver(m, t) ==
    want[t] = m /\ pc[t] \in {"block", "wait"} /\ t \notin Range(queue[m])

Owns(t, m) == m \in held[t] \/ HandedOver(m, t)

\* A mutex excludes: between the return of mutex_lock and the release inside
\* mutex_unlock, and from the moment a mutex is handed to a queued waiter, no
\* other task has it, and lock->state says it is taken.
MutualExclusion ==
    \A m \in Mutexes, t, u \in Tasks :
        Owns(t, m) => mval[m] = 0 /\ (Owns(u, m) => t = u)

\* A mutex whose state says "unlocked" has no waiter: nobody sleeps on a mutex
\* that its last owner has already let go.
NoWaiterLeftBehind ==
    \A m \in Mutexes : mval[m] = 1 => queue[m] = <<>>

\* A task that schedule_blocked took off the run queue is not forgotten: it
\* waits on the queue of a mutex that somebody owns, or exactly one task is
\* about to make it runnable.
SleeperAccountedFor ==
    \A t \in processes :
        state[t] = LOCKED =>
            \/ t \in Range(queue[want[t]]) /\ \E u \in Tasks : Owns(u, want[t])
            \/ \E u \in Tasks : waking[u] = t /\ \A v \in Tasks : waking[v] = t => u = v

\* Every task is in exactly one place: it runs, or it is on the run queue, once,
\* or it is blocked; the run queue holds no task that has exited.
OnePlace ==
    ~corrupt =>
        /\ IsInjective(runnable)
        /\ Range(runnable) \subseteq processes
        /\ current \in processes \cup {Idle}
        /\ \A t \in processes :
              /\ t = current => t \notin Range(runnable)
              /\ state[t] = LOCKED <=> t # current /\ t \notin Range(runnable)

\* No task runs past the end of its slice: slice_end_time lies in the future
\* whenever a task executes, and is reached only by the preempting tick.
SliceBound == current # Idle => left > 0 /\ left + phase >= Slice

\* A task on the queue of a mutex eventually gets the mutex.  (The model stops
\* when a list is destroyed; see WakesOnlySleepers.)
WaiterServed ==
    \A t \in Tasks, m \in Mutexes :
        (t \in Range(queue[m])) ~> (m \in held[t] \/ corrupt)

\* mutex.h says of __mutex_unlock: "someone is waiting on the queue, let's
\* dequeue them & make them runnable again".  make_runnable must not be given a
\* task that is on the run queue.
WakesOnlySleepers == ~corrupt

-----------------------------------------------------------------------------
(* The inductive invariant behind the safety properties, in parts.         *)

\* The scheduler's lists.
ListInv ==
    /\ ~corrupt => IsInjective(runnable)
    /\ Range(runnable) \subseteq processes
    /\ current \in processes \cup {Idle}
    /\ current \notin Range(runnable)
    /\ \A t \in processes : state[t] = LOCKED <=> t # current /\ t \notin Range(runnable)

\* What the label of a task says about its other fields.
LabelInv ==
    \A t \in Tasks :
        /\ pc[t] = "run" <=> want[t] = 0
        /\ pc[t] \in {"wake1", "wake2"} <=> waking[t] # NoTask
        /\ pc[t] \in {"unlock", "unlq", "inc"} => want[t] \in held[t]
        /\ pc[t] \in Spinning => qlock[want[t]] = t
        /\ t \notin processes => pc[t] = "run" /\ held[t] = {}
        /\ t \in processes /\ state[t] = LOCKED => pc[t] = "wait"

\* The queue of a mutex holds tasks that wait for it, each once.
QueueInv ==
    \A m \in Mutexes :
        /\ IsInjective(queue[m])
        /\ \A t \in Tasks :
              t \in Range(queue[m]) =>
                  /\ want[t] = m
                  /\ pc[t] \in {"queued", "block", "wait"}
                  /\ pc[t] = "wait" => state[t] = LOCKED
        /\ \A t \in Tasks :
              pc[t] = "queued" /\ want[t] = m => t \in Range(queue[m])

\* lock->state agrees with who owns the mutex, also between its test and its
\* change under the queue_lock.
StateInv ==
    /\ MutualExclusion
    /\ NoWaiterLeftBehind
    /\ \A m \in Mutexes : mval[m] = 0 => \E t \in Tasks : Owns(t, m)
    /\ \A t \in Tasks : pc[t] = "add" => mval[want[t]] = 0
    /\ \A t \in Tasks : pc[t] = "inc" => queue[want[t]] = <<>>

\* Whoever was handed a mutex and has not been made runnable has one waker.
WakeInv ==
    /\ \A u, w \in Tasks :
          waking[u] = w =>
              /\ want[u] # 0 /\ HandedOver(want[u], w)
              /\ pc[w] = "wait" => state[w] = LOCKED
              /\ \A v \in Tasks : waking[v] = w => u = v
    /\ \A w \in Tasks, m \in Mutexes :
          HandedOver(m, w) /\ (state[w] = LOCKED \/ (pc[w] = "block" /\ ~corrupt))
              => \E u \in Tasks : waking[u] = w

\* The inductive invariant of Spec.
IndInv == TypeOK /\ ListInv /\ LabelInv /\ QueueInv /\ StateInv /\ WakeInv /\ SliceBound

=============================================================================
