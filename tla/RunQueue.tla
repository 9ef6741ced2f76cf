----------------------------- MODULE RunQueue -----------------------------
(***************************************************************************)
(* The run queue of CP at the level of its links (cp/nucleus/sched.c and   *)
(* include/list.h).                                                        *)
(*                                                                         *)
(* create_task and make_runnable run in a task, enabled for interruptions, *)
(* and their list_add_tail is five steps here: the load of head->prev and  *)
(* the four stores of __list_add.  __schedule runs in an interruption      *)
(* handler and is one action.                                              *)
(*                                                                         *)
(* Module Sched has the run queue as a sequence.  This module shows when   *)
(* that is right: a list_add_tail that the timer interrupts loses tasks,   *)
(* unless it has not stored anything and what it loaded is still true.     *)
(***************************************************************************)
EXTENDS Integers, Sequences, LinkedList

CONSTANTS
    Tasks,          \* struct task objects, idle_task apart
    Idle,           \* &idle_task
    Queue           \* &runnable

ASSUME TaskAssumption ==
    /\ Idle \notin Tasks /\ Queue \notin Tasks /\ NULL \notin Tasks /\ Poison \notin Tasks
    /\ Queue # Poison

Nodes == Tasks \cup {Queue}

VARIABLES
    links,      \* the links of runnable and of every task->run_queue
    current,    \* the task that runs
    blocked,    \* tasks that called schedule_blocked
    exists,     \* the tasks created and not terminated
    step,       \* where in list_add_tail a task is; 0: elsewhere
    new,        \* the task it links
    last,       \* the head->prev it loaded
    fifo,       \* history: the tasks that should be on the queue, the next one first
    crashed,    \* __sched followed a poisoned link
    torn        \* history: a list_add_tail was interrupted between its stores, or
                \* stored what was not true any more

adds == <<step, new, last>>
queueVars == <<links, current, blocked, exists, step, new, last, fifo, crashed,
               torn>>

\* After create_task("*finish-loading") and the first tick.
QueueInit ==
    /\ \E boot \in Tasks : current = boot /\ exists = {boot}
    /\ links = InitListHead([next |-> [n \in Nodes |-> Poison],
                                prev |-> [n \in Nodes |-> Poison]], Queue)
    /\ blocked = {}
    /\ step = [t \in Tasks |-> 0]
    /\ new = [t \in Tasks |-> NULL] /\ last = [t \in Tasks |-> NULL]
    /\ fifo = <<>> /\ crashed = FALSE /\ torn = FALSE

-----------------------------------------------------------------------------
\* list_add_tail(&n->run_queue, &runnable) by the current task begins.
StartAdd(n) ==
    /\ current \in Tasks /\ step[current] = 0
    /\ step' = [step EXCEPT ![current] = 1]
    /\ new' = [new EXCEPT ![current] = n]

CreateTask(n) ==
    /\ n \notin exists
    /\ exists' = exists \cup {n}
    /\ StartAdd(n)
    /\ UNCHANGED <<links, current, blocked, last, fifo, crashed, torn>>

MakeRunnable(n) ==
    /\ n \in blocked
    /\ blocked' = blocked \ {n}
    /\ StartAdd(n)
    /\ UNCHANGED <<links, current, exists, last, fifo, crashed, torn>>

\* Is the current task between the stores of a __list_add?
Storing == current \in Tasks /\ step[current] \in 3..5

\* The k-th step of the list_add_tail that the current task is in.
AddStep(k) ==
    /\ current \in Tasks /\ step[current] = k
    /\ step' = [step EXCEPT ![current] = (k + 1) % 6]
    /\ UNCHANGED <<current, blocked, exists, crashed>>

\* The stores of __list_add.
LoadLast ==
    /\ AddStep(1)
    /\ last' = [last EXCEPT ![current] = links.prev[Queue]]
    /\ UNCHANGED <<links, new, fifo, torn>>

StorePrevOfHead ==
    /\ AddStep(2)
    /\ links' = [links EXCEPT !.prev[Queue] = new[current]]
    /\ torn' = (torn \/ last[current] # links.prev[Queue])
    /\ UNCHANGED <<new, last, fifo>>

StoreNextOfNew ==
    /\ AddStep(3)
    /\ links' = [links EXCEPT !.next[new[current]] = Queue]
    /\ UNCHANGED <<new, last, fifo, torn>>

StorePrevOfNew ==
    /\ AddStep(4)
    /\ links' = [links EXCEPT !.prev[new[current]] = last[current]]
    /\ UNCHANGED <<new, last, fifo, torn>>

\* Mutant of StoreNextOfLast: the head's next is stored instead.
StoreNextOfQueue ==
    /\ AddStep(5)
    /\ links' = [links EXCEPT !.next[Queue] = new[current]]
    /\ fifo' = Append(fifo, new[current])
    /\ new' = [new EXCEPT ![current] = NULL] /\ last' = [last EXCEPT ![current] = NULL]
    /\ UNCHANGED torn

StoreNextOfLast ==
    /\ AddStep(5)
    /\ links' = [links EXCEPT !.next[last[current]] = new[current]]
    /\ fifo' = Append(fifo, new[current])
    /\ new' = [new EXCEPT ![current] = NULL] /\ last' = [last EXCEPT ![current] = NULL]
    /\ UNCHANGED torn

-----------------------------------------------------------------------------
\* __sched with the links h and the queue q: idle if the queue is empty, else
\* its first task.
Sched(h, q) ==
    LET next == h.next[Queue]
    IN  IF next = Queue
        THEN current' = Idle /\ links' = h /\ fifo' = q /\ UNCHANGED crashed
        ELSE IF next = Poison \/ Poison \in {h.next[next], h.prev[next]}
        THEN crashed' = TRUE /\ links' = h /\ fifo' = q /\ UNCHANGED current
        ELSE /\ current' = next
             /\ links' = ListDel(h, next)
             /\ fifo' = SubSeq(q, 2, Len(q))
             /\ UNCHANGED crashed

\* The timer: __schedule(TASK_SLEEPING).
Tick ==
    /\ ~crashed
    /\ torn' = (torn \/ Storing)
    /\ IF current = Idle THEN Sched(links, fifo)
       ELSE Sched(ListAddTail(links, current, Queue), Append(fifo, current))
    /\ UNCHANGED <<blocked, exists, adds>>

\* schedule_blocked: __schedule(TASK_LOCKED).
ScheduleBlocked ==
    /\ ~crashed
    /\ current \in Tasks /\ step[current] = 0
    /\ blocked' = blocked \cup {current}
    /\ Sched(links, fifo)
    /\ UNCHANGED <<exists, adds, torn>>

\* exit: __schedule(TASK_ZOMBIE).
Exit ==
    /\ ~crashed
    /\ current \in Tasks /\ step[current] = 0
    /\ exists' = exists \ {current}
    /\ Sched(links, fifo)
    /\ UNCHANGED <<blocked, adds, torn>>

QueueNext ==
    \/ \E n \in Tasks : CreateTask(n) \/ MakeRunnable(n)
    \/ LoadLast \/ StorePrevOfHead \/ StoreNextOfNew \/ StorePrevOfNew
    \/ StoreNextOfLast
    \/ Tick \/ ScheduleBlocked \/ Exit

QueueSpec == QueueInit /\ [][QueueNext]_queueVars

-----------------------------------------------------------------------------
\* Outside of the stores of list_add_tail the links are a doubly linked list of
\* the tasks that were queued, in the order in which they were queued: what Sched
\* takes the run queue to be.
LinksAreFifo ==
    ~Storing => IsList(links, Queue, fifo, Len(fifo))

\* "Insert a new entry between two known consecutive entries" (list.h:37), "Add the
\* task to the scheduler lists" (sched.c:121-123) and "Add back on the queue"
\* (sched.c:222-224): the links are the list Sched takes them for, and a task that
\* neither runs, nor waits for a lock, nor is being added is one that __sched comes
\* across, also while a link is missing.
NoTaskLost ==
    /\ LinksAreFifo
    /\ \A t \in exists \ (blocked \cup {current}) :
          \/ \E u \in Tasks : new[u] = t
          \/ \E i \in 1..Len(fifo) : Walk(links, Queue, Len(fifo))[i] = t

\* Any number of tasks may be preempted in create_task and make_runnable, and in
\* list_add_tail itself: no task is lost until a tick comes between the stores of a
\* __list_add, or a __list_add stores to a tail that is none any more.
LostOnlyIfTorn == ~torn => NoTaskLost
=============================================================================
