--------------------------------- MODULE IO ---------------------------------
(***************************************************************************)
(* Channel I/O of CP on one device (cp/nucleus/io.c): tasks submit         *)
(* operations with submit_io and wait, the I/O interrupt handler completes *)
(* them and starts the next.                                               *)
(*                                                                         *)
(* An io_op lives on the stack of the task that submits it, so the task    *)
(* stands for its operation.  The handler, and what submit_io does under   *)
(* q_lock, run disabled for interrupts and are one action each; everything *)
(* else is interrupted anywhere.  The drivers that are built set neither   *)
(* ioop->handler nor ioop->dtor.                                           *)
(*                                                                         *)
(* The subchannel is external: it executes the channel program it was      *)
(* started with, presents status, and may present unsolicited status.      *)
(***************************************************************************)
EXTENDS Integers, Sequences, FiniteSets, Functions

CONSTANTS
    Tasks,          \* the tasks that do I/O on this device
    None,           \* NULL
    ParamMod,       \* number of values of op_id_counter (2^32)
    Statuses,       \* the ending status a started subchannel may present
    Unsolicited,    \* does the device present status of its own accord?
    Removable       \* may the device become not operational?

ASSUME TaskAssumption == None \notin Tasks
ASSUME ParamAssumption == ParamMod \in Nat \ {0}
\* Channel End, Device End, Unit Check.
ASSUME StatusAssumption ==
    /\ Statuses \subseteq (SUBSET {"CE", "DE", "UC"}) \ {{}}
    /\ Unsolicited \in BOOLEAN /\ Removable \in BOOLEAN

VARIABLES
    counter,    \* op_id_counter
    submit,     \* where a task is in submit_io: no, init, wait
    param,      \* ioop->orb.param
    err,        \* ioop->err
    done,       \* ioop->done
    q_out,      \* dev->q_out
    q_cur,      \* dev->q_cur
    sch,        \* the subchannel: idle, active, pending, device or gone
    status,     \* the device status it has to present
    intparm,    \* the interruption parameter of the ORB it was started with
    started,    \* the operation it was started with last
    devsLock,   \* devs_lock: the task that holds it
    halted      \* no, spin (in the handler, for ever), or bug (a BUG_ON)

ops == <<counter, param, done>>
queues == <<q_out, q_cur>>
subchannel == <<sch, status, intparm, started>>
vars == <<counter, submit, param, err, done, q_out, q_cur, sch, status, intparm,
          started, devsLock, halted>>

EBUSY == -2
EAGAIN == -3
EINVAL == -4
EUCHECK == -8

\* A device after scan_devices.
Init ==
    /\ counter = 0
    /\ submit = [t \in Tasks |-> "no"]
    /\ param = [t \in Tasks |-> 0]
    /\ err = [t \in Tasks |-> 0]
    /\ done = [t \in Tasks |-> FALSE]
    /\ q_out = <<>> /\ q_cur = None
    /\ sch = "idle" /\ status = {} /\ intparm = 0 /\ started = None
    /\ devsLock = None /\ halted = "no"

-----------------------------------------------------------------------------
(* The subchannel.                                                         *)

\* The channel program ends, with or without the device's own end.
Present(s) ==
    /\ sch = "active"
    /\ sch' = "pending" /\ status' = s
    /\ UNCHANGED <<ops, submit, err, queues, intparm, started, devsLock, halted>>

\* Device End after an earlier Channel End.
PresentDeviceEnd(s) ==
    /\ sch = "device" /\ "DE" \in s
    /\ sch' = "pending" /\ status' = s \ {"CE"}
    /\ UNCHANGED <<ops, submit, err, queues, intparm, started, devsLock, halted>>

Attention ==
    /\ Unsolicited
    /\ sch = "idle"
    /\ sch' = "pending" /\ status' = {"ATTN"}
    /\ UNCHANGED <<ops, submit, err, queues, intparm, started, devsLock, halted>>

\* The device is not operational any more.
Detach ==
    /\ Removable
    /\ sch = "idle"
    /\ sch' = "gone"
    /\ UNCHANGED <<ops, submit, err, queues, status, intparm, started, devsLock, halted>>

\* What start_sch may return.  Between Channel End and Device End the start
\* may be accepted (it then waits for the device) or refused.
StartSch(s) ==
    CASE s = "idle" -> {0}
      [] s = "device" -> {0, EBUSY}
      [] s \in {"active", "pending"} -> {EBUSY}
      [] s = "gone" -> {EINVAL}

\* The states test_sch may leave the subchannel in.  It takes the status; the
\* subchannel is then free unless Device End is still to come.  If the device
\* is not operational any more, test_sch returns EINVAL.
TestSch ==
    {IF "CE" \in status /\ "DE" \notin status THEN "device" ELSE "idle"}
        \cup (IF Removable THEN {"gone"} ELSE {})

-----------------------------------------------------------------------------
(* submit_io.                                                              *)

\* Mutant of SubmitIo: no list_del.
SubmitIoStaysQueued(cur, q, s, e) ==
    IF cur # None \/ q = <<>> \/ 0 \notin StartSch(s)
    THEN q_cur' = cur /\ q_out' = q /\ sch' = s /\ err' = e /\ UNCHANGED <<intparm, started>>
    ELSE /\ q_cur' = Head(q) /\ q_out' = q
         /\ sch' = "active" /\ err' = e
         /\ started' = Head(q) /\ intparm' = param[Head(q)]

\* Mutant of SubmitIo: the result of start_sch is not looked at.
SubmitIoUnchecked(cur, q, s, e) ==
    IF cur # None \/ q = <<>>
    THEN q_cur' = cur /\ q_out' = q /\ sch' = s /\ err' = e /\ UNCHANGED <<intparm, started>>
    ELSE /\ q_cur' = Head(q) /\ q_out' = Tail(q) /\ err' = e
         /\ IF 0 \in StartSch(s)
            THEN sch' = "active" /\ started' = Head(q) /\ intparm' = param[Head(q)]
            ELSE sch' = s /\ UNCHANGED <<intparm, started>>

\* __submit_io with q_cur = cur, q_out = q, the subchannel in state s and the
\* errors e: start the first operation unless one is under way.
SubmitIo(cur, q, s, e) ==
    IF cur # None \/ q = <<>>
    THEN /\ q_cur' = cur /\ q_out' = q
         /\ sch' = s /\ err' = e
         /\ UNCHANGED <<intparm, started>>
    ELSE \E cc \in StartSch(s) :
            IF cc = 0
            THEN /\ q_cur' = Head(q) /\ q_out' = Tail(q)
                 /\ sch' = "active" /\ err' = e
                 /\ started' = Head(q) /\ intparm' = param[Head(q)]
            ELSE /\ q_cur' = None /\ q_out' = q
                 /\ sch' = s /\ err' = [e EXCEPT ![Head(q)] = cc]
                 /\ UNCHANGED <<intparm, started>>

\* The fields of a new io_op.
SubmitInit(t) ==
    /\ submit[t] = "no" /\ devsLock # t
    /\ submit' = [submit EXCEPT ![t] = "init"]
    /\ counter' = (counter + 1) % ParamMod
    /\ param' = [param EXCEPT ![t] = counter']
    /\ err' = [err EXCEPT ![t] = 0]
    /\ done' = [done EXCEPT ![t] = FALSE]
    /\ UNCHANGED <<queues, subchannel, devsLock, halted>>

\* Mutant of SubmitQueue: list_add instead of list_add_tail.
SubmitQueueFirst(t) ==
    /\ submit[t] = "init"
    /\ submit' = [submit EXCEPT ![t] = "wait"]
    /\ SubmitIo(q_cur, <<t>> \o q_out, sch, err)
    /\ UNCHANGED <<ops, status, devsLock, halted>>

\* The section under q_lock.
SubmitQueue(t) ==
    /\ submit[t] = "init"
    /\ submit' = [submit EXCEPT ![t] = "wait"]
    /\ SubmitIo(q_cur, Append(q_out, t), sch, err)
    /\ UNCHANGED <<ops, status, devsLock, halted>>

\* atomic_read(&ioop->done): submit_io returns and the io_op is gone.
SubmitReturn(t) ==
    /\ submit[t] = "wait" /\ done[t]
    /\ submit' = [submit EXCEPT ![t] = "no"]
    /\ UNCHANGED <<ops, err, queues, subchannel, devsLock, halted>>

\* find_device_by_ccuu, find_device_by_type, list_devices, __register_device:
\* a task holds devs_lock and stays enabled for interrupts.
LockDevices(t) ==
    /\ submit[t] = "no" /\ devsLock = None
    /\ devsLock' = t
    /\ UNCHANGED <<ops, submit, err, queues, subchannel, halted>>

UnlockDevices(t) ==
    /\ devsLock = t
    /\ devsLock' = None
    /\ UNCHANGED <<ops, submit, err, queues, subchannel, halted>>

-----------------------------------------------------------------------------
(* __io_int_handler.                                                       *)

\* Mutant of DefaultIoHandler: any status without a unit check is the end.
DefaultIoHandlerEager(s) == IF "UC" \in s /\ "DE" \notin s THEN EUCHECK ELSE 0

\* default_io_handler: the error of an operation that ended with status s.
DefaultIoHandler(s) ==
    CASE "DE" \in s -> 0
      [] "DE" \notin s /\ "UC" \in s -> EUCHECK
      [] OTHER -> EAGAIN

\* Is the interruption one of the operation under way?
IsCpuInitiated == q_cur # None /\ param[q_cur] = intparm

\* ioop->err after test_sch and the handler.
Ended(after) == IF after = "gone" THEN EINVAL ELSE DefaultIoHandler(status)

\* Mutant of CpuInitiatedIo: the next operation is not started.
CpuInitiatedIoAlone(after) ==
    /\ IsCpuInitiated
    /\ err' = [err EXCEPT ![q_cur] = Ended(after)]
    /\ sch' = after
    /\ IF Ended(after) = EAGAIN
       THEN UNCHANGED <<done, q_cur>>
       ELSE q_cur' = None /\ done' = [done EXCEPT ![q_cur] = TRUE]
    /\ UNCHANGED <<counter, param, q_out, intparm, started, halted>>

\* __cpu_initiated_io, when test_sch leaves the subchannel in state after.
CpuInitiatedIo(after) ==
    /\ IsCpuInitiated
    /\ IF Ended(after) = EAGAIN
       THEN /\ err' = [err EXCEPT ![q_cur] = EAGAIN]
            /\ sch' = after
            /\ UNCHANGED <<done, queues, intparm, started>>
       ELSE /\ SubmitIo(None, q_out, after, [err EXCEPT ![q_cur] = Ended(after)])
            /\ done' = [done EXCEPT ![q_cur] = TRUE]
    /\ UNCHANGED <<counter, param, halted>>

\* A device-initiated interruption: BUG_ON(test_sch(...)); no driver that is
\* built has a callback or looks at dev->attention.
DevInitiatedIo(after) ==
    /\ ~IsCpuInitiated
    /\ sch' = after
    /\ halted' = IF after = "gone" THEN "bug" ELSE "no"
    /\ UNCHANGED <<ops, err, queues, intparm, started>>

IoInterrupt(after) ==
    /\ sch = "pending"
    /\ devsLock = None
    /\ CpuInitiatedIo(after) \/ DevInitiatedIo(after)
    /\ status' = {}
    /\ UNCHANGED <<submit, devsLock>>

\* find_device_by_sch finds devs_lock taken by the task it has interrupted.
IoInterruptHangs ==
    /\ sch = "pending"
    /\ devsLock # None
    /\ halted' = "spin"
    /\ UNCHANGED <<ops, submit, err, queues, subchannel, devsLock>>

-----------------------------------------------------------------------------
Subchannel == (\E s \in Statuses : Present(s) \/ PresentDeviceEnd(s)) \/ Attention \/ Detach

Next ==
    /\ halted = "no"
    /\ \/ Subchannel
       \/ \E t \in Tasks : SubmitInit(t) \/ SubmitQueue(t) \/ SubmitReturn(t)
                              \/ LockDevices(t) \/ UnlockDevices(t)
       \/ \E after \in TestSch : IoInterrupt(after)
       \/ IoInterruptHangs

Spec == Init /\ [][Next]_vars

\* The subchannel ends what it was started with, the processor takes pending
\* interruptions, and every task gets its slices.
Fairness ==
    /\ WF_vars(halted = "no" /\ \E s \in Statuses : Present(s) \/ PresentDeviceEnd(s))
    /\ WF_vars(halted = "no" /\ ((\E after \in TestSch : IoInterrupt(after)) \/ IoInterruptHangs))
    /\ \A t \in Tasks :
          /\ WF_vars(halted = "no" /\ SubmitQueue(t))
          /\ WF_vars(halted = "no" /\ SubmitReturn(t))
          /\ WF_vars(halted = "no" /\ UnlockDevices(t))

FairSpec == Spec /\ Fairness

-----------------------------------------------------------------------------
(* Properties.                                                             *)

TypeOK ==
    /\ counter \in 0..(ParamMod - 1)
    /\ submit \in [Tasks -> {"no", "init", "wait"}]
    /\ param \in [Tasks -> 0..(ParamMod - 1)]
    /\ err \in [Tasks -> {0, EBUSY, EAGAIN, EINVAL, EUCHECK}]
    /\ done \in [Tasks -> BOOLEAN]
    /\ q_out \in Seq(Tasks)
    /\ q_cur \in Tasks \cup {None}
    /\ sch \in {"idle", "active", "pending", "device", "gone"}
    /\ status \subseteq {"CE", "DE", "UC", "ATTN"}
    /\ intparm \in 0..(ParamMod - 1)
    /\ started \in Tasks \cup {None}
    /\ devsLock \in Tasks \cup {None}
    /\ halted \in {"no", "spin", "bug"}

\* The device refers to an operation exactly while its submitter waits for it:
\* no waiting operation is lost, none is queued twice, and no queue points into
\* the stack of a task that has returned from submit_io.
OneHome ==
    /\ IsInjective(q_out)
    /\ q_cur \notin Range(q_out)
    /\ \A t \in Tasks :
          submit[t] = "wait" /\ ~done[t] <=> t \in Range(q_out) \/ t = q_cur

\* While an operation is under way the subchannel works on it and on nothing
\* else: its interruption parameter is the one the handler compares with, and
\* no unsolicited status can be taken for the end of the operation.
InterruptsMatch ==
    q_cur # None =>
        /\ started = q_cur /\ IsCpuInitiated
        /\ sch \in {"active", "pending", "device"}
        /\ "ATTN" \notin status

\* An operation waits although none is under way only if its start was refused.
NothingIdles == q_cur = None /\ q_out # <<>> => err[Head(q_out)] \in {EBUSY, EINVAL}

\* Only an interruption of its own completes an operation, with an error that
\* tells how it ended: a refused start or a Channel End alone never do.
CompletionIsOwn ==
    [][\A t \in Tasks : done'[t] /\ ~done[t] =>
           /\ sch = "pending" /\ started = t
           /\ \/ err'[t] = 0 /\ "DE" \in status
              \/ err'[t] = EUCHECK /\ "DE" \notin status /\ "UC" \in status
              \/ err'[t] = EINVAL /\ sch' = "gone"]_vars

Current == IF q_cur = None THEN <<>> ELSE <<q_cur>>

Abstract == INSTANCE OpQueue WITH
    fifo <- Current \o q_out,
    complete <- {t \in Tasks : done[t]}

\* q_cur and q_out together are the queue the drivers rely on.
ImplementsOpQueue == Abstract!Spec

\* io.c says of submit_io: "Submit an I/O request to a subchannel, and set up
\* everything needed to handle the operation".  A task that has called it gets
\* its operation completed and returns, unless the processor stops or the start
\* of the operation at the head of the queue was refused: nothing tries again.
SubmitterReturns ==
    \A t \in Tasks :
        (submit[t] = "wait") ~>
            \/ submit[t] = "no" \/ halted # "no"
            \/ q_cur = None /\ q_out # <<>> /\ err[Head(q_out)] \in {EBUSY, EINVAL}

\* io.c looks for "Unit check?", notes "we should bail" and sets EUCHECK: an
\* operation that ended with a unit check is not reported as successful.
UnitCheckIsError ==
    [][\A t \in Tasks : done'[t] /\ ~done[t] /\ "UC" \in status => err'[t] # 0]_vars

-----------------------------------------------------------------------------
(* The inductive invariant behind the safety properties.                   *)

\* The io_op of an earlier call leaves no trace.
FreshInv == \A t \in Tasks : submit[t] = "init" => ~done[t]

\* Status is there while it is pending.
StatusInv == sch = "pending" <=> status # {}

\* The inductive invariant of Spec: what a new operation finds is clean, and
\* the three views of the operation under way (the queues, the submitters and
\* the subchannel) agree at every interruption.
IndInv == TypeOK /\ OneHome /\ InterruptsMatch /\ NothingIdles /\ FreshInv /\ StatusInv
=============================================================================
