----------------------------- MODULE VirtSys -----------------------------
(***************************************************************************)
(* One virtual machine: its virtual CPU, its virtual subchannels and the   *)
(* I/O interruptions queued for it (cp/guest, cp/drivers/vdevice.c, the    *)
(* SSCH part of cp/drivers/spooldev.c, and the loop of cp/shell/init.c).   *)
(*                                                                         *)
(* A guest has one task.  It takes CP commands, gives the guest a pending  *)
(* I/O interruption, runs it under SIE and simulates the instruction that  *)
(* SIE intercepts; another task touches the guest only before it runs      *)
(* (__finish_loading).  So a step is one command, one entry or one         *)
(* interception, and the mutexes of the devices are never contended.       *)
(*                                                                         *)
(* What the guest program does under SIE is any change of its PSW and      *)
(* control register 6, followed by any interception.  A channel program    *)
(* ends well or not; of the pmcw the fields are kept that the code reads.  *)
(* Page 0 of a guest is always mapped, so that __io_int does not fail.     *)
(***************************************************************************)
EXTENDS Integers, Sequences, FiniteSets

CONSTANTS
    Vdevs,      \* the virtual subchannels
    VType,      \* vdev->vtype
    MaxIsc,     \* the interruption subclasses are 0..MaxIsc (7)
    Params,     \* the interruption parameters a guest uses besides 0
    GuestPSWs,  \* the PSWs a guest loads
    MaxInts     \* bound: the interruptions queued at a time

Types == {"CONS", "SPOOL", "DED", "MDISK"}
Iscs == 0..MaxIsc

ASSUME TypeAssumption == VType \in [Vdevs -> Types]
ASSUME PSWAssumption ==
    GuestPSWs \subseteq [io : BOOLEAN, w : BOOLEAN, other : BOOLEAN]
ASSUME IscAssumption == MaxIsc \in 0..7
ASSUME BoundAssumption == MaxInts \in Nat \ {0}

VARIABLES
    pc,         \* the guest's task: loop (shell_start) or sie (run_guest)
    state,      \* cpu->state
    psw,        \* the masks of the guest's PSW: io, w(ait), and ex or m
    cr6,        \* the subclasses that control register 6 enables
    cc,         \* the guest's condition code
    int_io,     \* cpu->int_io: for each subclass a queue of interruptions
    scsw,       \* vdev->scsw: fc, ac and sc as sets of bits
    pmcw,       \* vdev->pmcw: isc and interrupt_param
    orphans,    \* history: the subchannels whose start function was abandoned
    told,       \* history: the subchannels whose status was announced by an
                \* interruption that the guest has taken
    raced       \* history: a status was cleared while its interruption was queued

cpu == <<state, psw, cr6, cc>>
ghosts == <<orphans, told, raced>>
vars == <<pc, state, psw, cr6, cc, int_io, scsw, pmcw, orphans, told, raced>>

ZeroPSW == [io |-> FALSE, w |-> FALSE, other |-> FALSE]
ZeroSCSW == [fc |-> {}, ac |-> {}, sc |-> {}]
ZeroPMCW == [isc |-> 0, param |-> 0]
Interruptions == [ssid : Vdevs, param : Params \cup {0}]

\* alloc_vcpu and alloc_virt_dev.
Init ==
    /\ pc = "loop" /\ state = "STOPPED"
    /\ psw = ZeroPSW /\ cr6 = {} /\ cc = 0
    /\ int_io = [c \in Iscs |-> <<>>]
    /\ scsw = [v \in Vdevs |-> ZeroSCSW]
    /\ pmcw = [v \in Vdevs |-> ZeroPMCW]
    /\ orphans = {} /\ told = {} /\ raced = FALSE

-----------------------------------------------------------------------------
\* CP commands, which the task takes before each turn of its loop.

\* BEGIN: guest_begin.
Begin ==
    /\ pc = "loop" /\ state \in {"STOPPED", "OPERATING"}
    /\ state' = "OPERATING"
    /\ UNCHANGED <<pc, psw, cr6, cc, int_io, scsw, pmcw, ghosts>>

\* STOP: guest_stop.
Stop ==
    /\ pc = "loop" /\ state \in {"STOPPED", "OPERATING"}
    /\ state' = "STOPPED"
    /\ UNCHANGED <<pc, psw, cr6, cc, int_io, scsw, pmcw, ghosts>>

\* RESET_IO of __perform_noncpu_reset; RESET_FLOATING_INTERRUPTIONS does nothing.
ResetIO ==
    /\ pmcw' = [v \in Vdevs |-> ZeroPMCW]
    /\ scsw' = [v \in Vdevs |-> ZeroSCSW]
    /\ orphans' = {} /\ told' = {}
    /\ raced' = (raced \/ \E c \in Iscs : int_io[c] # <<>>)
    /\ UNCHANGED int_io

\* SYSTEM RESET: guest_system_reset_normal.
SystemReset ==
    /\ pc = "loop"
    /\ state' = "STOPPED"
    /\ ResetIO
    /\ UNCHANGED <<pc, psw, cr6, cc>>

\* SYSTEM CLEAR: guest_system_reset_clear.  A clearing load, guest_load_clear,
\* has the same flags.
SystemClear ==
    /\ pc = "loop"
    /\ state' = "STOPPED"
    /\ psw' = ZeroPSW /\ cr6' = {} /\ cc' = 0
    /\ ResetIO
    /\ UNCHANGED pc

\* IPL of a saved system that is not found, or cannot be read: CHECKSTOP,
\* before the reset if the ELF header is at fault and after it otherwise.  A
\* successful IPL is a SystemClear as far as this module's state goes.
IplFails ==
    /\ pc = "loop"
    /\ state' = "CHECKSTOP"
    /\ \/ UNCHANGED <<psw, cr6, cc, int_io, scsw, pmcw, ghosts>>
       \/ psw' = ZeroPSW /\ cr6' = {} /\ cc' = 0 /\ ResetIO
    /\ UNCHANGED pc

-----------------------------------------------------------------------------
\* run_guest up to the entry to SIE.

\* The subclasses of which __io_int may take an interruption.
Deliverable == {c \in cr6 : psw.io /\ int_io[c] # <<>>}

\* Mutant of IoInt: a guest in the wait state gets no interruption.
IoIntNotInWait ==
    /\ pc = "loop" /\ state = "OPERATING" /\ ~psw.w
    /\ \E c \in Deliverable : \E new \in GuestPSWs :
          /\ \A d \in Deliverable : c <= d
          /\ int_io' = [int_io EXCEPT ![c] = Tail(@)]
          /\ told' = told \cup {Head(int_io[c]).ssid}
          /\ psw' = new
    /\ pc' = "sie"
    /\ UNCHANGED <<state, cr6, cc, scsw, pmcw, orphans, raced>>

\* __io_int takes the first interruption of the lowest subclass that the guest
\* has enabled and swaps the PSW for the guest's I/O new PSW.  It is the one
\* that announces the status of v if it is the last of v in the subclass of v.
IoInt ==
    /\ pc = "loop" /\ state = "OPERATING"
    /\ \E c \in Deliverable : \E new \in GuestPSWs :
          /\ \A d \in Deliverable : c <= d
          /\ int_io' = [int_io EXCEPT ![c] = Tail(@)]
          /\ told' = LET v == Head(int_io[c]).ssid
                     IN  IF c = pmcw[v].isc
                            /\ \A i \in 2..Len(int_io[c]) : int_io[c][i].ssid # v
                         THEN told \cup {v} ELSE told
          /\ psw' = new
    /\ pc' = "sie"
    /\ UNCHANGED <<state, cr6, cc, scsw, pmcw, orphans, raced>>

\* In a wait state the task yields; in a disabled wait the guest is stopped.
Waits ==
    /\ pc = "loop" /\ state = "OPERATING" /\ Deliverable = {} /\ psw.w
    /\ state' = IF psw.io \/ psw.other THEN state ELSE "STOPPED"
    /\ UNCHANGED <<pc, psw, cr6, cc, int_io, scsw, pmcw, ghosts>>

EnterSIE ==
    /\ pc = "loop" /\ state = "OPERATING" /\ Deliverable = {} /\ ~psw.w
    /\ pc' = "sie"
    /\ UNCHANGED <<cpu, int_io, scsw, pmcw, ghosts>>

-----------------------------------------------------------------------------
\* What ends SIE, and handle_interception.

\* The guest runs for a while; nothing, a wait or a stop request ends SIE.
GuestRuns ==
    /\ pc = "sie" /\ pc' = "loop"
    /\ psw' \in GuestPSWs /\ cr6' \in SUBSET Iscs
    /\ UNCHANGED <<state, cc, int_io, scsw, pmcw, ghosts>>

\* Every other interception, an instruction that is not simulated, a failed
\* handler and queue_prog_exception stop the guest.
StopsGuest ==
    /\ pc = "sie" /\ pc' = "loop"
    /\ state' = "STOPPED"
    /\ UNCHANGED <<psw, cr6, cc, int_io, scsw, pmcw, ghosts>>

\* An instruction that does nothing but set the condition code to code: 3 if
\* there is no such subchannel, 0 for STSCH and for MSCH with an invalid SCHIB.
SetsCode(code) ==
    /\ pc = "sie" /\ pc' = "loop"
    /\ cc' = code
    /\ UNCHANGED <<state, psw, cr6, int_io, scsw, pmcw, ghosts>>

NoSubchannel == SetsCode(3)
Stsch == SetsCode(0)

Pending(v) == "STATUS" \in scsw[v].sc
Busy(v) == scsw[v].fc # {}

\* MSCH and SSCH on a subchannel with pending status or with a function in
\* progress.
Refused(v) ==
    \/ Pending(v) /\ SetsCode(1)
    \/ ~Pending(v) /\ Busy(v) /\ SetsCode(2)

Modify(v, isc, param) ==
    /\ pc = "sie" /\ pc' = "loop"
    /\ pmcw' = [pmcw EXCEPT ![v] = [isc |-> isc, param |-> param]]
    /\ cc' = 0
    /\ UNCHANGED <<state, psw, cr6, int_io, scsw, ghosts>>

\* Mutant of Msch: a subchannel with pending status is modified.
MschAnyTime(v, isc, param) == Modify(v, isc, param)

\* handle_msch, with a valid SCHIB.
Msch(v, isc, param) == ~Pending(v) /\ ~Busy(v) /\ Modify(v, isc, param)

\* How a channel program ends: spool_exec's status, and queue_io_interrupt.
Executed(v, param, alert) ==
    /\ scsw' = [scsw EXCEPT ![v] = [fc |-> {"START"}, ac |-> {},
                    sc |-> {"PRIMARY", "SECONDARY", "STATUS"} \cup alert]]
    /\ pmcw' = [pmcw EXCEPT ![v].param = param]
    /\ int_io' = [int_io EXCEPT ![pmcw[v].isc] =
                    Append(@, [ssid |-> v, param |-> param])]
    /\ told' = told \ {v}
    /\ cc' = 0
    /\ UNCHANGED <<state, orphans, raced>>

\* A start function that is not carried out: spool_exec has no storage for its
\* buffer, which sets code to 0, or the type of device is not supported.
Abandoned(v, param, code) ==
    /\ scsw' = [scsw EXCEPT ![v] = [fc |-> {"START"}, ac |-> {"START"}, sc |-> {}]]
    /\ pmcw' = [pmcw EXCEPT ![v].param = param]
    /\ cc' = code /\ state' = "STOPPED"
    /\ orphans' = orphans \cup {v}
    /\ UNCHANGED <<int_io, told, raced>>

InterruptionsQueued == {x \in Iscs \X (1..MaxInts) : x[2] <= Len(int_io[x[1]])}

Start(v, param) ==
    /\ pc = "sie" /\ pc' = "loop"
    /\ \/ /\ VType[v] \in {"CONS", "SPOOL"}
          /\ Cardinality(InterruptionsQueued) < MaxInts
          /\ \E alert \in {{}, {"ALERT"}} : Executed(v, param, alert)
       \/ VType[v] \in {"CONS", "SPOOL"} /\ Abandoned(v, param, 0)
       \/ VType[v] \notin {"CONS", "SPOOL"} /\ Abandoned(v, param, cc)
    /\ UNCHANGED <<psw, cr6>>

\* Mutant of Ssch: pending status does not keep a function from being started.
SschIgnoresStatus(v, param) == Start(v, param)

\* handle_ssch.
Ssch(v, param) == ~Pending(v) /\ ~Busy(v) /\ Start(v, param)

\* The subchannel after a TSCH that stored its status; SC_INTERMED is never set.
Tested(v, fc) ==
    /\ pc = "sie" /\ pc' = "loop"
    /\ Pending(v)
    /\ scsw' = [scsw EXCEPT ![v].fc = fc,
                            ![v].ac = @ \ {"RESUME", "START", "HALT", "CLEAR"},
                            ![v].sc = @ \ {"STATUS"}]
    /\ raced' = (raced \/ v \notin told)
    /\ cc' = 0
    /\ UNCHANGED <<state, psw, cr6, int_io, pmcw, orphans, told>>

\* Mutant of Tsch: the start function stays indicated.
TschKeepsFc(v) == Tested(v, scsw[v].fc)

\* handle_tsch.  It does not dequeue the interruption.
Tsch(v) == Tested(v, {})

TschNothing(v) == ~Pending(v) /\ SetsCode(1)

Turn == IoInt \/ Waits \/ EnterSIE

Intercept ==
    \/ GuestRuns \/ StopsGuest \/ NoSubchannel \/ Stsch
    \/ \E v \in Vdevs : \/ Refused(v) \/ Tsch(v) \/ TschNothing(v)
                        \/ \E param \in Params \cup {0} :
                              \/ Ssch(v, param)
                              \/ \E isc \in Iscs : Msch(v, isc, param)

Command == Begin \/ Stop \/ SystemReset \/ SystemClear \/ IplFails

Next == Command \/ Turn \/ Intercept

\* The guest's task is scheduled again and again, and SIE ends with the next
\* interruption of the host at the latest.
Spec == Init /\ [][Next]_vars
FairSpec == Spec /\ WF_vars(Turn) /\ WF_vars(Intercept)

-----------------------------------------------------------------------------
TypeOK ==
    /\ pc \in {"loop", "sie"}
    /\ state \in {"STOPPED", "OPERATING", "CHECKSTOP"}
    /\ psw \in GuestPSWs \cup {ZeroPSW} /\ cr6 \subseteq Iscs /\ cc \in 0..3
    /\ int_io \in [Iscs -> Seq(Interruptions)]
    /\ scsw \in [Vdevs -> [fc : SUBSET {"START"}, ac : SUBSET {"START"},
                          sc : SUBSET {"PRIMARY", "SECONDARY", "STATUS", "ALERT"}]]
    /\ pmcw \in [Vdevs -> [isc : Iscs, param : Params \cup {0}]]
    /\ orphans \subseteq Vdevs /\ told \subseteq Vdevs /\ raced \in BOOLEAN

\* Status that spool_exec left at a subchannel has been announced to the guest,
\* or the newest interruption of the subchannel in the queue of its subclass
\* announces it, with its interruption parameter: no MSCH, TSCH, reset or
\* earlier interruption takes it away.
StatusAnnounced ==
    \A v \in Vdevs : Pending(v) /\ v \notin told =>
        LET q == int_io[pmcw[v].isc]
        IN  \E i \in 1..Len(q) : /\ q[i] = [ssid |-> v, param |-> pmcw[v].param]
                                 /\ \A j \in (i + 1)..Len(q) : q[j].ssid # v

\* Unless status is cleared while its interruption is queued (TSCH with I/O
\* interruptions disabled, reset), the queues hold exactly one interruption for
\* each status that was not announced, and no other.
QueueIsExact ==
    ~raced => \A v \in Vdevs :
        Cardinality({x \in InterruptionsQueued : int_io[x[1]][x[2]].ssid = v})
            = IF Pending(v) /\ v \notin told THEN 1 ELSE 0

\* A subchannel that neither has status pending nor was abandoned accepts the
\* next SSCH: no sequence of SSCH, TSCH, MSCH and resets leaves it busy.
FreeUnlessAbandoned ==
    \A v \in Vdevs : ~Pending(v) /\ v \notin orphans =>
        scsw[v].fc = {} /\ scsw[v].ac = {}

\* A guest that waits, enabled for a queued interruption, is given one, unless
\* a command stops it: __io_int looks at the queues before run_guest looks at
\* the wait bit.
WaitEnds ==
    (state = "OPERATING" /\ psw.w /\ Deliverable # {})
        ~> (pc = "sie" \/ state # "OPERATING")
=============================================================================
