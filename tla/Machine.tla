------------------------------ MODULE Machine ------------------------------
(***************************************************************************)
(* CP with its virtual machines: the task that brings them up              *)
(* (__finish_loading: guest_create, guest_ipl_nss, guest_begin and         *)
(* guest_attach for a user), the task of each virtual machine, and the     *)
(* switching of control register 1 of the host when the scheduler switches *)
(* tasks.  It composes GuestStorage, VirtDevices, Channel and Commands.    *)
(*                                                                         *)
(* A task may be preempted between any two steps; a step is a command, a   *)
(* run of the guest, a CCW, the making of a device or a page of a virtual  *)
(* machine, or the copying of a block of a saved system.                   *)
(* __finish_loading brings up one user, *LOGIN; Logons may name more, as   *)
(* the functions it calls are made for.  The idle task neither saves nor   *)
(* loads control register 1 and is left out.                               *)
(***************************************************************************)
EXTENDS VirtDevices, Channel, Commands

CONSTANTS
    Logons,     \* the users that may be brought up first, second, and so on
    StoreOps,   \* the operands of STORE STORAGE and of the guest's stores
    DisplayOps, \* the operands of DISPLAY STORAGE
    PswOps,     \* the operands of STORE PSW
    RegOps,     \* the registers that are stored: file and number
    IplOps,     \* the names of IPL
    Programs,   \* the channel programs of each user: device type, format, address
    MaxOps      \* bound: the commands, runs and channel programs, but for DISPLAY

VARIABLES
    cur,        \* the task that runs
    alive,      \* the tasks
    saved,      \* task->regs.cr1
    started,    \* the users whose task has executed the start of shell_start
    boot,       \* how far __finish_loading is: the user, the step, the device
    ipl,        \* for each task how far guest_ipl_nss is: segment and offset
    halted,     \* CP stopped (BUG)
    loaded,     \* history: the system that was loaded and not touched since
    ops         \* how many of these there were

control == <<cur, alive, saved, started, boot, ipl, halted, loaded, ops>>
vars == <<storage, devices, chan, cpu, shown, control>>

Boot == "boot"
Tasks == Users \cup {Boot}
BA == 128                       \* the ba bit of the PSW, 0x80000000, scaled
NoIpl == [busy |-> FALSE, user |-> "none", saved |-> 0, nss |-> "none", seg |-> 1, off |-> 0]
NoBoot(k) == [k |-> k, user |-> "none", step |-> "create", dev |-> 1]

ASSUME UserAssumption == Boot \notin Users
ASSUME LogonAssumption ==
    /\ Logons \in Seq(SUBSET Users)
    /\ \A i, j \in DOMAIN Logons : i # j => Logons[i] \cap Logons[j] = {}
ASSUME OpAssumption ==
    /\ StoreOps \subseteq [addr : Nat, word : [1..4 -> 0..255]]
    /\ DisplayOps \subseteq [addr : Nat, len : Nat]
    /\ PswOps \subseteq Seq(Nat)
    /\ \A u \in Users : Programs[u] \subseteq [type : STRING, f : 0..1, addr : Int]
\* The segments of a saved system do not overlap.
ASSUME ImageAssumption ==
    \A nss \in DOMAIN Images : LET segs == Images[nss].segs IN
        /\ Images[nss].entry \in Nat
        /\ segs \in Seq([gaddr : Nat, data : Seq(0..255), memlen : Nat \ {0}])
        /\ \A i \in DOMAIN segs : Len(segs[i].data) <= segs[i].memlen
        /\ \A i, j \in DOMAIN segs : i # j =>
             \/ segs[i].gaddr + segs[i].memlen <= segs[j].gaddr
             \/ segs[j].gaddr + segs[j].memlen <= segs[i].gaddr

Init ==
    /\ StorageInit /\ DevicesInit /\ ChannelInit /\ CommandsInit
    /\ cur = Boot /\ alive = {Boot}
    /\ saved = [t \in Tasks |-> 0]
    /\ started = {}
    /\ boot = NoBoot(1)
    /\ ipl = [t \in Tasks |-> NoIpl]
    /\ halted = FALSE
    /\ loaded = [u \in Users |-> "none"]
    /\ ops = 0

Counted == ops < MaxOps /\ ops' = ops + 1

\* The outcome of a channel program is looked at before the task is preempted;
\* VirtSys follows it further.
ForgetEnded ==
    chan' = [u \in Users |-> IF chan[u].busy THEN chan[u] ELSE IdleChannel]

-----------------------------------------------------------------------------
\* Mutant of Switch: __schedule does not store the PASCE.
SwitchNoStore(t) ==
    /\ ~halted /\ t \in alive \ {cur}
    /\ load_pasce(saved[t])
    /\ cur' = t
    /\ shown' = Nothing /\ ForgetEnded
    /\ UNCHANGED <<free, mem, tables, as, guest_pages, devices, cpu, alive, saved,
                   started, boot, ipl, halted, loaded, ops>>

\* __schedule stores CR 1 for the task that ran, and __sched loads that of the
\* next one, if it is not 0.
Switch(t) ==
    /\ ~halted /\ t \in alive \ {cur}
    /\ saved' = [saved EXCEPT ![cur] = cr1]
    /\ load_pasce(saved[t])
    /\ cur' = t
    /\ shown' = Nothing /\ ForgetEnded
    /\ UNCHANGED <<free, mem, tables, as, guest_pages, devices, cpu, alive,
                   started, boot, ipl, halted, loaded, ops>>

-----------------------------------------------------------------------------
\* guest_ipl_nss, executed by task t for user u.

Segments(t) == Images[ipl[t].nss].segs

\* The next block of segment s, off bytes of which are copied: up to the end of
\* a block of the file, which is the end of a page since a segment has the same
\* offset in its page as in its block, or up to a page of zeros.
BlockLen(s, off) ==
    IF off < Len(s.data)
    THEN Smaller(PAGE - DAT_BX(s.gaddr + off), Len(s.data) - off)
    ELSE Smaller(PAGE, s.memlen - off)
Block(s, off) ==
    [i \in 1..BlockLen(s, off) |-> IF off < Len(s.data) THEN s.data[off + i] ELSE 0]

Loadable(nss) == nss \in DOMAIN Images /\ Images[nss].valid
Loading(u) == \E t \in Tasks : ipl[t].busy /\ ipl[t].user = u

\* Up to load_as.  A system that is not found, or whose header is not that of an
\* executable, leaves the guest as it is, in the check-stop state.
IplStart(t, u, nss) ==
    /\ ~ipl[t].busy
    /\ \/ /\ Loadable(nss)
          /\ ClearReset(u, "LOAD")
          /\ ipl' = [ipl EXCEPT ![t] = [busy |-> TRUE, user |-> u, saved |-> cr1,
                                        nss |-> nss, seg |-> 1, off |-> 0]]
          /\ load_as(u)
          /\ loaded' = [loaded EXCEPT ![u] = IF Loading(u) THEN "none" ELSE nss]
          /\ UNCHANGED halted
       \/ /\ ~Loadable(nss)
          /\ SetState(u, "CHECKSTOP")
          /\ halted' = (t = Boot)
          /\ UNCHANGED <<ipl, cr1, loaded>>
    /\ UNCHANGED <<free, tables, as, guest_pages, devices, chan, cur, alive, saved, started>>

\* A turn of one of the loops of __copy_segment.  If the storage ends before the
\* segment does, the address space of the guest stays loaded.
IplCopy(t) ==
    /\ cur = t /\ ~halted /\ ipl[t].busy /\ ipl[t].seg <= Len(Segments(t))
    /\ LET s == Segments(t)[ipl[t].seg]
           off == ipl[t].off
           end == off + BlockLen(s, off)
       IN  \/ /\ memcpy_to_guest(s.gaddr + off, Block(s, off))
              /\ ipl' = [ipl EXCEPT ![t].seg = IF end < s.memlen THEN @ ELSE @ + 1,
                                    ![t].off = IF end < s.memlen THEN end ELSE 0]
              /\ UNCHANGED <<cpu, halted, loaded>>
           \/ /\ virt2phy_current(s.gaddr + off) = FAULT
              /\ state' = [state EXCEPT ![ipl[t].user] = "CHECKSTOP"]
              /\ loaded' = [loaded EXCEPT ![ipl[t].user] = "none"]
              /\ ipl' = [ipl EXCEPT ![t] = NoIpl]
              /\ halted' = (t = Boot)
              /\ UNCHANGED <<mem, psw, zarch, regs, arch>>
    /\ shown' = Nothing
    /\ UNCHANGED <<free, tables, as, guest_pages, cr1, devices, chan, cur, alive, saved,
                   started, boot, ops>>

\* The rest: the PASCE is restored, the PSW set up (its fmt, ea and ba bits, and
\* the entry address); the mode is set to z/Architecture, and never back.
IplEnd(t) ==
    /\ cur = t /\ ~halted /\ ipl[t].busy /\ ipl[t].seg > Len(Segments(t))
    /\ load_pasce(ipl[t].saved)
    /\ LET u == ipl[t].user
           nss == Images[ipl[t].nss]
       IN  /\ psw' = [psw EXCEPT ![u] = IF nss.z THEN <<1, BA, 0, nss.entry>>
                                        ELSE <<8, BA + nss.entry, 0, 0>>]
           /\ zarch' = [zarch EXCEPT ![u] = @ \/ nss.z]
           /\ state' = [state EXCEPT ![u] = "STOPPED"]
    /\ ipl' = [ipl EXCEPT ![t] = NoIpl]
    /\ shown' = Nothing
    /\ UNCHANGED <<free, mem, tables, as, guest_pages, devices, chan, regs, arch,
                   cur, alive, saved, started, boot, halted, loaded, ops>>

-----------------------------------------------------------------------------
\* __finish_loading.

User == boot.user
Booting(step) == cur = Boot /\ ~halted /\ boot.k <= Len(Logons) /\ boot.step = step

\* guest_create: the console of the user, each device of its directory entry,
\* each page of its storage, and its virtual CPU with its task.
Create ==
    /\ Booting("create")
    /\ \E u \in Logons[boot.k] : boot' = [boot EXCEPT !.user = u, !.step = "devices"]
    /\ GetPage
    /\ UNCHANGED <<devices, chan, cpu, shown, cur, alive, saved, started, ipl, halted,
                   loaded, ops>>

HasDevices == boot.dev > Len(Directory[User].devices)
HasStorage == Len(guest_pages[User]) = Directory[User].storage

CreateDevice ==
    /\ Booting("devices") /\ ~HasDevices
    /\ alloc_guest_devices(User, boot.dev)
    /\ boot' = [boot EXCEPT !.dev = @ + 1]
    /\ UNCHANGED <<storage, chan, cpu, shown, cur, alive, saved, started, ipl, halted,
                   loaded, ops>>

CreatePage ==
    /\ Booting("devices") /\ HasDevices /\ ~HasStorage
    /\ alloc_guest_storage(User)
    /\ UNCHANGED <<devices, chan, cpu, shown, control>>

CreateTask ==
    /\ Booting("devices") /\ HasDevices /\ HasStorage
    /\ GetPage
    /\ alive' = alive \cup {User}
    /\ boot' = [boot EXCEPT !.step = "ipl"]
    /\ UNCHANGED <<devices, chan, cpu, shown, cur, saved, started, ipl, halted, loaded, ops>>

Load ==
    /\ Booting("ipl")
    /\ IplStart(Boot, User, Directory[User].nss)
    /\ boot' = [boot EXCEPT !.step = "begin"]
    /\ UNCHANGED ops

Begin ==
    /\ Booting("begin") /\ ~ipl[Boot].busy
    /\ guest_begin(User)
    /\ boot' = [boot EXCEPT !.step = "attach"]
    /\ UNCHANGED <<free, tables, as, guest_pages, cr1, devices, chan, cur, alive, saved,
                   started, ipl, halted, loaded, ops>>

\* The task ends after the last user.
Attach ==
    /\ Booting("attach")
    /\ guest_attach(User, Directory[User].console)
    /\ boot' = NoBoot(boot.k + 1)
    /\ alive' = IF boot.k = Len(Logons) THEN alive \ {Boot} ELSE alive
    /\ UNCHANGED <<storage, chan, cpu, shown, cur, saved, started, ipl, halted, loaded, ops>>

\* What makes guest_create, guest_begin or guest_attach fail ends in BUG.
Fails ==
    \/ Booting("create") /\ free = {}
    \/ Booting("devices") /\ HasDevices /\ ~HasStorage /\ StorageFails(User)
    \/ Booting("devices") /\ HasDevices /\ HasStorage /\ free = {}
    \/ Booting("begin") /\ ~ipl[Boot].busy /\ state[User] \notin {"STOPPED", "OPERATING"}
    \/ Booting("attach") /\ ~CanAttach(User, Directory[User].console)

Dies ==
    /\ Fails
    /\ halted' = TRUE
    /\ UNCHANGED <<storage, devices, chan, cpu, shown, cur, alive, saved, started, boot,
                   ipl, loaded, ops>>

-----------------------------------------------------------------------------
\* The task of a user: shell_start.

\* Mutant of ShellStart: without load_as.
ShellNoLoad(u) ==
    /\ cur = u /\ ~halted /\ u \notin started
    /\ started' = started \cup {u}
    /\ UNCHANGED <<storage, devices, chan, cpu, shown, cur, alive, saved, boot, ipl,
                   halted, loaded, ops>>

ShellStart(u) ==
    /\ cur = u /\ ~halted /\ u \notin started
    /\ load_as(u)
    /\ started' = started \cup {u}
    /\ UNCHANGED <<free, mem, tables, as, guest_pages, devices, chan, cpu, shown,
                   cur, alive, saved, boot, ipl, halted, loaded, ops>>

\* The task takes a command or runs the guest.
Free(u) == cur = u /\ ~halted /\ u \in started /\ ~chan[u].busy /\ ~ipl[u].busy

\* DISPLAY
Display(u) ==
    /\ Free(u)
    /\ \E o \in DisplayOps : cmd_display_storage(u, o.addr, o.len)
    /\ UNCHANGED <<free, tables, as, guest_pages, cr1, devices, chan, control>>

\* The commands and runs that change the guest's storage.
Alters(u) ==
    /\ \/ \E o \in StoreOps : cmd_store_storage(u, o.addr, o.word)
       \/ \E o \in StoreOps : GuestRuns(u, RoundDown(o.addr), o.word)
       \/ system_clear(u)
    /\ loaded' = [loaded EXCEPT ![u] = "none"]

\* Those that change its CPU.
Sets(u) ==
    /\ \/ \E w \in PswOps : cmd_store_psw(u, w)
       \/ \E o \in RegOps : \/ o.file = "gpr" /\ cmd_store_gpr(u, o.r, 3)
                            \/ o.file = "fpr" /\ cmd_store_fpr(u, o.r, 3)
                            \/ o.file = "ar" /\ cmd_store_ar(u, o.r, 3)
                            \/ o.file = "cr" /\ cmd_store_cr(u, o.r, 3)
       \/ cmd_store_fpcr(u, 3)
       \/ system_reset(u) \/ cmd_stop(u)
       \/ Authorised(u) /\ guest_begin(u)
    /\ UNCHANGED loaded

Command(u) ==
    /\ Free(u) /\ Counted
    /\ Alters(u) \/ Sets(u)
    /\ UNCHANGED <<free, tables, as, guest_pages, cr1, devices, chan,
                   cur, alive, saved, started, boot, ipl, halted>>

\* IPL of a saved system by its name.
cmd_ipl(u, nss) ==
    /\ Free(u) /\ Counted /\ Authorised(u)
    /\ IplStart(u, u, nss)
    /\ UNCHANGED boot

\* SSCH to a spooled device.
Ssch(u, p) ==
    /\ Free(u) /\ Counted /\ state[u] = "OPERATING"
    /\ p.type \in Field(u, "type")
    /\ StartChannel(u, p.type = "CONS", p.f, p.addr)
    /\ shown' = Nothing
    /\ UNCHANGED <<storage, devices, cpu, cur, alive, saved, started, boot, ipl, halted, loaded>>

Channel(u) ==
    /\ cur = u /\ ~halted
    /\ ExecCcw(u)
    /\ shown' = Nothing
    /\ UNCHANGED <<devices, cpu, control>>

Next ==
    \/ \E t \in Tasks : Switch(t) \/ IplCopy(t) \/ IplEnd(t)
    \/ Create \/ CreateDevice \/ CreatePage \/ CreateTask
    \/ Load \/ Begin \/ Attach \/ Dies
    \/ \E u \in Users : \/ ShellStart(u) \/ Command(u) \/ Display(u) \/ Channel(u)
                        \/ \E nss \in IplOps : cmd_ipl(u, nss)
                        \/ \E p \in Programs[u] : Ssch(u, p)

Spec == Init /\ [][Next]_vars

-----------------------------------------------------------------------------
FramesOf(u) == Range(guest_pages[u])

\* An address of a user that was created is in the frame that was obtained for
\* it up to what its segment table reaches, in none beyond, and the frames of a
\* user are in no other user's storage, are no table and are not free.  Storage above the
\* limit is obtained and cannot be addressed: it is inserted under the
\* addresses of the first pages, and these overwrite it.
PagesPrivate ==
    \A u \in Users :
        /\ u \in alive => \A i \in 0..(Len(guest_pages[u]) + NPX) :
             Translate(as[u], i * PAGE) =
                IF i < Len(guest_pages[u]) /\ i * PAGE < LIMIT
                THEN guest_pages[u][i + 1] * PAGE ELSE FAULT
        /\ \A f \in FramesOf(u) : f \notin free /\ tables[f] = NoTable
        /\ \A w \in Users \ {u} : FramesOf(u) \cap FramesOf(w) = {}

\* The storage of a user is changed by its own task, or by the task that brings
\* it up, and by nothing else, wherever the tasks are preempted: CR 1 follows
\* the task, and the PASCE that guest_ipl_nss saves is that of the task.
Isolation ==
    [][mem' # mem => \A u \in Users :
         (\E f \in FramesOf(u), i \in 0..(PAGE - 1) : mem'[f * PAGE + i] # mem[f * PAGE + i])
            => \/ cur = u
               \/ cur = Boot /\ User = u]_vars

\* The storage that each system stands for: its segments, and zero elsewhere.
Contents ==
    [nss \in DOMAIN Images |-> [addr \in 0..(LIMIT - 1) |->
        LET At(s) == {i \in DOMAIN s.data : s.gaddr + i - 1 = addr}
            Here == {s \in Range(Images[nss].segs) : At(s) # {}}
        IN  IF Here = {} THEN 0
            ELSE LET s == CHOOSE s \in Here : TRUE IN s.data[addr - s.gaddr + 1]]]

\* A system that was loaded, and that neither its user nor itself has changed,
\* is complete: every byte of its segments is there, the rest of the segments
\* and of the storage is zero, although the zeros of a segment that cross a
\* page are not copied beyond it.
LoadedSystemIntact ==
    \A u \in Users : loaded[u] # "none" /\ ~Loading(u) =>
        \A addr \in 0..(PAGE * Len(guest_pages[u]) - 1) :
            addr < LIMIT => GuestByte(u, addr) = Contents[loaded[u]][addr]
=============================================================================
