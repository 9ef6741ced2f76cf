# TLA+ models of HVF

HVF is a small hypervisor for z/Architecture.  Its control program, CP, runs on
one processor in ESAME mode.  It has a nucleus (tasks, locks, storage, channel
I/O), drivers, two kinds of files (EDF on disk, spool files in storage), and
virtual machines that run under SIE and whose privileged instructions CP
simulates.  Two stand-alone programs come with it: the installer, which writes CP
and its files to a volume, and the loader, which reads CP from there.  This
directory models the parts of CP that have state and control
worth arguing about, model-checks them with TLC on small instances, and proves
the main safety properties with TLAPS for all instances.

Paths below are relative to `src/cp` unless they begin with `src/`.

## 1. Inventory

Concurrency in CP has three sources only: the CPU timer may preempt the task
that runs at any instruction executed with external interruptions enabled; the
I/O interrupt handler runs between any two instructions of a task; and a
channel program runs beside both.  Interrupt handlers run disabled.  CP writes
nothing that outlives it, so it has no recovery; `BUG`, `BUG_ON` and a program
check stop it.  What is persistent is the volume: the installer changes a file
system that is in use, and may be stopped between any two writes and run again.

| Component | State | Operations | Correct means |
|---|---|---|---|
| Scheduler: `nucleus/sched.c`, `ext.c`, `svc.c` | `runnable`, `processes`, `current`, `ticks`, task states and slices | tick, `schedule`, `schedule_blocked`, `create_task`, `make_runnable`, exit | a task is in exactly one place; nobody overruns a slice; nobody is lost |
| Mutexes: `include/mutex.h`, `nucleus/mutex.c`, spin locks | `lock->state`, `queue_lock`, `queue` | `mutex_lock`, `mutex_unlock`, every part of them interruptible | exclusion; no sleeper without a waker; waiters are served |
| Page allocator: `mm/buddy.c`, `mm/page.c` | free lists per order and zone (below and above 2GB) | initialisation, `alloc_pages`, `free_pages` | no page twice, none lost, zones respected, NULL only if full |
| Slab allocator: `mm/slab.c` | pages of a slab, bitmaps, use counters | `malloc`, `free` | no object twice; bitmap and counter agree |
| Channel I/O: `nucleus/io.c` | `dev->q_out`, `q_cur`, the operations on the submitters' stacks, the subchannel | `submit_io`, the I/O handler | each operation is started, ended by its own interruption, once, in order |
| Devices: `drivers/device.c` | `devices` list, device structs, enabled subchannels | `scan_devices`, `__register_device`, look-ups | the list is sound, a subchannel that interrupts has a device |
| Spool files: `fs/spool.c` | list of pages, first and last offset, counters | `alloc_spool`, `spool_append_rec`, `spool_grab_rec` | records come out whole, once, in order; no page leaks |
| Virtual CPU: `guest/*.c` | PSW, control registers, CPU state, queued interruptions | the loop of `shell_start`, SIE entry, interceptions, simulation | a status is announced; a wait ends |
| Virtual devices: `drivers/vdevice.c`, `guest/attach.c` | `virt_devs` per guest, real devices in use; scsw and pmcw per subchannel | made at logon, attach, SSCH, TSCH, MSCH, STSCH | numbers are distinct; a subchannel can be used again after its status is taken |
| Spooled devices: `drivers/spooldev*.c` | the state of a channel program, its buffer | fetch, check, execute, chain CCWs | records are the guest's data; the residual count is right |
| Guest lifecycle: `guest/init.c`, `reset.c`, `ipl.c` | guests on line, their frames and tables, CPU state | create, reset, IPL, BEGIN, STOP | storage is private; a system is loaded completely |
| Translation: `mm/dat.c` | segment and page tables; control register 1 of the host | insert, look up, copy, switch | an access reaches the guest it is for |
| Commands: `shell/*.c` | the guest's storage, registers and PSW | STORE, DISPLAY, SYSTEM, BEGIN, STOP, IPL | what is stored is shown, and what is shown is the guest's |
| EDF, block cache: `fs/edf.c`, `bcache.c`, `drivers/dasd.c` | files that were looked up, cached blocks per file | mount, lookup, read, by several tasks | the block and record that were asked for |
| Installer: `src/installer` | buffered blocks, the volume | mount, unload an archive, write back | all or nothing; no block belongs to two files |
| Loader: `src/loader` | the image of CP | find and read it | what was installed |
| Lock dependency: `nucleus/ldep.c` | a stack of held locks per task | lock, unlock | the stack is what is held |

How they interact.  Drivers and the block cache call `submit_io`, which leaves
the operation in a queue shared with the I/O interrupt handler and yields
until the handler sets `done`.  The handler finds the device in the list that
`scan_devices` fills.  Everything allocates from the slab allocator, which
allocates from the page allocator, as spool files do.  The tick handler calls
the scheduler; mutexes call it to block, and it is called to wake.  Each guest
has one task; it runs CP commands, enters SIE, simulates, executes the channel
programs of spooled devices, and queues I/O interruptions for its own guest.  All
of these reach the guest's storage through control register 1 of the host, which
the scheduler switches with the task.  The guests are created, loaded and begun
by the task of `__finish_loading`; a saved system comes through the block cache.

What is hard: preemption inside the mutex code and inside list operations;
interruptions that come before, between and after the steps of `submit_io`;
failed allocations and refused channel functions half way through a function;
sizes at page, block and zone boundaries; long sequences of guest instructions on
a subchannel that leave it busy for ever; a task that is preempted while another
guest's address space is loaded; two tasks in a block cache without a lock; and
an installation that stops half way.  `PROJECT.json` lists each such
hazard at its line, with the properties that cover it.

## 2. Modules

| Module | Contents |
|---|---|
| `Sched` | scheduler and mutexes |
| `SchedProofs` | their inductive invariant and its consequences |
| `RunQueue` | the run queue by its links, one step per store of `list_add_tail` |
| `LinkedList` | the operations of `src/include/list.h` on links |
| `PageAlloc` | abstract specification of a page allocator |
| `Buddy` | the buddy allocator |
| `Slab` | a slab with its pages |
| `AllocProofs` | proofs about both, the refinement of `PageAlloc` included |
| `OpQueue` | abstract specification of a device: a FIFO of operations |
| `IO`, `IOProofs` | `submit_io`, the handler, the subchannel; proofs with refinement |
| `DeviceScan` | the scan and the list of devices, on `LinkedList` |
| `Boot` | composes the two with links, `DeviceScan` and then `RunQueue`, in the order of `start` |
| `LinkProofs` | proofs about `RunQueue`, `DeviceScan` and `Boot` |
| `RecordFifo` | abstract specification of a spool file |
| `Spool`, `SpoolProofs` | spool files as bytes in pages; proofs with refinement |
| `VirtSys`, `VirtSysProofs` | a virtual CPU with its subchannels and interruptions; proofs |
| `GuestStorage` | frames, segment and page tables, access through control register 1 |
| `VirtDevices` | the lists of virtual devices |
| `Channel` | the execution of channel programs for spooled devices |
| `Commands` | CP commands on storage, registers and the PSW |
| `Machine` | composes the four: several guests, their tasks and the task that brings them up |
| `MachineProofs` | proofs about `Machine` and the four modules it composes |
| `Volume` | a volume with an EDF file system: blocks, places, what a directory stands for |
| `Installer` | the installer |
| `Edf` | the file system and the block cache of CP |
| `FileSys` | composes the three, with the loader: the life of a volume |
| `FileSysProofs` | proofs about what is read from a volume and what is written to it |
| `MC*` | instances for TLC |

Operators with a comment "Mutant of X" before X are X with a plausible mistake.
No specification uses them; each shows that a property notices a mistake.

### Sched

A task is represented by its state and, in the mutex code, by a label: one for
each point at which an interruption makes a difference (before and after each
acquisition and release of `queue_lock`, each test and change of `lock->state`
and of `queue`).  Only `current` takes steps.  `Tick` is the whole timer
interruption: `ticks`, the comparison with `slice_end_time` and, if the slice
is over, `__schedule`.  Outside the mutex code a task may lock a mutex with a
number higher than those it holds (the nesting of the callers), unlock, yield,
create a task and exit without mutexes.  Time is kept as `phase` (`ticks`
modulo a slice) and `left` (ticks to the end of the slice); the code compares
nothing else.

The lists are sequences; operations on them are atomic here (see `RunQueue`).
When `make_runnable` is given a task that is already on the run queue, the real
list is destroyed and what happens next is arbitrary.  The model sets `corrupt`
and stops: `Spec` describes behaviours up to that point, and
`WakesOnlySleepers` shows that it is reached.

### RunQueue

`create_task` and `make_runnable` call `list_add_tail` on `runnable` with
interruptions enabled, so a tick may find the list half linked.  Here the list is
`next` and `prev` pointers, each store of `__list_add` is a step, and the timer comes
anywhere.  `torn` records that a tick came between two of the stores, or that
`__list_add` stored to a tail that was none any more because a tick came after it was
loaded; the tick before the load, and one after it that leaves the tail as it was, do no
harm.  Until `torn` the links always represent the FIFO that `Sched` uses, and no
task is lost (`LostOnlyIfTorn`): this is what `Sched` abstracts from.  That tasks are
lost afterwards is a finding.

### Buddy and Slab

A free list is the set of blocks on it (`<<zone, order, first page>>`); the code
takes any block of a list, so the order does not matter.  Each iteration of the
search and of the splitting loop is a step, as is each order of
`__init_buddy_alloc`.  A search for a normal page beyond the last order of
`orders_low` reads past the array; the model goes to the label `fault` there
and stops.  `PageAlloc` is what callers rely on: a set of available pages, of
which allocations take a contiguous block in the right zone.

`Slab` computes the layout as `create_slab` does, from the size and alignment of
the objects, and keeps the bitmap as a set of objects.  `Write` is a caller that
stores into its object: if the layout puts bytes of the bitmap in the object,
it changes them.

### IO

One device and its subchannel.  The subchannel (external) is idle, active, has
status pending, has Device End outstanding, or is gone; status is a set of
Channel End, Device End, Unit Check and Attention.  `submit_io` is three steps
per task: the preparation of the operation with an `op_id_counter` that wraps,
the disabled section that queues and starts it, and the return after `done`.
The handler is one step.  `UnlockDevices` and `LockDevices` are tasks that walk
the device list with `devs_lock`: an I/O interruption in between hangs the
processor (`halted = "spin"`), and a handler that meets an assertion stops it
(`"bug"`).  The model stops in both.

### DeviceScan

`scan_devices` subchannel by subchannel, on the links of the list, with every
outcome of STSCH, MSCH, SENSE ID and the driver's registration.  `mute` and
`stuck` are history variables: subchannels that did not answer SENSE ID, and
ones whose enabled bit could not be reset.

### Boot

`start` (`nucleus/init.c`) scans the devices, initialises the scheduler and creates the
first task.  `Boot` does `DeviceScan`'s steps and, when the scan is over, those of
`RunQueue`.  `BootIsScanAndQueue` proves that it implements both, so that what is proved
of each holds in the composition.

### Spool

Pages are functions from offsets to symbolic bytes, so that a byte that comes
from a wrong place can be told.  Each iteration of the loops of
`spool_append_rec` and `spool_grab_rec` is a step, because the page allocator
may fail in any of them.  `f->lock` is held throughout, so the calls of several
tasks do not mix.  The history variable `fifo` has the records and where they
start; `RecordFifo` is the queue of lengths that a caller sees.

### VirtSys

A guest has one task, so that a step is one CP command, one delivery of an
interruption, one entry of SIE or one interception.  The guest's program is
external: `GuestRuns` gives it any PSW and control register 6, and it may issue
MSCH, SSCH, STSCH and TSCH for any subchannel at any time.  A channel program
ends well or with an alert, or is abandoned (device type not supported, no
storage).  Page 0 of a guest is always mapped, so `__io_int` does not fail.  At
this commit `process_cmd` reads no line; the commands are reached through
`__finish_loading`, and the model lets them come at any turn of the loop.
`orphans`, `told` and `raced` are history variables.

### GuestStorage, VirtDevices, Channel, Commands, Machine

`Machine` is about storage, where `VirtSys` is about interruptions.  Host storage
is one array of bytes, so that an address that runs past a frame reaches its
neighbour, as it does in the code; tables are functions in frames.
`alloc_guest_storage` takes a page a step, from the highest address downwards, and
`dat_insert_page` makes the tables that are missing and takes the index modulo the
table.  `__memcpy_tofrom_guest` is an operator that does what the loop does: the same
address is translated in every turn, so that data beyond the end of the page go
to its first part (`Target`).  Every access from CP goes through `cr1`.

The tasks are that of `__finish_loading` (`guest_create` as `Create`, `CreateDevice`,
`CreatePage` and `CreateTask`, then `Load`, `IplCopy`, `IplEnd`, `Begin`, `Attach`, or
`Dies` at a `BUG`) and one per guest (`ShellStart`, `Command`,
`Display`, `cmd_ipl`, `Ssch`, `Channel`).  `Switch` may come between any two steps;
it is the part of `__schedule` and `__sched` that saves and loads control
register 1, with `load_pasce`, which does not load 0.  `IplCopy` copies one
block of a system, because a task may be preempted between blocks: `ipl` has the
segment and the offset in it for each task that loads one.  A step of
`Channel` executes one CCW.  DISPLAY STORAGE walks the tables at some words only
(`Walks`); `HostAddr` is where it finds a word, counted from the walk before it.  `Commands` keeps a history `arch` of each register as
the guest and its user know it, and `shown`, the operands and output of the last
command.  `loaded` names the system a guest was loaded with and that nobody has
changed since.  `__finish_loading` brings up one user, `*LOGIN`; the model lets it
bring up several, one after the other, as the functions are written for.  At
this commit `process_cmd` reads no line, so that the commands are code without
a caller; they are modelled as the guest's task would call them.

`Channel` keeps the CCW loop of `spool_exec` step by step: both formats, TIC, the
program checks, the fetch of the data, the console's write, and chaining.  A
record in `recs` has what was appended and what the guest had at that address.
`VirtDevices` keeps the lists of devices, made from the directory at logon with
those that cannot be made left out, and what `guest_attach` adds.

### Volume, Installer, Edf, FileSys

A block is a row of cells.  A cell is a file status table entry, a pointer, a slice
of the allocation map or a unit of data, where the code has entries of 64
bytes, pointers of 4, and bytes.  `Volume` has the addresses of blocks, as the
stand-alone programs compute them with a constant geometry and `d3390_read` does
with the device's, and `Catalog`, the reference: the files with their contents
that a volume stands for.

`Installer` keeps the list of buffered blocks.  Its operators named after functions
map the list before to the list after; the program is sequential, so that it is
one action from one write on the volume to the next.  `Writeback` writes one
block.  `Halt` stops the installer between any two actions: power, an I/O error.
It may be run again (`MaxRuns`).

`Edf` splits `bcache_read` where it searches the list, allocates, appends to the
list, and waits for the device, because `guest_ipl_nss` calls it without a lock.
An allocation or a read may fail (`MaxFaults`).  `bad` marks what came from a
read whose error `d3390_read` dropped.

`FileSys` is the life of a volume: installations, then `IplDasd` (the loader
reads the nucleus), then `edf_mount` and the tasks of CP.

## 3. Runs

| Run | Distinct states | What it shows |
|---|---|---|
| `sched` | 20,415 | exclusion, no waiter left behind, every sleeper has a waker, one place per task, a queued waiter gets the mutex |
| `sched_wake` | – | violation: a runnable task is made runnable (finding) |
| `boot` | 59,918 | the list of devices during and after the scan; then, with ticks anywhere, the links of the run queue are the FIFO of `Sched` and no task is lost until a `list_add_tail` is torn |
| `boot_tick` | – | violation: a tick inside `list_add_tail` loses tasks (finding) |
| `buddy` | 62,030 | no overlap, no leak, failure only if full, refinement of `PageAlloc` |
| `slab` | 16,512 | no object twice |
| `io` | 32,688 | one home, matching interruptions, own completion, refinement of `OpQueue`, every submitter whose start was accepted returns |
| `io_check` | – | violation: a unit check is reported as success (finding) |
| `spool` | 459,842 | tiling, no page lost, refinement of `RecordFifo`, contents |
| `guest` | 901,023 | status announced, exact queue, subchannels free again, waits end |
| `machine` | 284,374 | private storage, complete systems, commands and channel programs on the guest's own storage, distinct devices |
| `fs` | 286,895 | an installation is all or nothing, no block has two owners, no pointer leads nowhere, only the writing back of buffers changes files, the loader and CP read what is on the volume |

What these properties leave to the code as it is: `FailsOnlyWhenFull` excepts a
search that ends behind the array; `SubmitterReturns` excepts submitters behind a
start that is refused; `UnsplitIntact` is about records on one page;
`FreeUnlessAbandoned` excepts a start that is abandoned, and `QueueIsExact` what
follows a TSCH or a reset that clears a status not yet announced; `StorageIsOwn` excepts a
DISPLAY whose last line crosses a page; `RecordsAreGuestData` excepts data that
cross a page, and a record whose program ends with a check; `ReadsAreFaithful`
excepts what came from a read with a dropped error; `NucleusLoads` is about a
nucleus of more than one block.  Section 6 says what happens in these cases; the
hazards in `PROJECT.json` that are these cases have a note and no property.

Bounds, and why they are enough:

- `sched`: three tasks, one mutex, `Slice = 3` (the code's 100 / 30).  Three
  tasks give an owner, a waiter and a third that locks or unlocks in between, or
  a waiter behind a waiter.  With two nested mutexes a task that spins on
  `queue_lock` in step with the ticks can be starved, under the fairness below, by
  tasks that take the other mutex; `WaiterServed` is about the queue of one
  mutex.  The proofs are about any number of tasks and mutexes.
- `boot`, the run queue: four tasks (symmetric), so that a list has a first, a middle and a last
  element beside the task that runs.  The constraint `Whole` ends the exploration at
  the first tear, behind which `LostOnlyIfTorn` says nothing; `boot_tick` has no
  constraint, and one subchannel.
- `buddy`: five pages below the line and three above, orders up to 2 and 3,
  requests of order 0 and 1.  Both zones have blocks of several orders, requests
  split blocks, fall back to the low zone, and fail.
- `slab`: objects of 512 bytes, seven to a page, a page on either side of 2GB,
  so that pages fill up and the zone decides.  Of the seven
  layouts that `init_slab` creates, all but that of the 1024-byte objects are proved
  to be sound (`OneLayoutIsUnsound`).
- `io`: two tasks (one operation under way, one queued), identifiers modulo 4
  so that they wrap, every combination of status, unsolicited status, and a
  device that goes away.
- `boot`, the scan: four subchannels: a list of up to four, with every combination of
  failures among neighbours.
- `spool`: pages of six bytes; records of 1, 2, 3, 4 and 10 bytes end before, at
  and behind a page's end, need a pad byte or not, and span up to three pages;
  at most three records in the file; buffers shorter and longer than records.
- `guest`: a console (channel programs execute) and a dedicated device (they do
  not), two interruption subclasses, five PSWs (running or waiting, enabled or
  not, and waiting for something else), at most two queued interruptions, which
  is enough for one left over from an earlier start.  SSCH is not taken when
  `MaxInts` are queued: CP would stop there when storage runs out.
- `machine`: pages of 16 bytes, two page tables of two entries, so that 64 bytes
  can be addressed.  One guest has three pages and all commands; the second has
  five, more than the tables reach, or does not fit into the 20 frames, or has no
  system that can be loaded.  The directories have devices that cannot be made (no
  such device, in use, of a type without support) between others.  The systems
  contain channel programs with chaining, TIC, TIC to TIC, both formats, a write
  that is too long, one whose data are outside storage and one that crosses a
  page; segments whose zeros cross a page; and a system that does not fit.
  `MaxOps = 2` commands, runs and channel programs, which with the IPLs is enough
  to store and run or reset in between; DISPLAY is not counted.  `MaxCcws = 4`
  bounds a program that chains for ever.
- `fs`: 20 blocks of five cells, so that a file of two blocks has a pointer block,
  the directory gets a second block and the volume fills up.  Two installations
  (`MaxRuns`), of two archives or of one twice; a volume that is new, has a file of
  someone else, is almost full or has no label.  Two tasks of CP, each with one
  lookup and read, one fault between them (`MaxFaults`).  Tasks are symmetric.

`CHECK_DEADLOCK FALSE` is set where the system really ends: a destroyed run queue,
the fault in the buddy allocator, a processor that hangs, a
`BUG` of `__finish_loading` or the bounds of `machine`, and a volume that nobody reads
any more.

## 4. Fairness

- `Sched`: weak fairness of `Tick`, because the CPU timer keeps running; strong
  fairness of each task's step in the mutex code and of each unlock.  A task
  is enabled only while it is `current`, and preemption disables it again and
  again, so weak fairness would say nothing; over a slice of 30 ms it executes
  many instructions, so it does get steps in.  That owners unlock is a duty of
  the callers, who all do.
- `IO`: weak fairness of the device ending what it was told to do, of the
  interruption, of each task's steps in `submit_io` (it yields in a loop and is
  scheduled round-robin), and of `UnlockDevices`.  A start that is refused is not repeated, so that
  `SubmitterReturns` excepts submitters behind one.
- `VirtSys`: weak fairness of the guest's task taking a turn and of an
  interception: SIE ends with the next host interruption at the latest.  No
  fairness of commands or of any instruction of the guest.

## 5. Proofs

| Theorem (module) | Statement |
|---|---|
| `Invariance`, `TypeCorrect`, `Exclusion`, `NobodyLeftBehind`, `SleepersAccountedFor`, `EveryTaskInOnePlace`, `SlicesAreBounded` (`SchedProofs`) | `Spec => []P` for `IndInv`, `TypeOK`, `MutualExclusion`, `NoWaiterLeftBehind`, `SleeperAccountedFor`, `OnePlace`, `SliceBound` |
| `Invariance`, `TypeCorrect`, `BlocksAreApart`, `NothingIsLost`, `ZonesAreKept`, `OrdersStayInBounds`, `FailureMeansFull`, `SmallestFit`, `Refinement` (`AllocProofs`) | the same for `Buddy` with `ZonesKept` and `OrdersInBounds`, two action properties (`SmallestBlockSplit` is one), and `Spec => Abstract!Spec` |
| `Invariance`, `TypeCorrect`, `EveryOperationHasOneHome`, `InterruptsAreMatched`, `NothingIsLeftIdle`, `CompletionsAreOwn`, `Refinement` (`IOProofs`) | the same for `IO`, an action property, and the refinement of `OpQueue` |
| `NoObjectShared`, `BooksAreExact` (`AllocProofs`) | `LayoutOK => (SlabSpec => []P)` |
| `OneLayoutIsUnsound` (`AllocProofs`) | `UnsoundLayouts`, for the sizes of a page and of a header in the code: of the seven slabs, the one of 1024-byte objects has no sound layout |
| `Invariance`, `TypeCorrect`, `RecordsAreTiled`, `PagesAreAccountedFor`, `UnsplitRecordsIntact`, `Refinement` (`SpoolProofs`) | `Spec => []P` for `IndInv`, `TypeOK`, `Tiled`, `NoPageLost`; `Spec => UnsplitIntact`; and the refinement of `RecordFifo` |
| `ScanInvariance`, `DevicesAreFound`, `ScannedDevicesAreUsable`, `DeviceListIsSound` (`LinkProofs`) | `ScanSpec => []P` for `ScanInv` and every invariant of `DeviceScan` |
| `BootIsScanAndQueue` (`LinkProofs`) | `BootSpec => ScanSpec /\ QueueSpec` |
| `QueueInvariance`, `TasksAreLostByTearsOnly` (`LinkProofs`) | `QueueSpec => [](torn \/ QueueInv)` and `QueueSpec => []LostOnlyIfTorn` |
| `Invariance`, `TypeCorrect`, `StatusesAreAnnounced`, `SubchannelsGetFree`, `QueuesAreExact` (`VirtSysProofs`) | `Spec => []P` for `IndInv`, `TypeOK`, `StatusAnnounced`, `FreeUnlessAbandoned`, `QueueIsExact` |
| `Invariance`, `StorageIsPrivate`, `MachinesAreIsolated`, `RegistersAreShown`, `DevicesAreTold`, `RecordsAreTheGuests`, `ResidualsAreExact`, `StorageIsReached`, `SystemsArriveWhole` (`MachineProofs`) | `Spec => []P` for `IndInv` and every invariant of the run `machine`, and `Spec => Isolation` |
| `FileSystemInvariant`, `ReadsAreRight`, `NucleusIsRight` (`FileSysProofs`) | `Spec => []FsInv`, and `Spec => [](VolumeSound(disk) => P)` for `ReadsAreFaithful` and `NucleusLoads` |
| `OnlyWritebackChangesFiles` (`FileSysProofs`) | `Spec => CatalogKept` |

The inductive invariants, and the properties `SliceBound`, `ZonesKept`,
`SmallestBlockSplit`, `NothingIdles`, `BookkeepingExact`, `OrdersInBounds` and `UnsoundLayouts`, are
proved and are in no run.

Assumptions are the named `ASSUME`s of the component modules: `Idle`, `NULL` and
tasks differ, mutexes are positive numbers, a slice is positive; the parameters
of storage are ordered; in `Buddy`, `SizeAssumption` states of 2^k that it starts at 1 and
doubles (a true fact about exponentiation, which the provers do not know; TLC
evaluates it on the instance); in `Slab`, the theorems assume `LayoutOK`, that the
layout is sound, which `OneLayoutIsUnsound` shows for six of the seven slabs of the
code.  In `Machine` a page is a multiple of 8
bytes, tables have entries, every user has storage, nobody is logged on twice, and
the segments of a saved system have a length, hold no more data than that and do not
overlap; addresses, lengths, words and channel programs are any.  In `Spool` a page
of data has an even number of bytes, and the lengths of records and buffers are any.
In `RunQueue` and `DeviceScan` the tasks or structs, the head of the list, `NULL` and
the poison differ; `Boot` extends both, whose specifications therefore have
names of their own (`QueueSpec`, `ScanSpec`); so has `Slab` (`SlabSpec`), because
`AllocProofs` extends it beside `Buddy`.  In `Edf` no task is called "none", the mark of
a free lock, and nobody asks for the directory or the allocation map, whose names
are not printable; the size of a block, the volume's contents, the files and their
levels, the tasks and the number of failures are any.

`ReadsAreRight` and `NucleusIsRight` speak of a sound volume: the label leads to the
directory, the pointers of every file lead to blocks at every level, a file has as
many blocks as its records need, and no entry is past the end of the directory.  That
this is what the installer leaves, wherever it is stopped, is the second conjunct of
`BlocksOwned`, for a directory of one block; the loader accepts no other, so
that whenever CP runs the volume is sound.  TLC checks it, for the reason below.
`CatalogKept` is about volumes with a label on which no file is in a boot block
(`FilesClear`), which `BlocksOwned` says of all of them.

The arguments.

- *Sched.*  `IndInv` = `TypeOK`, `ListInv`, `LabelInv`, `QueueInv`, `StateInv`,
  `WakeInv`, `SliceBound`.  Exclusion is not inductive: a mutex is handed from
  its owner to a waiter that sleeps, so ownership (`Owns`) includes tasks that
  were dequeued and have not returned; that they are the only ones needs
  `QueueInv` (who is on a queue waits for that mutex, once).  That nobody is left
  behind needs the state between a test and the change that relies on it
  (`add`: the mutex is taken; `inc`: the queue is empty), which holds
  because `queue_lock` is held (`LabelInv`).  `SleeperAccountedFor` needs
  `WakeInv`: a task that was handed a mutex and is blocked, or is about to block,
  has exactly one waker.  One lemma per action shows that it keeps `IndInv`.
- *Buddy.*  `NoOverlap`, `NoLeak` and `ZonesKept` include the block in hand
  during a split.  `InitInv` says that the blocks made so far are below `base` and
  that `rest` blocks of the order reach the end; `SearchInv` that the orders
  passed are empty; `ChipInv` that the block in hand is large enough.  The
  refinement maps pages in no allocated block to `avail`; the return of
  `alloc_pages` is the abstract allocation and everything else stutters.
- *IO.*  The queues, the submitters' states and the subchannel are three views of
  one operation; `OneHome` and `InterruptsMatch` say that they agree.
  `FreshInv` (a new operation is not done) and `StatusInv` (status is there
  exactly while it is pending) are needed for `submit_io` and for the handler.
  The abstract queue is `q_cur` followed by `q_out`.
- *Slab.*  With a sound layout no bit of the bitmap is inside an object
  (`NoBitsInside`), so `Write` changes nothing, and a clear bit means a free
  object.

- *Spool.*  `Tiled` speaks of the time between two calls.  `IndInv` has it at every
  step: `Places` says that the records, with the one that is being read, follow one
  another, that each byte of those is stored where its position says (`Stored`), and
  that the last record reaches into the last page.  `Grabbing` relates what was read
  to the offset in the first page, which goes while the record is read; then all
  positions move down by a page, a header that is now in front of the file included.
  `Appending` has what was written so far: in the last page and in new pages, all full
  but the last, so that giving up leaves the records alone and the pages can be
  handed over.  The refinement maps the records to their lengths.
- *Walks.*  What `RunQueue` and `DeviceScan` say of lists is what a walk along the
  links visits, which is defined by recursion.  The lemmas about walks
  (`WalkExists`, `WalkFollows`) are by induction on the number of steps; as the
  provers cannot use the induction theorems, the least number for which a lemma
  would fail is shown not to exist (`LeastNumber`, from a theorem about well-founded
  relations).
- *DeviceScan.*  Structs are used in the order of their allocation, each until a
  device answers, so the n-th device that answers has the n-th struct (`StructInv`),
  and the links lead from each struct to the next (`LinkInv`).  A struct that is
  listed again after a SENSE ID without answer is the last one, and then leads to
  itself; `list_del` and `list_add_tail` of it when the next device answers change
  nothing (`RelistingKeepsLinks`).  So look-ups find the devices before it.
- *RunQueue.*  `QueueInv` holds until `torn`, with any number of tasks preempted
  inside the function; each task that exists runs, waits, is queued or is being added
  by one task (`PlaceInv`).  From the head
  through the tasks and back the chain is never broken, not even between the stores
  of `list_add_tail`, which connect the new task last.
  What may be out of step is the head's link to the last task; `QueueLinkInv` says
  where each link is after each store.  A task that was preempted before its first
  store goes on with the tail it loaded; if that is not the tail any more, its store
  is a tear, else it is as if it had just loaded it.
- *VirtSys.*  `QueueIsExact` counts entries; `EntryInv` says the same of single
  entries (each is for a status not announced, and no other entry is), which each
  action keeps or breaks at one entry.  `LengthInv` bounds each queue.
- *Machine.*  `IndInv` has four parts.  `StorageInv`: every table and every page is in
  a frame of its own (`TablesInv`, `FramesInv`), and the tables say exactly what was
  obtained (`MappingInv`): a page that they reach is found in its frame, and there is
  no entry for anything else.  It is kept by `dat_insert_page` because pages come from
  the highest address downwards: an entry that is overwritten, the index having
  wrapped, belongs to a page above the limit.  `BootInv`: how far each user is.
  `CrInv`: control register 1, as each task finds it when it runs, is that of the user
  whose storage the task is to reach: its own once it has started, and that of the
  user it loads a system for; the PASCE that `guest_ipl_nss` saved is the
  task's.  `StorageIsPrivate` follows through the translation of a whole storage
  (`TranslateOwn`), and `MachinesAreIsolated` because every write goes through tables
  (`WhoWrites`) whose user is the task's.  The other theorems have invariants of their own
  on top of `IndInv`:
  `CpuInv` (registers, the mode and the words of the PSW), `DevInv` (numbers are
  distinct, and a dedicated device is marked as in use), `ChanInv` (the records and
  the residual count so far), `ShownInv` (the user of what was shown is alive, so that its
  pages stay), and `LoadInv`: at most one task loads a system that nobody has touched, and
  the storage is what the blocks copied so far make it (`Holds`).
  `StorageIsReached` needs that a word does not cross a page and that there is no
  page boundary between a walk and the words counted from it (`WordShown`).
  `SystemsArriveWhole` needs that segments do not overlap, and that the block of
  zeros that wraps in its page covers nobody's data (`NoHolder`, `BlockCopied`).

- *Edf and the loader.*  `FsInv` says what the cache is, which no property does: every
  cached block of a file is marked with a level and a number that the file has
  (`InFile`), with the place where the volume has that block, and holds it, or
  nothing yet, or junk if a status was dropped (`EntryOK`).  It says the same of a task in
  `bcache_read`: the blocks it still wants follow those it has, the frames are
  the way from the block it wants up to the level it has reached (`FramesOK`), and what
  it has found is the block of its last frame (`FoundOK`).  Two tasks may search, append and
  read at once: entries are added (`Grown`) and filled, never taken away or
  renumbered, so that what a task knows of a cache stays true (`TaskKept`).  A lookup owns
  the last of the files, with `fslock`; the others only see files of the
  directory (`Known`).  The blocks of a file are defined by recursion over its
  levels; `CountIsCount` and `LevelsAreLevels` show that the recursive functions exist,
  and what follows from one level to the next is shown by a least counterexample, as
  for walks.
- *Installer.*  A write changes the catalog only if a file or the directory is in the
  block (`CatalogSame`, by `SameLba` from the top level down); and the writes are
  those of boot blocks while the archive is unloaded, and of `writeback_buffers`
  (`WhatIsWritten`).  So every file is as it was until the installer writes back, and
  then until the first write to one of the directory's own blocks, if the blocks it took
  were free.

Checked by TLC only: liveness (fairness and ENABLED are beyond the prover);
and `CrashSafe` and `BlocksOwned`.  They say what `append_record` and
`__get_free_block` make of the list of buffers over a whole archive: folds over cells,
levels, records and members, with operators as parameters, about which nothing can be
proved by induction here.

## 6. Findings

1. `sched_wake`: `__mutex_lock_slow` releases `queue_lock` (`nucleus/mutex.c:22`)
   before `schedule_blocked`.  Preempted in between, the task is on the run
   queue and on the mutex queue; an unlock then links its `run_queue` node a
   second time.
2. `io_check`: an operation that ends with Unit Check and Device End is reported
   as successful (`nucleus/io.c:126-134`).
3. `boot_tick`: `create_task` and `make_runnable` call `list_add_tail` with
   interruptions enabled (`nucleus/sched.c:125`, `:317`); a tick between its stores
   hides tasks from the scheduler for ever.

What else the models show, or what was met in reading:

- `Slab` with `objsize = 1024` violates `NoDoubleUse`: `(count + 4) / 8` is 0, and
  the bitmap lies in the first object (`mm/slab.c:98`); `OneLayoutIsUnsound` proves that
  it is the only such slab.  With `LowPages = Pages`
  each `ZONE_NORMAL` request takes a new page.
- `IO`: a start refused because of pending status is not tried again
  (`nucleus/io.c:58`), and the submitter waits for ever.
- `Buddy` reaches `fault`: short of storage, the search for a normal page falls back to
  `orders_low` at orders it does not have (`mm/buddy.c:100`), also when there is a larger
  block above 2GB that it has not come to.  `OrdersStayInBounds` proves that it takes a
  request above 2GB that no block below and no smaller block above satisfies.
- `IO` reaches `halted = "spin"`: the handler takes `devs_lock`
  (`drivers/device.c:119`), which tasks hold with interruptions enabled.
- `Spool`: a record continued on a new page is copied from the wrong place
  (`fs/spool.c:230`).
- `DeviceScan`: the struct of a device that does not answer SENSE ID is used again
  or freed while it is listed (`drivers/device.c:320`); the subchannel is enabled
  before its device is listed (`drivers/device.c:307`).
- `VirtSys`: TSCH and reset leave the interruption of a status they clear in the
  queue (`guest/instruction_priv.c:391`, where a FIXME says so, and
  `guest/reset.c:170`); a start function that is abandoned stays indicated until a
  reset.
- `GuestStorage`: `__memcpy_tofrom_guest` does not advance the guest's address
  (`mm/dat.c:152`), although the comment above it (line 139) says that it "pays
  attention to page boundary crossing".
- `GuestStorage`: `dat_insert_page` with more than 2GB inserts pages under addresses
  that are taken; it works because the pages of the first 2GB come last.
- `Channel`: chaining skips every other CCW (`drivers/spooldev.c:219`); a record is
  appended although its data could not be fetched (line 43).
- `Commands`: the last line of DISPLAY STORAGE, if it crosses a page, goes on with
  the next frame of the host (`shell/cmd_display.c:141`).  `run_guest` never loads
  floating point registers, and general registers 14 and 15 of a guest are not
  those that STORE and DISPLAY know.
- `Machine`: `guest_ipl_nss` leaves the guest's address space loaded when a segment
  does not fit (`guest/ipl.c`), and never takes a guest back from z/Architecture
  mode.  `guest_create` relies on `malloc` for a `sys->as` that is zero.
- `VirtDevices`: a dedicated device that is in use keeps the reference taken for
  it.
- `Edf`: `d3390_read` drops the error of its operation (`drivers/dasd.c:183`): junk is
  cached as a good block.  `edf_read_rec` refuses files with pointer blocks.
- `Installer`: when it starts to write back, a comment says "currently, we haven't
  written anything to disk" (`src/installer/loader_c.c:340`), but the two boot
  blocks were written when the archive was unloaded.  A directory that grows into
  a block that was used before takes what it finds there for entries.  A
  directory with pointer blocks cannot be appended to, and at 1024 blocks the
  pointer of a new block is looked for in front of its buffer.
- `Edf`: `edf_lookup` looks at every slot of the directory's blocks (`fs/edf.c`), also
  past its end.  A crash between the writes of two directory blocks leaves entries
  there; the loader does not start CP from such a volume, whose directory has a
  pointer block.
- `FileSys`: the loader compares the size of the directory with its limit of 3MB,
  not that of the nucleus (`src/loader/loader_c.c:193`), and it reads a nucleus of one block as if that were a pointer block
  (`src/loader/loader_c.c:196-197`); the comment there says that it assumes one level.
- The test that forces the idle task (`nucleus/sched.c:231`) holds only for a task
  that yields in the tick in which it was dispatched.

## 7. Not modelled

Saved systems and build tools, which are other programs; formatting, tables and
parsers (`vsprintf`, the disassembler, DISPLAY of instructions and control
blocks, QUERY, the grammars of the configuration and the directory); assembler
entry code; the lock dependency checker, on which nothing depends; and the 3270
console, which is not compiled.  Of the loader, the ELF segments it copies.
`PROJECT.json` gives the reason for each.  The scheduler is not composed with the
allocators (the error path of `create_task`), nor the drivers with the page
allocator (31-bit addresses of stacks).  `Machine` and `VirtSys` are two views of
a guest that share no variable but the CPU's state: one has its storage, the other
its interruptions.

## 8. Plan

The model is complete along the plan it was begun with.  What would be left is a
proof of `BlocksOwned` and `CrashSafe`: that the installer takes free blocks only, and
leaves a sound volume.  The functions that do so would have to be written with
recursive functions in place of folds; with `OnlyWritebackChangesFiles`, the
order of `writeback_buffers` would then give `CrashSafe`.
