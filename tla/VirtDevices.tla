---------------------------- MODULE VirtDevices ----------------------------
(***************************************************************************)
(* The virtual devices of the virtual machines: those of the directory     *)
(* entry, which alloc_guest_devices makes at logon, and those added by     *)
(* guest_attach (cp/guest/attach.c, cp/drivers/vdevice.c).  Subchannel     *)
(* numbers are counted from 0 (0x10000).  virt_devs_lock is held           *)
(* throughout, and making a device is a step; an entry is linked to the    *)
(* list last, and the guest's task, which walks the list without the lock, *)
(* sees the list before or after it.                                       *)
(***************************************************************************)
EXTENDS GuestStorage

CONSTANTS
    RealDevs,   \* the numbers of the real devices
    MaxDev      \* the device and subchannel numbers are 0..MaxDev (0xffff)

\* The device numbers of a directory entry are distinct.
ASSUME DeviceAssumption ==
    /\ MaxDev \in Nat
    /\ \A u \in Users :
         /\ Directory[u].devices \in Seq([type : STRING, vdev : 0..MaxDev, rdev : Nat])
         /\ Len(Directory[u].devices) <= MaxDev + 1
         /\ \A i, j \in DOMAIN Directory[u].devices :
              Directory[u].devices[i].vdev = Directory[u].devices[j].vdev => i = j

VARIABLES
    virt_devs,  \* sys->virt_devs
    in_use      \* the real devices with in_use set

devices == <<virt_devs, in_use>>
DevicesInit == virt_devs = [u \in Users |-> <<>>] /\ in_use = {}

\* The outcomes of __setup_vdev_ded other than 0: ENODEV and EBUSY.  (EBUSY
\* keeps the reference to the device that find_device_by_ccuu obtained.)
CannotDedicate(rdev) == rdev \notin RealDevs \/ rdev \in in_use

Refuses(dir) ==
    dir.type \in {"LINK", "INVAL"} \/ (dir.type = "DED" /\ CannotDedicate(dir.rdev))

alloc_virt_dev(u, dir, sch) ==
    \/ Refuses(dir) /\ UNCHANGED devices
    \/ /\ ~Refuses(dir)
       /\ virt_devs' = [virt_devs EXCEPT ![u] = Append(@,
                [sch |-> sch, dev_num |-> dir.vdev, type |-> dir.type, rdev |-> dir.rdev])]
       /\ in_use' = IF dir.type = "DED" THEN in_use \cup {dir.rdev} ELSE in_use

\* A turn of alloc_guest_devices, for the nth device of the directory entry.  A
\* device that cannot be made leaves its subchannel number unused.
alloc_guest_devices(u, n) == alloc_virt_dev(u, Directory[u].devices[n], n - 1)

\* The least number that no device of the list has; MaxDev + 1 if there is none.
FirstFree(taken) ==
    CHOOSE n \in 0..(MaxDev + 1) : n \notin taken /\ \A k \in 0..(n - 1) : k \in taken

Field(u, f) == {virt_devs[u][i][f] : i \in DOMAIN virt_devs[u]}

\* Mutant of FreeSch: the number of devices.
SchByCount(u) == Len(virt_devs[u])

FreeDev(u) == FirstFree(Field(u, "dev_num"))
FreeSch(u) == FirstFree(Field(u, "sch"))

\* What guest_attach(sys, rdev, -1) needs to succeed.
CanAttach(u, rdev) ==
    /\ FreeDev(u) <= MaxDev /\ FreeSch(u) <= MaxDev
    /\ ~CannotDedicate(rdev)

guest_attach(u, rdev) ==
    /\ CanAttach(u, rdev)
    /\ alloc_virt_dev(u, [type |-> "DED", vdev |-> FreeDev(u), rdev |-> rdev], FreeSch(u))

-----------------------------------------------------------------------------
\* SSCH finds one device by its subchannel number, a real device answers to one
\* virtual device, of one user, and the numbers guest_attach picks are those of
\* no other device, although devices that could not be made left gaps.
DevicesDistinct ==
    \A u, w \in Users : \A i \in DOMAIN virt_devs[u], j \in DOMAIN virt_devs[w] :
        <<u, i>> # <<w, j>> =>
            LET x == virt_devs[u][i]
                y == virt_devs[w][j]
            IN  /\ u = w => x.sch # y.sch /\ x.dev_num # y.dev_num
                /\ x.type = "DED" /\ y.type = "DED" => x.rdev # y.rdev
=============================================================================
