---------------------------- MODULE DeviceScan ----------------------------
(***************************************************************************)
(* The search for devices when CP starts (scan_devices in                  *)
(* cp/drivers/device.c) and the list of devices it leaves behind.          *)
(*                                                                         *)
(* scan_devices runs alone, but enabled for I/O interruptions: the handler *)
(* looks an interrupting subchannel up in the list in any state of this    *)
(* module.  The list is modelled by its links (LinkedList), because the    *)
(* code adds and removes the same node more than once.                     *)
(*                                                                         *)
(* What the subchannels answer, and whether a driver accepts the device,   *)
(* is any outcome.                                                         *)
(***************************************************************************)
EXTENDS Integers, Sequences, FiniteSets, LinkedList

CONSTANT N          \* the number of subchannels

ASSUME NAssumption ==
    /\ N \in Nat /\ NULL \notin 0..N /\ Poison \notin 0..N
    /\ NULL \notin {"fake", "driver"}

Devs == 1..N        \* the device structs, in the order of their allocation
Head0 == 0          \* the head of devices

VARIABLES
    sch,        \* the subchannel under scan
    pc,         \* where scan_devices is: next, fake, sense, real, disable, done
    dev,        \* the device struct in hand, or NULL
    alloc,      \* the number of device structs allocated
    freed,      \* the device structs that were freed
    devices,    \* the links of the list
    devsch,     \* dev->sch
    type,       \* dev->dev: NULL, fake or driver
    enabled,    \* the subchannels that may interrupt
    answered,   \* history: the device structs of the subchannels that were sensed
    mute,       \* history: the subchannels whose SENSE ID failed
    stuck       \* history: the subchannels that could not be disabled again

scan == <<sch, pc, dev>>
scanVars == <<sch, pc, dev, alloc, freed, devices, devsch, type, enabled, answered,
          mute, stuck>>
faults == <<mute, stuck>>

ScanInit ==
    /\ sch = 1 /\ pc = "next" /\ dev = NULL
    /\ alloc = 0 /\ freed = {}
    /\ devices = [next |-> [n \in 0..N |-> IF n = Head0 THEN Head0 ELSE Poison],
                  prev |-> [n \in 0..N |-> IF n = Head0 THEN Head0 ELSE Poison]]
    /\ devsch = [d \in Devs |-> 0]
    /\ type = [d \in Devs |-> NULL]
    /\ enabled = {} /\ answered = <<>> /\ mute = {} /\ stuck = {}

-----------------------------------------------------------------------------
\* store_sch says that there is no device.
NoDevice ==
    /\ pc = "next" /\ sch <= N
    /\ sch' = sch + 1
    /\ UNCHANGED <<pc, dev, alloc, freed, devices, devsch, type, enabled, answered,
                   faults>>

\* A device struct, unless the one of an earlier subchannel is at hand.
AllocDevice ==
    IF dev = NULL
    THEN /\ dev' = alloc + 1 /\ alloc' = alloc + 1
         /\ type' = [type EXCEPT ![alloc + 1] = "fake"]
    ELSE UNCHANGED <<dev, alloc, type>>

\* modify_sch refuses to enable the subchannel.
NotEnabled ==
    /\ pc = "next" /\ sch <= N
    /\ AllocDevice
    /\ sch' = sch + 1
    /\ UNCHANGED <<pc, freed, devices, devsch, enabled, answered, faults>>

Enable ==
    /\ pc = "next" /\ sch <= N
    /\ AllocDevice
    /\ enabled' = enabled \cup {sch}
    /\ devsch' = [devsch EXCEPT ![dev'] = sch]
    /\ pc' = "fake"
    /\ UNCHANGED <<sch, freed, devices, answered, faults>>

\* The first __register_device, for submit_io's sake.  The device has type 0,
\* which is the type of __fake_dev_type.
RegisterFake ==
    /\ pc = "fake"
    /\ type' = [type EXCEPT ![dev] = "fake"]
    /\ devices' = ListAddTail(devices, dev, Head0)
    /\ pc' = "sense"
    /\ UNCHANGED <<sch, dev, alloc, freed, devsch, enabled, answered, faults>>

\* do_sense_id fails: the next subchannel is tried with the same struct.
SenseIdFails ==
    /\ pc = "sense"
    /\ sch' = sch + 1 /\ pc' = "next"
    /\ mute' = mute \cup {sch}
    /\ UNCHANGED <<dev, alloc, freed, devices, devsch, type, enabled, answered, stuck>>

\* do_sense_id succeeds, and __register_device looks for a driver, whose reg
\* may do I/O.
SenseId ==
    /\ pc = "sense"
    /\ \E t \in {NULL, "driver"} : type' = [type EXCEPT ![dev] = t]
    /\ answered' = Append(answered, dev)
    /\ pc' = "real"
    /\ UNCHANGED <<sch, dev, alloc, freed, devices, devsch, enabled, faults>>

\* The rest of the second __register_device, with the list updated as in
\* relisted.  Without a driver, or if the driver refuses, dev->dev is NULL.
Relist(relisted) ==
    /\ pc = "real"
    /\ devices' = relisted
    /\ \/ /\ type[dev] # NULL
          /\ dev' = NULL /\ sch' = sch + 1 /\ pc' = "next"
          /\ UNCHANGED type
       \/ /\ type' = [type EXCEPT ![dev] = NULL]
          /\ pc' = "disable"
          /\ UNCHANGED <<dev, sch>>
    /\ UNCHANGED <<alloc, freed, devsch, enabled, answered, faults>>

\* Mutant of RegisterReal: the fake entry is not removed.
RegisterRealTwice == Relist(ListAddTail(devices, dev, Head0))

\* Mutant of RegisterReal: the device is removed and not added.
RegisterRealUnlisted == Relist(ListDel(devices, dev))

RegisterReal == Relist(ListAddTail(ListDel(devices, dev), dev, Head0))

\* Mutant of Disable: the enabled bit is not reset.
DisableForgotten ==
    /\ pc = "disable"
    /\ dev' = NULL /\ sch' = sch + 1 /\ pc' = "next"
    /\ UNCHANGED <<alloc, freed, devices, devsch, type, enabled, answered, faults>>

\* The registration failed: reset the enabled bit.
Disable ==
    /\ pc = "disable"
    /\ \/ enabled' = enabled \ {sch} /\ UNCHANGED stuck
       \/ stuck' = stuck \cup {sch} /\ UNCHANGED enabled
    /\ dev' = NULL /\ sch' = sch + 1 /\ pc' = "next"
    /\ UNCHANGED <<alloc, freed, devices, devsch, type, answered, mute>>

\* The scan ends: free a struct that was not used.
Finish ==
    /\ pc = "next" /\ sch = N + 1
    /\ pc' = "done"
    /\ freed' = IF dev = NULL THEN freed ELSE freed \cup {dev}
    /\ UNCHANGED <<sch, dev, alloc, devices, devsch, type, enabled, answered, faults>>

ScanNext == NoDevice \/ NotEnabled \/ Enable \/ RegisterFake \/ SenseIdFails
            \/ SenseId \/ RegisterReal \/ Disable \/ Finish

ScanSpec == ScanInit /\ [][ScanNext]_scanVars

-----------------------------------------------------------------------------
\* What find_device_by_sch finds: a device struct, NULL if it gets back to the
\* head, or Poison if it never does.
Found(s) ==
    LET walk == Walk(devices, Head0, N + 1)
        hits == {i \in 1..(N + 1) : walk[i] # Poison
                    /\ (walk[i] = Head0 \/ devsch[walk[i]] = s)}
    IN  IF hits = {} THEN Poison
        ELSE LET i == CHOOSE i \in hits : \A j \in hits : i <= j
             IN  IF walk[i] = Head0 THEN NULL ELSE walk[i]


\* As long as every SENSE ID is answered, the list that __register_device keeps
\* holds the devices that were sensed, in the order of their subchannels, each
\* once and linked both ways, and while a device is being identified that one
\* as well.
ListIsSound ==
    LET q == IF pc = "sense" THEN Append(answered, dev) ELSE answered
    IN  mute = {} => IsList(devices, Head0, q, Len(q))

\* After the scan every subchannel that may interrupt has a device with a
\* driver, unless SENSE ID or the resetting of its enabled bit failed, and no
\* device that was sensed is left with the fake type.
ScannedIsUsable ==
    pc = "done" =>
        /\ \A s \in enabled \ (mute \cup stuck) :
               Found(s) \in Devs /\ type[Found(s)] = "driver"
        /\ \A i \in 1..Len(answered) : type[answered[i]] # "fake"

\* Whatever fails, a walk from the head (find_device_by_sch) finds every device
\* that was sensed by its subchannel, and no other device in its place.
OwnSubchannel ==
    \A i \in 1..Len(answered) : Found(devsch[answered[i]]) = answered[i]
=============================================================================
