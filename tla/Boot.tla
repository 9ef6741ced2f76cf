-------------------------------- MODULE Boot --------------------------------
(***************************************************************************)
(* The bring-up of the nucleus (start in cp/nucleus/init.c) as far as it   *)
(* has linked lists: scan_devices makes the list of devices, then          *)
(* init_sched and create_task begin with the run queue, on which tasks     *)
(* work from then on.                                                      *)
(***************************************************************************)
EXTENDS DeviceScan, RunQueue

bootVars == <<scanVars, queueVars>>

BootInit == ScanInit /\ QueueInit

\* scan_devices, with nothing to schedule yet.
Scanning == ScanNext /\ UNCHANGED queueVars

\* The tasks and the timer, after the scan.
Running == pc = "done" /\ QueueNext /\ UNCHANGED scanVars

BootNext == Scanning \/ Running

BootSpec == BootInit /\ [][BootNext]_bootVars
=============================================================================
