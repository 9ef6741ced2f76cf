---------------------------- MODULE MCMachine ----------------------------
\* Machine on a small instance for TLC: pages of 16 bytes, tables that reach 64
\* bytes.
EXTENDS Machine

MCUsers == {"login", "wide", "big", "late"}

Dir(type, vdev, rdev) == [type |-> type, vdev |-> vdev, rdev |-> rdev]

\* login: three pages, a device that does not exist, all commands.
\* wide: more storage than the tables reach, a device that is in use, no command.
\* big: does not fit.  late: has no system that can be loaded.
MCDirectory ==
    [login |-> [storage |-> 3, auth |-> {"G"}, nss |-> "esa", console |-> 9,
                devices |-> <<Dir("CONS", 0, 0), Dir("DED", 3, 7), Dir("SPOOL", 2, 0)>>],
     wide  |-> [storage |-> 5, auth |-> {}, nss |-> "z", console |-> 8,
                devices |-> <<Dir("DED", 1, 9), Dir("LINK", 4, 0), Dir("CONS", 5, 0),
                              Dir("MDISK", 6, 0)>>],
     big   |-> [storage |-> 20, auth |-> {}, nss |-> "z", console |-> 8, devices |-> <<>>],
     late  |-> [storage |-> 1, auth |-> {}, nss |-> "bad", console |-> 8, devices |-> <<>>]]

MCLogons == <<{"login"}, {"wide", "big", "late"}>>

Seg(gaddr, data, memlen) == [gaddr |-> gaddr, data |-> data, memlen |-> memlen]
System(valid, z, entry, segs) == [valid |-> valid, z |-> z, entry |-> entry, segs |-> segs]

\* esa: a WRITE that chains to the one at 16, a TIC to it, and a WRITE that is
\* longer than a record; a segment whose zeros cross a page.
\* z: data beyond what can be addressed, a format-0 WRITE, a WRITE that chains to
\* no bytes, TICs to TICs, and a data address with bit 0 set.
MCImages ==
    [esa  |-> System(TRUE, FALSE, 4,
                <<Seg(0, <<1, 64, 0, 4,  0, 0, 0, 25,
                           8, 0, 0, 0,   0, 0, 0, 16,
                           1, 0, 0, 7,   0, 0, 0, 24>>, 24),
                  Seg(25, <<101, 102, 103, 104, 105>>, 12)>>),
     z    |-> System(TRUE, TRUE, 6,
                <<Seg(0, <<1, 64, 0, 4,  0, 0, 0, 70,
                           1, 0, 0, 33,  64, 0, 0, 4,
                           8, 0, 0, 0,   0, 0, 0, 24,
                           8, 0, 0, 0,   0, 0, 0, 40,
                           201, 202, 203, 204, 205, 206, 207, 208,
                           1, 0, 0, 4,   128, 0, 0, 4>>, 48)>>),
     bad  |-> System(FALSE, FALSE, 0, <<>>),
     tiny |-> System(TRUE, TRUE, 2, <<Seg(16, <<9>>, 1)>>),
     long |-> System(TRUE, FALSE, 0, <<Seg(40, <<1, 2, 3, 4>>, 24)>>)]

MCStoreOps ==
    {[addr |-> 18, word |-> <<0, 7, 8, 9>>]}
MCDisplayOps ==
    {[addr |-> 22, len |-> 57]}
MCPswOps == {<<5>>, <<5, 6, 7>>}
MCRegOps == {[file |-> f, r |-> 13] : f \in {"gpr", "fpr", "ar"}}
                \cup {[file |-> "cr", r |-> 14]}
Program(type, f, addr) == [type |-> type, f |-> f, addr |-> addr]
MCPrograms ==
    [login |-> {Program("CONS", 1, 0), Program("CONS", 1, 8), Program("CONS", 1, 4),
                Program("SPOOL", 0, 0)},
     wide  |-> {Program("CONS", 1, 0), Program("CONS", 0, 8), Program("CONS", 1, 16),
                Program("CONS", 1, 40)},
     big   |-> {}, late |-> {}]
=============================================================================
