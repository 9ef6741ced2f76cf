------------------------------ MODULE Channel ------------------------------
(***************************************************************************)
(* The execution of a guest's channel program for a spooled device:        *)
(* spool_exec (cp/drivers/spooldev.c), one step per CCW, and the console   *)
(* behind it (cp/drivers/spooldev_cons.c).  The program and its data are   *)
(* in guest storage, which the guest's task reads through CR 1.            *)
(*                                                                         *)
(* A u32 address is kept as the signed number with the same bits, so that  *)
(* bit 0 is the sign.  The 64kB buffer holds what the program wrote to it  *)
(* and JUNK elsewhere: pages come uncleared from the allocator.  Data      *)
(* chaining is refused with the other unsupported flags, so that st.cd is  *)
(* always 0.                                                               *)
(***************************************************************************)
EXTENDS GuestStorage

CONSTANTS
    RecMax,     \* the longest record of a console (150)
    MaxCcws     \* bound: the CCWs of a channel program that are executed

ASSUME RecMaxAssumption == RecMax \in Nat \ {0}

VARIABLE chan   \* for each user the channel program of its task, or its last one

JUNK == -1
CCW_CMD_TIC == 8
CCW_FLAG_CC == 64
CCW_FLAG_SLI == 32
CE_DE == {"CE", "DE"}
U16 == 65536

IdleChannel ==
    [busy |-> FALSE, cons |-> FALSE, f |-> 0, addr |-> 0, buf |-> <<>>, rem |-> 0,
     dev |-> {}, sch |-> "none", tic2tic |-> FALSE, count |-> 0, recs |-> <<>>, n |-> 0]

ChannelInit == chan = [u \in Users |-> IdleChannel]

\* The start of spool_exec.  A printer or punch has no ops.
StartChannel(u, cons, f, addr) ==
    chan' = [chan EXCEPT ![u] = [IdleChannel EXCEPT
                !.busy = TRUE, !.cons = cons, !.f = f, !.addr = addr]]

-----------------------------------------------------------------------------
\* CCWs.

Half(b, i) == b[i] * 256 + b[i + 1]
Byte0(x) == IF x < 128 THEN x ELSE x - 256

\* ccw0_to_ccw1, or the CCW as it is.
ccw0_to_ccw1(b) ==
    [cmd |-> IF b[1] % 16 = CCW_CMD_TIC THEN CCW_CMD_TIC ELSE b[1],
     flags |-> b[5], count |-> Half(b, 7), addr |-> b[2] * U16 + Half(b, 3)]
Ccw1(b) ==
    [cmd |-> b[1], flags |-> b[2], count |-> Half(b, 3),
     addr |-> Byte0(b[5]) * 256 * U16 + b[6] * U16 + Half(b, 7)]
Decoded(c, b) == IF c.f = 0 THEN ccw0_to_ccw1(b) ELSE Ccw1(b)

\* The address check of __get_ccw.
InvalidCcwAddr(c) ==
    c.addr < 0 \/ (c.f = 0 /\ c.addr >= 256 * U16) \/ c.addr % 8 # 0

IS_CCW_WRITE(cmd) == cmd % 4 = 1

\* Every flag but chain command and suppress length indication.
UnsupportedFlag(flags) ==
    flags \notin {0, CCW_FLAG_CC, CCW_FLAG_SLI, CCW_FLAG_CC + CCW_FLAG_SLI}

ProgramCheck(c, ccw) ==
    \/ ccw.cmd % 16 = 0
    \/ c.f = 0 /\ ccw.count = 0
    \/ c.f = 1 /\ ccw.addr < 0
    \/ UnsupportedFlag(ccw.flags)

-----------------------------------------------------------------------------
\* The steps of one turn of the loop; each takes the state c of the program.

Out(c) == [c EXCEPT !.busy = FALSE]

Overwrite(buf, data) == data \o SubSeq(buf, Len(data) + 1, Len(buf))
BufferBytes(buf, len) == [i \in 1..len |-> IF i <= Len(buf) THEN buf[i] ELSE JUNK]

\* Mutant of xfer_storage: data that cannot be fetched is not reported.
XferSilently(u, c, ccw) ==
    LET Fetched(r) == [c EXCEPT !.rem = Len(r.data), !.buf = Overwrite(@, r.data)]
    IN  IF ccw.count = 0 THEN c
        ELSE IF ccw.addr > Directory[u].storage * PAGE
             THEN [c EXCEPT !.sch = "PROG_CHK"]
        ELSE Fetched(memcpy_from_guest(ccw.addr, ccw.count))

\* __xfer_storage from guest storage to the buffer.
xfer_storage(u, c, ccw) ==
    LET Fetched(r) ==
            [c EXCEPT !.sch = IF r.ret # 0 THEN "PROT_CHK" ELSE @,
                      !.rem = Len(r.data), !.buf = Overwrite(@, r.data)]
    IN  IF ccw.count = 0 THEN c
        ELSE IF ccw.addr > Directory[u].storage * PAGE
             THEN [c EXCEPT !.sch = "PROG_CHK"]
        ELSE Fetched(memcpy_from_guest(ccw.addr, ccw.count))

\* The record a WRITE of ccw stands for: the guest's bytes, cut at RecMax; want
\* is empty if some are not in guest storage.
RecLen(ccw) == IF ccw.count < RecMax THEN ccw.count ELSE RecMax
Wanted(u, ccw) ==
    IF ccw.count > 0 /\ InStorage(u, ccw.addr) /\ InStorage(u, ccw.addr + ccw.count - 1)
    THEN [i \in 1..RecLen(ccw) |-> GuestByte(u, ccw.addr + i - 1)]
    ELSE <<>>
CrossesPage(ccw) == DAT_BX(ccw.addr) + ccw.count > PAGE

\* Mutant of Appended: the residual count is left as the fetch set it.
AppendedNoRem(u, c, ccw, len) ==
    [c EXCEPT !.dev = CE_DE,
              !.recs = Append(@, [data |-> BufferBytes(c.buf, len),
                                  want |-> Wanted(u, ccw),
                                  crosses |-> CrossesPage(ccw)])]

\* The end of cons_write, with a record of len bytes.  The record goes to the
\* spool file of the device.
Appended(u, c, ccw, len) ==
    [c EXCEPT !.dev = CE_DE,
              !.rem = (@ - len) % U16,
              !.recs = Append(@, [data |-> BufferBytes(c.buf, len),
                                  want |-> Wanted(u, ccw),
                                  crosses |-> CrossesPage(ccw)])]

\* cons_write; ok is FALSE if there is no storage for the spool file or the
\* record.
cons_write(u, c, ccw, ok) ==
    IF ccw.cmd # 1 \/ ~ok THEN [c EXCEPT !.dev = CE_DE \cup {"UC"}]
    ELSE Appended(u, c, ccw, RecLen(ccw))

\* The dispatch through ops->f; only WRITE of a console has a function.
Device(u, c, ccw, ok) ==
    IF c.cons /\ ccw.cmd % 16 = 1 THEN cons_write(u, c, ccw, ok)
    ELSE [c EXCEPT !.dev = CE_DE \cup {"UC"}]                  \* spooldev_cmdrej

\* The end of the turn: chaining takes the address, which is that of the next
\* CCW already, 8 further.  No command that reads ends well, so that nothing is
\* transferred to guest storage.
Chained(c, ccw) ==
    IF c.dev # CE_DE \/ ccw.flags \notin {CCW_FLAG_CC, CCW_FLAG_CC + CCW_FLAG_SLI}
    THEN Out(c) ELSE [c EXCEPT !.addr = @ + 8]

Executed(u, c, ccw, ok) ==
    IF ccw.cmd = CCW_CMD_TIC
    THEN IF c.tic2tic \/ (c.f = 1 /\ (ccw.flags # 0 \/ ccw.count # 0))
         THEN Out([c EXCEPT !.sch = "PROG_CHK"])
         ELSE [c EXCEPT !.addr = ccw.addr, !.tic2tic = TRUE]
    ELSE IF ProgramCheck(c, ccw)
    THEN Out([c EXCEPT !.sch = "PROG_CHK", !.tic2tic = FALSE])
    ELSE LET Ready == [c EXCEPT !.tic2tic = FALSE, !.count = ccw.count]
             Run(d) == Chained(Device(u, d, ccw, ok), ccw)
         IN  Run(IF IS_CCW_WRITE(ccw.cmd) THEN xfer_storage(u, Ready, ccw) ELSE Ready)

\* The turn of the loop for one CCW, r being the result of fetching it.
Turn(u, c, r, ok) ==
    IF InvalidCcwAddr(c) THEN Out([c EXCEPT !.sch = "PROG_CHK", !.addr = @ + 8])
    ELSE IF r.ret # 0 THEN Out([c EXCEPT !.sch = "PROT_CHK", !.addr = @ + 8])
    ELSE IF c.sch # "none" THEN Out([c EXCEPT !.addr = @ + 8])
    ELSE Executed(u, [c EXCEPT !.addr = @ + 8], Decoded(c, r.data), ok)

ExecCcw(u) ==
    /\ chan[u].busy /\ chan[u].n < MaxCcws
    /\ \E ok \in BOOLEAN :
          chan' = [chan EXCEPT ![u] =
                     Turn(u, [chan[u] EXCEPT !.n = @ + 1],
                          memcpy_from_guest(chan[u].addr, 8), ok)]
    /\ UNCHANGED storage

-----------------------------------------------------------------------------
\* A record in the spool is what the guest had at the data address, cut at the
\* longest record, unless the data cross a page (__memcpy_tofrom_guest repeats
\* the part before the boundary) or the program ends with a check: spool_exec
\* appends the record although the data could not be fetched, and whoever
\* reads the status learns of it.
RecordsAreGuestData ==
    \A u \in Users : \A i \in DOMAIN chan[u].recs :
        LET r == chan[u].recs[i]
        IN  \/ r.data = r.want \/ r.crosses
            \/ chan[u].sch # "none" /\ i = Len(chan[u].recs)

\* When a program ends well, the residual count is what the last write did not
\* take, 0 up to the longest record.  (A write of no bytes keeps what the write
\* before it left.)
ResidualIsExact ==
    \A u \in Users :
        ~chan[u].busy /\ chan[u].dev = CE_DE /\ chan[u].sch = "none"
            /\ chan[u].count > 0 =>
        chan[u].rem = chan[u].count - Len(Last(chan[u].recs).data)
=============================================================================
