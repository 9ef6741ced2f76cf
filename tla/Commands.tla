----------------------------- MODULE Commands -----------------------------
(***************************************************************************)
(* The CP commands that look at or change a virtual machine: STORE and     *)
(* DISPLAY of storage, registers and the PSW (cp/shell/cmd_store.c,        *)
(* cmd_display.c), and SYSTEM CLEAR and RESET, BEGIN and STOP.  A guest's  *)
(* task executes the commands of the guest between two runs of it; storage *)
(* is reached through CR 1.                                                *)
(*                                                                         *)
(* The text of a command is abstracted to its operands.  run_guest loads   *)
(* and saves general registers 0 to 13 only; SIE keeps 14 and 15 in the    *)
(* control block (gg), which no command looks at.  The floating point      *)
(* registers are never loaded.  Of a word that is stored or shown the four *)
(* bytes are kept, of a register one number.                               *)
(***************************************************************************)
EXTENDS GuestStorage

CONSTANTS
    Regs,       \* some of the registers 0..15
    Images      \* the saved systems; Images[n] is a system (see Machine)

VARIABLES
    state,      \* cpu->state
    psw,        \* the four words of sie_cb.gpsw
    zarch,      \* CPUSTAT_ZARCH
    regs,       \* cpu->regs and sie_cb.gcr, and gg
    arch,       \* history: the registers as the guest and its user know them
    shown       \* what the last command stored or displayed

cpu == <<state, psw, zarch, regs, arch>>

LINE == 4                                   \* words on a line of DISPLAY
Zero == [r \in Regs |-> 0]
CR0 == 224                                  \* 0xE0
CR14 == 194                                 \* 0xC2000000, scaled
ResetCR == [r \in Regs |-> IF r = 0 THEN CR0 ELSE IF r = 14 THEN CR14 ELSE 0]

Nothing == [op |-> "none", user |-> "none", addr |-> 0, len |-> 0, out |-> <<>>,
            old |-> <<>>]

\* alloc_vcpu: all zero, and GUEST_STOPPED is 0.
CommandsInit ==
    /\ state = [u \in Users |-> "STOPPED"]
    /\ psw = [u \in Users |-> <<0, 0, 0, 0>>]
    /\ zarch = [u \in Users |-> FALSE]
    /\ regs = [u \in Users |-> [gpr |-> Zero, fpr |-> Zero, ar |-> Zero, cr |-> Zero,
                                fpcr |-> 0, gg |-> Zero]]
    /\ arch = [u \in Users |-> [gpr |-> Zero, fpr |-> Zero, ar |-> Zero, cr |-> Zero,
                                fpcr |-> 0]]
    /\ shown = Nothing

\* SHELL_CMD_AUTH(sys, G); a command that is refused changes nothing.
Authorised(u) == "G" \in Directory[u].auth

RoundDown(addr) == addr - (addr % 4)

-----------------------------------------------------------------------------
\* STORE

\* A word that is not in the guest's configuration is refused.
cmd_store_storage(u, addr, word) ==
    LET host == virt2phy_current(RoundDown(addr))
    IN  /\ Authorised(u) /\ host # FAULT
        /\ mem' = Copied(host, word)
        /\ shown' = [Nothing EXCEPT !.op = "store", !.user = u,
                                    !.addr = RoundDown(addr), !.out = word]
        /\ UNCHANGED cpu

\* STORE of a register of one of the register files.
StoreRegister(u, file, r, val) ==
    /\ Authorised(u)
    /\ regs' = [regs EXCEPT ![u][file][r] = val]
    /\ arch' = [arch EXCEPT ![u][file][r] = val]
    /\ shown' = Nothing
    /\ UNCHANGED <<state, psw, zarch, mem>>

cmd_store_gpr(u, r, val) == StoreRegister(u, "gpr", r, val)
cmd_store_fpr(u, r, val) == StoreRegister(u, "fpr", r, val)
cmd_store_ar(u, r, val) == StoreRegister(u, "ar", r, val)
cmd_store_cr(u, r, val) == StoreRegister(u, "cr", r, val)
cmd_store_fpcr(u, val) ==
    /\ Authorised(u)
    /\ regs' = [regs EXCEPT ![u].fpcr = val]
    /\ arch' = [arch EXCEPT ![u].fpcr = val]
    /\ shown' = Nothing
    /\ UNCHANGED <<state, psw, zarch, mem>>

\* The words of old after the stores of STORE PSW, the words padded with 0.
NewPsw(old, words, cnt) ==
    LET w(i) == IF i <= Len(words) THEN words[i] ELSE 0
    IN  [i \in 1..4 |-> IF i + cnt > 4 THEN w(i + cnt - 4) ELSE old[i]]

\* What DISPLAY PSW shows.
cmd_display_psw(u) == IF zarch[u] THEN psw[u] ELSE SubSeq(psw[u], 1, 2)

\* Mutant of Count: without the adjustment for ESA/390.
CountAsGiven(u, words) == Len(words)

\* In ESA/390 mode the PSW is the first two of the four words.
Count(u, words) == IF zarch[u] THEN Len(words) ELSE Len(words) + 2

cmd_store_psw(u, words) ==
    /\ Authorised(u)
    /\ Len(words) \in 1..4 /\ (zarch[u] \/ Len(words) <= 2)
    /\ psw' = [psw EXCEPT ![u] = NewPsw(@, words, Count(u, words))]
    /\ shown' = [Nothing EXCEPT !.op = "psw", !.user = u, !.out = words,
                                !.old = cmd_display_psw(u)]
    /\ UNCHANGED <<state, zarch, regs, arch, mem>>

-----------------------------------------------------------------------------
\* DISPLAY

\* The number of words DISPLAY STORAGE shows for a length of mlen bytes.
Words(mlen) == IF mlen > 4 THEN (mlen + 3) \div 4 ELSE 1

\* Mutant of Rewalks: never.
NeverRewalks(a, k, n) == FALSE

\* Whether the page tables are walked again before word k of n, at address a:
\* at a page boundary, unless the line that ends or crosses there is the last.
Rewalks(a, k, n) == DAT_BX(a) = 0 /\ (k - 2) \div LINE # (n - 1) \div LINE

\* The words before which the tables are walked, among the first k of n.
Walks(addr, n, k) ==
    {1} \cup {j \in 2..k : Rewalks(addr + 4 * (j - 1), j, n)}

\* The host address of word k of n: as far from where the tables were walked
\* last as the guest's address is, and FAULT from the first walk that fails.
HostAddr(addr, n, k) ==
    LET Walk(j) == virt2phy_current(addr + 4 * (j - 1))
        last == CHOOSE j \in Walks(addr, n, k) : \A i \in Walks(addr, n, k) : i <= j
    IN  IF \E j \in Walks(addr, n, k) : Walk(j) = FAULT THEN FAULT
        ELSE Walk(last) + 4 * (k - last)

display_storage_numeric(u, addr, n) ==
    shown' = [Nothing EXCEPT !.op = "display", !.user = u, !.addr = addr, !.len = n,
        !.out = [k \in {j \in 1..n : HostAddr(addr, n, j) # FAULT} |->
                    [i \in 1..4 |-> mem[HostAddr(addr, n, k) + i - 1]]]]

cmd_display_storage(u, addr, mlen) ==
    /\ Authorised(u)
    /\ display_storage_numeric(u, RoundDown(addr), Words(mlen))
    /\ UNCHANGED <<cpu, mem>>

cmd_display_gpr(u) == regs[u].gpr
cmd_display_fpr(u) == regs[u].fpr
cmd_display_ar(u) == regs[u].ar
cmd_display_cr(u) == regs[u].cr
cmd_display_fpcr(u) == regs[u].fpcr

-----------------------------------------------------------------------------
\* SYSTEM, BEGIN and STOP

ClearedRegs(u) ==
    [regs[u] EXCEPT !.gpr = Zero, !.fpr = Zero, !.ar = Zero, !.cr = ResetCR, !.fpcr = 0]

\* __perform_cpu_reset with CLEAR_RESET_FLAGS; the architecture mode is kept.
ClearReset(u, newstate) ==
    /\ state' = [state EXCEPT ![u] = newstate]
    /\ psw' = [psw EXCEPT ![u] = <<0, 0, 0, 0>>]
    /\ regs' = [regs EXCEPT ![u] = ClearedRegs(u)]
    /\ arch' = [arch EXCEPT ![u] = [gpr |-> Zero, fpr |-> Zero, ar |-> Zero,
                                    cr |-> ResetCR, fpcr |-> 0]]
    /\ ResetStorage(u)
    /\ shown' = Nothing
    /\ UNCHANGED zarch

system_clear(u) == Authorised(u) /\ ClearReset(u, "STOPPED")

SetState(u, s) ==
    /\ state' = [state EXCEPT ![u] = s]
    /\ shown' = Nothing
    /\ UNCHANGED <<psw, zarch, regs, arch, mem>>

system_reset(u) == Authorised(u) /\ SetState(u, "STOPPED")
guest_begin(u) == state[u] \in {"STOPPED", "OPERATING"} /\ SetState(u, "OPERATING")
cmd_stop(u) ==
    Authorised(u) /\ state[u] \in {"STOPPED", "OPERATING"} /\ SetState(u, "STOPPED")

-----------------------------------------------------------------------------
\* The guest runs.

\* The general registers of the guest that run_guest loads before and saves
\* after SIE.
Saved(r) == r <= 13

\* The registers the guest finds when SIE starts.
Entry(u) == [r \in Regs |-> IF Saved(r) THEN regs[u].gpr[r] ELSE regs[u].gg[r]]

\* Under SIE the guest stores a word in its storage, which SIE finds through
\* CR 1, and adds to each of its registers.
GuestRuns(u, addr, word) ==
    LET host == virt2phy_current(addr)
        Run(gpr) ==
            /\ regs' = [regs EXCEPT
                  ![u].gpr = [r \in Regs |-> IF Saved(r) THEN gpr[r] ELSE @[r]],
                  ![u].gg = [r \in Regs |-> IF Saved(r) THEN @[r] ELSE gpr[r]]]
            /\ arch' = [arch EXCEPT ![u].gpr = gpr]
    IN  /\ state[u] = "OPERATING"
        /\ addr + 4 <= Directory[u].storage * PAGE /\ host # FAULT
        /\ mem' = Copied(host, word)
        /\ Run([r \in Regs |-> (Entry(u)[r] + 1) % 4])
        /\ shown' = [Nothing EXCEPT !.op = "store", !.user = u, !.addr = addr, !.out = word]
        /\ UNCHANGED <<state, psw, zarch>>

-----------------------------------------------------------------------------
\* STORE and the guest's own stores reach the addressed word of the guest.
\* DISPLAY STORAGE shows the guest's words, and all of them, up to the end of
\* its configuration, unless the last line crosses a page: then the line goes
\* on with the next frame of the host.
StorageIsOwn ==
    LET At(k) == shown.addr + 4 * (k - 1)
        Word(addr) == [i \in 1..4 |-> GuestByte(shown.user, addr + i - 1)]
        LastLine == At(LINE * ((shown.len - 1) \div LINE) + 1)
    IN  /\ shown.op = "store" => Word(shown.addr) = shown.out
        /\ shown.op = "display" /\ LastLine \div PAGE = At(shown.len) \div PAGE =>
             \A k \in 1..shown.len :
                IF InStorage(shown.user, At(k)) /\ At(k) < LIMIT
                THEN k \in DOMAIN shown.out /\ shown.out[k] = Word(At(k))
                ELSE k \notin DOMAIN shown.out

\* After STORE PSW, DISPLAY PSW ends with the words that were given and begins
\* with what it showed before, in both architecture modes.
PswIsShown ==
    shown.op = "psw" =>
        LET kept == Len(shown.old) - Len(shown.out)
        IN  cmd_display_psw(shown.user) = SubSeq(shown.old, 1, kept) \o shown.out

\* What STORE stored is what DISPLAY shows, whatever the guest and the resets
\* did in between: the PSW, and each register file as the guest and its user
\* know it.  Of general registers 14 and 15 the guest's own values are in the
\* SIE control block, and are not shown.
DisplayAgreesWithStore ==
    /\ PswIsShown
    /\ \A u \in Users :
         /\ \A r \in Regs : r <= 13 => cmd_display_gpr(u)[r] = arch[u].gpr[r]
         /\ cmd_display_fpr(u) = arch[u].fpr /\ cmd_display_ar(u) = arch[u].ar
         /\ cmd_display_cr(u) = arch[u].cr /\ cmd_display_fpcr(u) = arch[u].fpcr
=============================================================================
