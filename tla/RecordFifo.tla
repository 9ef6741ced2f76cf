----------------------------- MODULE RecordFifo -----------------------------
(***************************************************************************)
(* What the users of a spool file rely on: records come out in the order   *)
(* in which they went in, each of them once and with its own length, cut   *)
(* to the size of the buffer it is read into.                              *)
(***************************************************************************)
EXTENDS Integers, Sequences, FiniteSetsExt

CONSTANTS Lengths, Wants    \* lengths of records and of buffers

VARIABLES
    lens,       \* the lengths of the records in the file
    got         \* the last record read: the size of the buffer, the length

Init == lens = <<>> /\ got = <<0, 0>>

Add(n) == lens' = Append(lens, n) /\ UNCHANGED got

Grab(want) ==
    /\ lens # <<>>
    /\ lens' = Tail(lens)
    /\ got' = <<want, Min({want, Head(lens)})>>

Next ==
    \/ \E n \in Lengths : Add(n)
    \/ \E want \in Wants : Grab(want)

Spec == Init /\ [][Next]_<<lens, got>>
=============================================================================
