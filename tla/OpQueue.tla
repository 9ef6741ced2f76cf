------------------------------ MODULE OpQueue ------------------------------
(***************************************************************************)
(* What the drivers rely on when they call submit_io: the operations for a *)
(* device are carried out one at a time and in the order in which they     *)
(* were submitted, and each of them is completed once.                     *)
(***************************************************************************)
EXTENDS Integers, Sequences

CONSTANT Tasks      \* the submitters: each has one operation at a time

VARIABLES
    fifo,       \* the operations submitted and not completed
    complete    \* the tasks whose last operation was completed

Init == fifo = <<>> /\ complete = {}

\* A task that has nothing under way forgets its previous operation ...
Renew(t) ==
    /\ \A i \in 1..Len(fifo) : fifo[i] # t
    /\ complete' = complete \ {t}
    /\ UNCHANGED fifo

\* ... and submits the next one.
Submit(t) ==
    /\ \A i \in 1..Len(fifo) : fifo[i] # t
    /\ t \notin complete
    /\ fifo' = Append(fifo, t)
    /\ UNCHANGED complete

Complete ==
    /\ fifo # <<>>
    /\ complete' = complete \cup {Head(fifo)}
    /\ fifo' = Tail(fifo)

Next == Complete \/ \E t \in Tasks : Renew(t) \/ Submit(t)

Spec == Init /\ [][Next]_<<fifo, complete>>
=============================================================================
