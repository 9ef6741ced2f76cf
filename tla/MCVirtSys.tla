---------------------------- MODULE MCVirtSys ----------------------------
\* VirtSys on small instances for TLC.
EXTENDS VirtSys

\* A console and a dedicated device.
ConsAndDed == [v \in Vdevs |-> IF v = 1 THEN "CONS" ELSE "DED"]
\* Running and waiting, enabled and disabled, and waiting for something else.
FivePSWs ==
    {[io |-> i, w |-> w, other |-> FALSE] : i \in BOOLEAN, w \in BOOLEAN}
        \cup {[io |-> FALSE, w |-> TRUE, other |-> TRUE]}
=============================================================================
