------------------------------- MODULE MCSlab -------------------------------
\* Slab on small instances for TLC.
EXTENDS Slab
=============================================================================
