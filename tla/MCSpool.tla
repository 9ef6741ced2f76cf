------------------------------ MODULE MCSpool ------------------------------
\* Spool on small instances for TLC.
EXTENDS Spool, TLC

\* Texts are interchangeable.
TextSymmetry == Permutations(Texts)
=============================================================================
