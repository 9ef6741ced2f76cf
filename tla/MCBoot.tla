------------------------------- MODULE MCBoot -------------------------------
\* Boot on small instances for TLC.
EXTENDS Boot, TLC

\* LostOnlyIfTorn says nothing of what follows the first tear.
Whole == ~torn

TaskSymmetry == Permutations(Tasks)
=============================================================================
