------------------------------ MODULE MCBuddy ------------------------------
\* Buddy on small storage for TLC.
EXTENDS Buddy
=============================================================================
