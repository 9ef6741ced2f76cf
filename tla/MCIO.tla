------------------------------- MODULE MCIO -------------------------------
\* IO on small instances for TLC.
EXTENDS IO

\* What a device may end a channel program with.
AllStatuses == {{"CE"}, {"DE"}, {"CE", "DE"}, {"UC"}, {"CE", "UC"}, {"DE", "UC"},
                {"CE", "DE", "UC"}}
=============================================================================
