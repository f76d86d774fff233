--------------------------- MODULE MCTrapReceiver ---------------------------
\* TrapReceiver for TLC.
EXTENDS TrapReceiver
=============================================================================
