--------------------------- MODULE MCSnmpManager ---------------------------
\* SnmpManager for TLC.  Two clicks, of which the second may come at any step of the
\* first request, also between the two lines that enable the buttons.
EXTENDS SnmpManager
============================================================================
