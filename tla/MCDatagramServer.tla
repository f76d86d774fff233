--------------------------- MODULE MCDatagramServer ---------------------------
\* DatagramServer for TLC.  Four clicks, on two ports.
EXTENDS DatagramServer
===============================================================================
