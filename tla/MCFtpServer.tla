---------------------------- MODULE MCFtpServer ----------------------------
\* FtpServer for TLC.  Three starts, so that the threads of two earlier ones may
\* still be around; two settings that differ and one with an invalid port.
EXTENDS FtpServer

CONSTANTS s1, s2, bad
=============================================================================
