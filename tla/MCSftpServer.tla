--------------------------- MODULE MCSftpServer ---------------------------
\* SftpServer for TLC.  The server is started three times, so that two old threads may be
\* around; twice is enough for the restart that goes wrong.
EXTENDS SftpServer
===========================================================================
