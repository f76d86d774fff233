----------------------------- MODULE MCTftpGet -----------------------------
\* TftpGet on an instance small enough for TLC: two ports, so that a repeated request
\* can open a second session.
EXTENDS TftpGet

CONSTANTS t1, t2

TwoPorts == {t1, t2}
=============================================================================
