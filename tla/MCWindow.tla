------------------------------ MODULE MCWindow ------------------------------
\* Window for TLC.  All lists overflow, and two transfers may overlap.
EXTENDS Window
=============================================================================
