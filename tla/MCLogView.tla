----------------------------- MODULE MCLogView -----------------------------
\* LogView for TLC: two kinds of messages and three searches, one of which finds
\* nothing; lists so short that both caps are reached.
EXTENDS LogView

CONSTANTS a, b, h1, h2

MCFilters  == {{a, b}, {a}, {}}
MCHandlers == {h1, h2}
=============================================================================
