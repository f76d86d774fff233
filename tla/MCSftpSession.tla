--------------------------- MODULE MCSftpSession ----------------------------
\* SftpSession for TLC: a root within another, folders that may be renamed with what is
\* in them, and requests that lead up and out.
EXTENDS SftpSession, TLC

CONSTANTS s1, s2

TwoRoots == {<<"srv">>, <<"srv", "pub">>}
SomePaths == {<<"srv", "pub">>, <<"srv", "pub", "a">>, <<"srv", "b">>, <<"srv", "b", "a">>}
SomeRequests == {<<"a">>, <<"pub">>, <<"x", ".", "..", "b">>, <<"..", "b">>}

SessionSymmetry == Permutations({s1, s2})
=============================================================================
