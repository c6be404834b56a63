--------------------------- MODULE MCDnbd1Server ---------------------------
EXTENDS Dnbd1Server

CONSTANTS a, b

Read(c, pos) == [client |-> c, pos |-> pos, read |-> TRUE, here |-> TRUE]

\* Two clients ask for the same block, one of them also asks another server.
Asked == {Read(a, 1), Read(b, 1), [Read(b, 1) EXCEPT !.here = FALSE]}

\* One client reads block 0, the other sends a heartbeat.
AskedFirst == {Read(a, 0), [Read(b, 0) EXCEPT !.read = FALSE]}
=============================================================================
