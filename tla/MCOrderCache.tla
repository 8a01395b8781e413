---------------------------- MODULE MCOrderCache ----------------------------
EXTENDS OrderCache, TLC

CONSTANTS i1, i2, r1, r2

\* A reader on each of two instances.
MCHome == r1 :> i1 @@ r2 :> i2
=============================================================================
