--------------------------- MODULE MCContentCache ---------------------------
(* A small instance of ContentCache for TLC.                               *)
EXTENDS ContentCache

CONSTANTS k1, k2, r1, w1, w2

MCKinds   == {k1, k2}
MCReaders == {r1}
MCWriters == {w1, w2}
=============================================================================
