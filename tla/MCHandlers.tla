----------------------------- MODULE MCHandlers -----------------------------
(* The handlers on their own.  Every kind of handler is represented: 0 has   *)
(* no error code, 2 and 5 are silent, 10 and 11 are counted, 17 pops.        *)
EXTENDS Handlers

MCVectors == {0, 2, 5, 10, 11, 17}
MCSoftInts == {5, 32}
MCPoints == {1, 2}
=============================================================================
