--------------------------- MODULE MCFeistelPair ---------------------------
(* One-bit words and two blocks, under instructions with as many outputs as *)
(* inputs, fewer and more.                                                  *)
EXTENDS FeistelPair

MCXor(x, y) == (x + y) % 2
MCInsns == {[cl |-> 2, cr |-> 2], [cl |-> 1, cr |-> 2], [cl |-> 2, cr |-> 0]}
=============================================================================
