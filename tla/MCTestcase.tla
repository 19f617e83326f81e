---------------------------- MODULE MCTestcase ----------------------------
(* Programs that the generator emits, with one parameter set before and one *)
(* after the copy of R.                                                     *)
EXTENDS Flow, Layout

CONSTANTS NTests

Program == compile_gadgets(NTests, MODE, <<1>>, <<2>>)
MCImage == Program
MCPoints == 0..Len(Program)
MCParams == {1, 2}
MCSoftInts == {5, 32}
AllOps == Ops \ {"end", "hlt"}
NoStores == AllOps \ Stores
PreSegs == {"pre"}
ButRevert == {"startup", "pre", "code", "revert_", "post"}
AllSegs == Segs \ {"epilogue"}

\* Faults outside the segment that undoes the parameters leave it in force.
ASSUME UndoneAssumption == FaultSegs = ButRevert => Undoes
=============================================================================
