---------------------------- MODULE MCInsnFaults ----------------------------
(* Feistel programs that the generator emits, with one parameter set before *)
(* and one after the copy of R.                                             *)
EXTENDS InsnFaults, Layout

CONSTANTS NTests

Program == compile_gadgets(NTests, MODE, <<1>>, <<2>>)
MCImage == Program
MCPoints == 0..Len(Program)
MCParams == {1, 2}
MCSoftInts == {5, 32}
MCFaultSegs == {"code", "revert_"}
MCFaultOps == Ops \ (Stores \cup {"end", "hlt"})

\* The last gadget of ops before a; the first gadget if there is none.
Before(a, ops) ==
    LET before == {b \in 1..(a - 1) : b = 1 \/ Program[b].op \in ops}
    IN  Program[CHOOSE b \in before : \A c \in before : c <= b].op

PhaseOf(a) ==
    IF a = 1 \/ Before(a, {"setr"}) = "prologue" THEN "start"
    ELSE After(Before(a, {"setr", "copyr", "feistel", "update", "prologue"}), "done")
Phases == [a \in 1..Len(Program) |-> PhaseOf(a)]
MCPhase == Phases

HeldOf(a) ==
    IF a = 1 THEN "orig" ELSE HeldAfter(Before(a, {"backup", "setinput", "restore"}), "orig")
Helds == [a \in 1..Len(Program) |-> HeldOf(a)]
MCHeld == Helds
=============================================================================
