----------------------------- MODULE InsnFaults -----------------------------
(***************************************************************************)
(* Feistel programs whose exceptions come from the tested instruction, or  *)
(* from undoing the parameters after it: the case that revert_ was added   *)
(* for.                                                                    *)
(*                                                                         *)
(* Phase says of every place in the program how far its execution has      *)
(* carried the outcomes: "start" before R is initialised, "keep" when L    *)
(* and R hold them, "copied" when R's backup is R, "folded" when R has the *)
(* new outcome and the old R is only in the backup, "done" when L and R    *)
(* hold them again.  Held says where the operands' own values are: "orig"  *)
(* in place, "saved" also in the backup, "used" only there.                *)
(***************************************************************************)
EXTENDS Flow

CONSTANTS Phase, Held

After(o, ph) ==
    CASE o = "setr"     -> "keep"
      [] o = "copyr"    -> "copied"
      [] o = "feistel"  -> "folded"
      [] o = "update"   -> "done"
      [] o = "prologue" -> IF ph = "done" THEN "keep" ELSE ph
      [] OTHER          -> ph

HeldAfter(o, h) ==
    CASE o = "backup"   -> "saved"
      [] o = "setinput" -> "used"
      [] o = "restore"  -> "orig"
      [] OTHER          -> h

ASSUME FaultsAssumption ==
    /\ FaultSegs \subseteq {"code", "revert_"}
    /\ FaultOps \cap Stores = {}

ASSUME PhaseAssumption ==
    /\ Phase \in [1..Last -> {"start", "keep", "copied", "folded", "done"}]
    /\ \A a \in 1..Last :
        LET g == Image[a] IN
        \* Phases follow the flow of control.
        /\ g.op \notin {"jmp", "hlt"} => Phase[a + 1] = After(g.op, Phase[a])
        /\ g.op = "jmp" => Phase[g.to] = Phase[a]
        /\ g.op = "loop" => Phase[a] = "done" /\ Phase[g.to] = "keep"
        \* Each gadget on the blocks is in its place.
        /\ g.op = "setr" => Phase[a] = "start"
        /\ g.op = "copyr" => Phase[a] = "keep"
        /\ g.op = "feistel" => Phase[a] = "copied"
        /\ g.op = "update" => Phase[a] = "folded"
        /\ Boundary(a) => Phase[a] = IF a = 1 THEN "start" ELSE "done"

ASSUME HeldAssumption ==
    /\ Held \in [1..Last -> {"orig", "saved", "used"}]
    /\ \A a \in 1..Last :
        LET g == Image[a] IN
        /\ g.op \notin {"jmp", "hlt"} => Held[a + 1] = HeldAfter(g.op, Held[a])
        /\ g.op \in {"jmp", "loop"} => Held[g.to] = Held[a]
        /\ g.op = "backup" => Held[a] = "orig"
        /\ g.op = "setinput" => Held[a] = "saved"
        /\ g.op \in {"insn", "restore"} => Held[a] = "used"
        /\ Boundary(a) => Held[a] = "orig"

\* The testcases follow each other, each with its prologue, then the end, and the
\* loop and the jump stay in theirs.
ASSUME TestsAssumption ==
    /\ Image[1].tc = 1
    /\ \A a \in 1..Last :
        LET g == Image[a] IN
        /\ g.op # "hlt" => Image[a + 1].tc =
              IF Image[a + 1].op = "prologue" THEN g.tc + 1 ELSE g.tc
        /\ g.op \notin {"end", "hlt"} => Image[a + 1].op # "hlt"
        /\ g.op \in {"jmp", "loop"} => Image[g.to].tc = g.tc /\ ~Boundary(g.to)

\* The segments of the instruction touch neither the blocks nor the backup,
\* begin with a return point in the same testcase and phase, and are not a
\* loop's entrance.
ASSUME SegmentsAssumption ==
    \A a \in 1..Last :
        LET g == Image[a] IN
        /\ g.seg \in FaultSegs => g.op \in {"ret", "insn", "jmp", "param", "revert"}
        /\ g.seg \in FaultSegs /\ g.op = "ret" =>
              /\ Phase[g.to] = Phase[a] /\ Held[g.to] = Held[a]
              /\ Image[g.to].tc = g.tc /\ ~Boundary(g.to)
        /\ g.op # "hlt" /\ Image[a + 1].seg \in FaultSegs /\ Image[a + 1].op # "ret"
              => g.seg \in FaultSegs
        /\ g.op = "loop" => Image[g.to].seg \notin FaultSegs

\* Exceptions of the instruction lead neither past the gadgets that undo the
\* parameters nor out of the loop.
ASSUME UndoneAssumption == Undoes
ASSUME ExhaustsAssumption == MODE > 2 => Exhausts

-----------------------------------------------------------------------------
(* The inductive invariants behind OutcomesKept, LHoldsPreviousR,          *)
(* OperandsRestored and FixedRuns.                                         *)

\* Where the outcomes so far and the previous R are, by phase.
BlocksInv ==
    cpu = "run" =>
        CASE Phase[eip] = "start"  -> round = 0
          [] Phase[eip] \in {"keep", "done"} -> 1..round \subseteq L \cup R /\ L = prevR
          [] Phase[eip] = "copied" -> /\ 1..round \subseteq L \cup R /\ L = prevR
                                      /\ Rbak = R
          [] Phase[eip] = "folded" -> 1..round \subseteq R \cup Rbak /\ Rbak = prevR

\* Where the operands' own values are.
HeldInv ==
    cpu = "run" =>
        /\ Held[eip] \in {"orig", "saved"} => regs = "orig"
        /\ Held[eip] \in {"saved", "used"} => bak = "orig"

\* How many executions have been folded into R at a, with the counter at n.
Folds(a) == IF Phase[a] \in {"folded", "done"} THEN 1 ELSE 0
Rounds(a, n) ==
    LET t == Image[a].tc IN
    IF Image[a].op = "prologue" THEN Times * (t - 1)
    ELSE IF Image[a].op \in {"end", "hlt"} THEN Times * t
    ELSE Times * (t - 1) + (IF MODE > 2 THEN LOOP - n ELSE 0) + Folds(a)

RoundInv == cpu = "run" => round = Rounds(eip, count)

\* An exception in the instruction's segments stays in the phase.
Alike(a, b) ==
    /\ Phase[a] = Phase[b] /\ Held[a] = Held[b]
    /\ Image[a].tc = Image[b].tc
    /\ ~Boundary(a) /\ Image[a].op # "hlt"
SamePhase ==
    cpu = "run" /\ Image[eip].seg \in FaultSegs /\ op # "ret"
        => retp # NoPoint /\ Alike(retp, eip)
=============================================================================
