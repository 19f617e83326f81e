---------------------------- MODULE FeistelPair ----------------------------
(***************************************************************************)
(* The same Feistel program on two machines, as the comparison of their    *)
(* final states sees it.                                                   *)
(*                                                                         *)
(* One step is one execution of a tested instruction, from the copy of R   *)
(* to the update of L.  The first testcase fixes the number of L and R     *)
(* blocks.  A testcase combines the first cl of them with its outcome      *)
(* (gen_feistel_cipher), copies L to R up to the cr-th ("additional L      *)
(* blocks") and leaves any others alone.  An outcome is a function of the  *)
(* inputs, which are R; the machines deviate when theirs differ.           *)
(***************************************************************************)
EXTENDS Naturals

CONSTANTS
    Word,       \* the values of a block
    Xor(_, _),  \* exclusive or
    NBlocks,    \* len(feistel_r) = len(feistel_l)
    Insns       \* the testcases' instructions, as [cl, cr]: count_l and count_r

VARIABLES
    la, ra,     \* L and R on machine a
    lb, rb,     \* L and R on machine b
    differed    \* history: they differed after the last deviation

vars == <<la, ra, lb, rb, differed>>

Blocks == 1..NBlocks
State == [Blocks -> Word]

ASSUME PairAssumption ==
    /\ NBlocks \in Nat
    /\ Insns \subseteq [cl : 0..NBlocks, cr : 0..NBlocks]

ASSUME XorAssumption ==
    \A x, y \in Word : /\ Xor(x, y) \in Word
                       /\ \A z \in Word : Xor(x, z) = Xor(y, z) => x = y

\* Every testcase uses all the blocks of the first, as testcases of one
\* instruction do.
ASSUME CoverAssumption == \A i \in Insns : i.cl = NBlocks \/ i.cr = NBlocks

-----------------------------------------------------------------------------
\* R after the execution.
output_Bug(i, l, r, out) ==
    [b \in Blocks |-> IF b <= i.cl THEN Xor(l[b], out[b]) ELSE r[b]]
output(i, l, r, out) ==
    [b \in Blocks |-> IF b <= i.cl THEN Xor(l[b], out[b])
                      ELSE IF b <= i.cr THEN l[b]
                      ELSE r[b]]

\* L after the execution, from the R block or from the L block it had.
update_Bug(l, r) == l
update(l, r) == r

Differ == la # lb \/ ra # rb

-----------------------------------------------------------------------------
\* Both machines start from the same image.
Init ==
    /\ la \in State /\ ra \in State
    /\ lb = la /\ rb = ra
    /\ differed = FALSE

Execute(i, outa, outb) ==
    /\ ra' = output(i, la, ra, outa)
    /\ rb' = output(i, lb, rb, outb)
    /\ la' = update(la, ra)
    /\ lb' = update(lb, rb)

\* The machines implement the instruction alike: one function f of the inputs.
Agree(i, f) ==
    /\ Execute(i, f[ra], f[rb])
    /\ UNCHANGED differed

\* They do not.
Deviate(i, outa, outb) ==
    /\ Execute(i, outa, outb)
    /\ differed' = Differ'

Next ==
    \E i \in Insns :
        \/ \E f \in [State -> State] : Agree(i, f)
        \/ \E outa, outb \in State : Deviate(i, outa, outb)

Spec == Init /\ [][Next]_vars

-----------------------------------------------------------------------------
\* Type invariant of the pair.
TypeOK ==
    /\ la \in State /\ ra \in State
    /\ lb \in State /\ rb \in State
    /\ differed \in BOOLEAN

\* The machines' blocks differ exactly if they differed after the last
\* deviating execution: executions on which the machines agree neither hide a
\* difference nor make one up, which is what lets one comparison at the end
\* stand for one per testcase (gen_root, "output = feistel" and "update").
DifferenceKept == differed <=> Differ
=============================================================================
