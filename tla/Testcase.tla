------------------------------ MODULE Testcase ------------------------------
(***************************************************************************)
(* An aggregated test program running on one machine.                      *)
(*                                                                         *)
(* gen_floppy_with_testcase turns each testcase into seven segments        *)
(*                                                                         *)
(*   startup  ls: pre  code  l1: revert_  l2: post  l3: revert  l4: loop   *)
(*                                                                         *)
(* followed by l5, where the next testcase starts; gen_end_testcase ends   *)
(* the program.  Each segment first stores at retp the label to go to if   *)
(* one of its gadgets faults, and the kernel's handlers (module Handlers)  *)
(* send the task there.                                                    *)
(*                                                                         *)
(* The program is the constant Image, a sequence of gadgets; module Layout *)
(* builds the one that the generator builds.  Memory holds the Feistel     *)
(* blocks L, R and the copy of R.  A block's content is abstracted to the  *)
(* set of the executions of tested instructions that it carries the        *)
(* outcome of: xor with the outcome of execution n adds n.                 *)
(***************************************************************************)
EXTENDS Handlers, Sequences

CONSTANTS
    Image,      \* the gadgets in memory order
    MODE,       \* 0 single, 1 simple aggregation, 2 Feistel, 3 Feistel looping
    LOOP,       \* how often each testcase runs in mode 3
    Params,     \* the locations that testcases initialise
    FaultSegs,  \* the segments in which an exception may be raised
    FaultOps    \* the kinds of gadget that may raise it

VARIABLES
    count,      \* the loop counter at count_addr
    state,      \* per parameter: the testcase that set it, 0 for the snapshot
    regs,       \* the instruction's operands: "orig", "input", "outcome", "junk"
    bak,        \* their backup (feistel_in, feistel_out)
    L, R, Rbak, \* feistel_l, feistel_r, feistel_r_bak
    round,      \* history: executions folded into R so far
    prevR       \* history: what R held before the last of them

data == <<count, state, regs, bak, L, R, Rbak, round, prevR>>
vars == <<hvars, data>>

Ops == {"prologue", "ret", "param", "revert", "setr", "backup", "setinput",
        "copyr", "insn", "jmp", "feistel", "copyout", "restore", "update",
        "loop", "end", "hlt"}

Segs == {"startup", "pre", "code", "revert_", "post", "revert", "loop",
         "epilogue"}

\* The gadgets that store a return point.
Stores == {"prologue", "ret"}

Operands == {"orig", "input", "outcome", "junk"}

Last == Len(Image)

ASSUME TestcaseAssumption ==
    /\ Image \in Seq([op : Ops, seg : Segs, tc : Nat, to : Nat, arg : Params \cup {0}])
    /\ Last > 0
    /\ Points = 0..Last
    /\ MODE \in 0..3
    /\ LOOP \in 1..WordMax
    /\ 5 \in SoftInts /\ 32 \in SoftInts
    /\ FaultOps \subseteq Ops \ {"end", "hlt"}

\* Where control may go: forward except for the loop, never past the end.
ASSUME TargetsAssumption ==
    \A a \in 1..Last :
        /\ Image[a].op \in Stores \cup {"jmp"} => Image[a].to \in (a + 1)..Last
        /\ Image[a].op = "loop" => Image[a].to \in 1..a
        /\ Image[a].op = "param" \/ Image[a].op = "revert" => Image[a].arg \in Params
        /\ a = Last <=> Image[a].op = "hlt"
        /\ Image[a].op = "end" => a = Last - 1

\* The program begins with a prologue, and a label is the place of a gadget
\* that stores the next return point, or the end.
ASSUME LabelsAssumption ==
    /\ Image[1].op = "prologue"
    /\ \A a \in 1..Last :
          Image[a].op \in Stores \cup {"jmp"}
              => Image[Image[a].to].op \in Stores \cup {"end"}

\* The loop gadget follows the one that stores the label behind it, and leads
\* to the loop's entrance or on to the next testcase.
ASSUME LoopAssumption ==
    \A a \in 1..Last : Image[a].op = "loop" =>
        /\ MODE > 2
        /\ a > 1 /\ Image[a - 1].op = "ret" /\ Image[a - 1].to = a + 1
        /\ Image[a + 1].op \in {"prologue", "end"}
        /\ Image[Image[a].to].op \notin {"loop", "prologue", "end"}

op == Image[eip].op

-----------------------------------------------------------------------------
Init ==
    /\ eip = 0
    /\ retp = NoPoint
    /\ edata = [code |-> 0, vector |-> 0]
    /\ counter \in {0, WordMax}
    /\ heip = [v \in TaskVectors |-> "begin"]
    /\ hesp = [v \in TaskVectors |-> 0]
    /\ cpu = "boot"
    /\ raised = -1
    /\ counted = 0
    /\ count = 0
    /\ state = [p \in Params |-> 0]
    /\ regs = "orig" /\ bak = "junk"
    /\ L = {} /\ R = {} /\ Rbak = {}
    /\ round = 0
    /\ prevR = {}

\* switch_to_testcase_task: "int $0x5" (the handler only returns), the counter
\* of #10 and #11, and the jump to the program.
switch_to_testcase_task ==
    /\ cpu = "boot"
    /\ heip' = [heip EXCEPT ![5] = ResumesAt(5)]
    /\ counter' = CounterInit
    /\ cpu' = "run"
    /\ eip' = 1
    /\ UNCHANGED <<retp, edata, hesp, raised, counted, data>>

-----------------------------------------------------------------------------
(* What a gadget does to memory and registers, apart from retp and eip. *)

Skip == UNCHANGED data

set_count_Bug ==
    /\ count' = IF MODE > 2 THEN LOOP + 1 ELSE count
    /\ UNCHANGED <<state, regs, bak, L, R, Rbak, round, prevR>>
set_count ==
    /\ count' = IF MODE > 2 THEN LOOP ELSE count
    /\ UNCHANGED <<state, regs, bak, L, R, Rbak, round, prevR>>

set_param_Bug(p, t) ==
    /\ state' = [state EXCEPT ![p] = IF t = 0 THEN @ ELSE t]
    /\ UNCHANGED <<count, regs, bak, L, R, Rbak, round, prevR>>
set_param(p, t) ==
    /\ state' = [state EXCEPT ![p] = t]
    /\ UNCHANGED <<count, regs, bak, L, R, Rbak, round, prevR>>

\* init_r copies the first testcase's inputs to R, init_l seeds L (mode 3).
set_r ==
    /\ R' = {}
    /\ L' = IF MODE > 2 THEN {} ELSE L
    /\ UNCHANGED <<count, state, regs, bak, Rbak, round, prevR>>

backup_Bug ==
    /\ bak' = "junk"
    /\ UNCHANGED <<count, state, regs, L, R, Rbak, round, prevR>>
backup ==
    /\ bak' = regs
    /\ UNCHANGED <<count, state, regs, L, R, Rbak, round, prevR>>

set_regs(r) ==
    /\ regs' = r
    /\ UNCHANGED <<count, state, bak, L, R, Rbak, round, prevR>>

copy_r_Bug ==
    /\ Rbak' = L
    /\ UNCHANGED <<count, state, regs, bak, L, R, round, prevR>>
copy_r ==
    /\ Rbak' = R
    /\ UNCHANGED <<count, state, regs, bak, L, R, round, prevR>>

\* R := L xor outcome (the exception words at edata are part of the outcome).
feistel ==
    /\ R' = L \cup {round + 1}
    /\ round' = round + 1
    /\ prevR' = R
    /\ UNCHANGED <<count, state, regs, bak, L, Rbak>>

update_Bug ==
    /\ L' = R
    /\ UNCHANGED <<count, state, regs, bak, R, Rbak, round, prevR>>
update ==
    /\ L' = Rbak
    /\ UNCHANGED <<count, state, regs, bak, R, Rbak, round, prevR>>

dec_count_Bug ==
    /\ count' = count
    /\ UNCHANGED <<state, regs, bak, L, R, Rbak, round, prevR>>
dec_count ==
    /\ count' = Dec(count)
    /\ UNCHANGED <<state, regs, bak, L, R, Rbak, round, prevR>>

Effect(g) ==
    \/ g.op = "prologue" /\ set_count
    \/ g.op = "param"    /\ set_param(g.arg, g.tc)
    \/ g.op = "revert"   /\ set_param(g.arg, 0)
    \/ g.op = "setr"     /\ set_r
    \/ g.op = "backup"   /\ backup
    \/ g.op = "setinput" /\ set_regs("input")
    \/ g.op = "copyr"    /\ copy_r
    \/ g.op = "insn"     /\ set_regs("outcome")
    \/ g.op = "feistel"  /\ feistel
    \/ g.op = "restore"  /\ set_regs(bak)
    \/ g.op = "update"   /\ update
    \/ g.op = "loop"     /\ dec_count
    \/ g.op \in {"ret", "jmp", "copyout"} /\ Skip

-----------------------------------------------------------------------------
(* Steps of the task. *)

NextEip_Bug(g) ==
    IF g.op = "jmp" \/ (g.op = "loop" /\ count' = 0) THEN g.to ELSE eip + 1
NextEip(g) ==
    IF g.op = "jmp" \/ (g.op = "loop" /\ count' # 0) THEN g.to ELSE eip + 1

NextRetp_LabelsBug(g) == IF g.op = "prologue" THEN g.to ELSE retp
NextRetp_PrologueBug(g) == IF g.op = "ret" THEN g.to ELSE retp
NextRetp(g) == IF g.op \in Stores THEN g.to ELSE retp

\* A gadget executes to its end.
Execute ==
    /\ cpu = "run"
    /\ op \notin {"end", "hlt"}
    /\ Effect(Image[eip])
    /\ eip' = NextEip(Image[eip])
    /\ retp' = NextRetp(Image[eip])
    /\ UNCHANGED <<edata, counter, heip, hesp, cpu, raised, counted>>

\* A gadget faults, before it changed anything or after it did (BOUND, the
\* source of the silent #5, changes nothing).
Fault(v) ==
    /\ cpu = "run"
    /\ Image[eip].seg \in FaultSegs
    /\ op \in FaultOps
    /\ (v \notin SilentVectors /\ Effect(Image[eip])) \/ Skip
    /\ Exception(v)

\* "int $0x20"
EndOfTest ==
    /\ cpu = "run"
    /\ op = "end"
    /\ SoftInt(32, eip + 1)
    /\ UNCHANGED data

Halt ==
    /\ cpu = "run"
    /\ op = "hlt"
    /\ cpu' = "hlt"
    /\ UNCHANGED <<eip, retp, edata, counter, heip, hesp, raised, counted, data>>

Next ==
    \/ switch_to_testcase_task
    \/ Execute
    \/ \E v \in Vectors : Fault(v)
    \/ EndOfTest
    \/ Halt

Spec == Init /\ [][Next]_vars

\* The processor executes the program; no fairness is needed of a fault.
FairSpec == Spec /\ WF_vars(Next)

-----------------------------------------------------------------------------
(* Properties. *)

DataTypeOK ==
    /\ count \in 0..WordMax
    /\ state \in [Params -> Nat]
    /\ regs \in Operands /\ bak \in Operands
    /\ round \in Nat
    /\ L \subseteq 1..round /\ R \subseteq 1..round /\ Rbak \subseteq 1..round
    /\ prevR \subseteq 1..round

\* Type invariant of the running program: among others, no block carries the
\* outcome of an execution that has not happened, and the task is at address 0
\* only before switch_to_testcase_task has entered the program.
TypeOK ==
    /\ HTypeOK
    /\ DataTypeOK
    /\ cpu = "boot" <=> eip = 0

\* A point between two testcases, or behind the last one.
AtBoundary == cpu = "run" /\ op \in {"prologue", "end"}

\* Every gadget other than the ones that store a return point runs with a
\* return point ahead of it: an exception skips it and never runs it again.
\* (After "jump to post" the old return point l1 is behind l2 until the first
\* gadget of post has replaced it.)
ReturnPointAhead ==
    cpu = "run" /\ op \notin Stores \cup {"end", "hlt"}
        => retp # NoPoint /\ retp > eip

\* The task moves backwards only in the loop gadget, and then with a smaller
\* counter ("back to loop entrance"): not through a handler.
OnlyLoopGoesBack ==
    [][eip' < eip => op = "loop" /\ count' < count]_vars

\* Between two testcases the Feistel blocks still carry the outcome of every
\* instruction executed so far: none was overwritten before it was carried
\* over (output, update and copy_r of gen_root).
OutcomesKept == AtBoundary => 1..round \subseteq L \cup R

\* L holds what R held before the last execution ("moving R_{i-1} to L_{i} via
\* R's backup", gen_root).
LHoldsPreviousR == AtBoundary => L = prevR

\* Between two testcases every parameter is back at its value in the snapshot
\* ("Undo init state").
ParamsUndone == AtBoundary => \A p \in Params : state[p] = 0

\* Between two testcases the instruction's operands are restored ("for
\* restoring at the end of each TC").
OperandsRestored == AtBoundary => regs = "orig"

\* The tested instruction only ever runs with all the parameters of its own
\* testcase in force and, in the Feistel modes, on inputs taken from R after R
\* was saved: an exception before it never leads to it half prepared.
InsnPrepared ==
    cpu = "run" /\ op = "insn" =>
        /\ \A p \in Params : state[p] = Image[eip].tc
        /\ MODE > 1 => regs = "input" /\ Rbak = R

\* The one exception that finds no return point is one in the first prologue,
\* which stores the first; and handler 32, which cannot be entered twice, is
\* not.
WildOnlyAtStart == cpu = "wild" => eip = 1

\* How often a testcase runs.
Times == IF MODE > 2 THEN LOOP ELSE 1

\* Every testcase contributes its number of executions to R whether the tested
\* instruction faults or not.
FixedRuns ==
    AtBoundary =>
        round = Times * (IF op = "end" THEN Image[eip].tc ELSE Image[eip].tc - 1)

\* In mode 3 a testcase is left with its loop counter at zero: the loop gadget
\* was reached in every iteration ("jump to TC beginning for a fixed # of
\* times").
LoopExhausted ==
    AtBoundary /\ MODE > 2 /\ eip # 1 => count = 0

\* The program comes to its end or is halted by the handlers' counter, if no
\* gadget raises vectors 2 or 5: their handlers return to the gadget that
\* raised them, so one that does so each time (BOUND is among the tested
\* instructions) runs for ever, and only the deadline of the test ends it.
Terminates == <>(cpu = "hlt")
=============================================================================
