------------------------------ MODULE Handlers ------------------------------
(***************************************************************************)
(* The exception handlers of the test kernel (Kernel/interrupts-mod.c).    *)
(*                                                                         *)
(* Vectors 0-19 and 32 go through task gates: the processor saves the      *)
(* testcase task in tss0, loads the handler's own TSS (EIP, ESP), pushes   *)
(* an error code on the handler's stack if the vector has one, and the     *)
(* handler's "iret" switches back to whatever tss0.eip then holds.  A      *)
(* handler records the exception in the two words at edata, loads the      *)
(* return point that the testcase stored at retp and writes it to          *)
(* tss0.eip.  The switch back saves the handler's EIP behind its iret, so  *)
(* the next exception of the vector starts at the instruction after it.    *)
(*                                                                         *)
(* One delivery (switch, handler, switch back) is one step: the handlers   *)
(* run with their own page directory and segments and nothing preempts     *)
(* them (the PIC is masked by loader.c).                                   *)
(***************************************************************************)
EXTENDS Integers

CONSTANTS
    Vectors,    \* the exceptions the processor may raise in the testcase task
    SoftInts,   \* the vectors raised with an "int" instruction
    Paging,     \* CR0.PG while the testcase runs
    WordMax,    \* the largest value of a 32-bit word
    Points,     \* the addresses the testcase task may be at
    NoPoint     \* what retp holds before anything was stored there

VARIABLES
    eip,        \* where the testcase task is: tss0.eip while a handler runs
    retp,       \* the return point stored by the testcase
    edata,      \* [code, vector] recorded for the testcase
    counter,    \* the word at 0x280000
    heip,       \* per vector, the EIP saved in the handler's TSS
    hesp,       \* per vector, the ESP saved in the handler's TSS, in words
    cpu,        \* "boot", "run", "hlt", or "wild": executing no known code
    raised,     \* history: the last vector whose handler records it, or -1
    counted     \* history: deliveries of the counted vectors

hvars == <<eip, retp, edata, counter, heip, hesp, cpu, raised, counted>>

TaskVectors == 0..19 \cup {32}

\* The processor's side: which exceptions push an error code.
ErrorCodeVectors == {8, 10, 11, 12, 13, 14, 17}

\* No int instruction of the kernel or of a program names a vector with an
\* error code: its handler would pop a word that was not pushed.
ASSUME HandlersAssumption ==
    /\ Vectors \subseteq 0..19
    /\ SoftInts \subseteq TaskVectors \ ErrorCodeVectors
    /\ Paging \in BOOLEAN
    /\ NoPoint \notin Points
    /\ WordMax \in Nat /\ WordMax > 10

-----------------------------------------------------------------------------
(* The handlers' text, as tables. *)

\* The decl instruction on a 32-bit word.
Dec(w) == IF w = 0 THEN WordMax ELSE w - 1

\* Handlers with a "pop" of the error code into edata.
PopVectorsBug == {8, 10, 11, 12, 13, 14}
PopVectors == {8, 10, 11, 12, 13, 14, 17}

\* Handlers that are nothing but "iret".
SilentVectors == {2, 5, 32}

\* Handlers that begin with "decl 0x280000; jnz ...; hlt".
CountedVectorsBug == {10}
CountedVectors == {10, 11}

\* The immediate a handler stores as the vector number.
RecordedVector(v) ==
    IF v = 12 THEN 11
    ELSE IF v = 15 /\ Paging THEN 10
    ELSE v

\* The handler of 32 has no "jmp" back to its first instruction.
ResumesAt(v) == IF v = 32 THEN "end" ELSE "jmp"

\* The value main.c stores at 0x280000 before it enters the testcase.
CounterInit == 10

\* The vectors the history variable counted is about: "#a or #b".
AOrB == {10, 11}

-----------------------------------------------------------------------------
(* Deliveries.  "soft" tells an int instruction from an exception.          *)

Pushed(v, soft) == IF v \in ErrorCodeVectors /\ ~soft THEN 1 ELSE 0
Popped(v) == IF v \in PopVectors THEN 1 ELSE 0

\* Execution continues behind the iret of a handler without a jmp.
Overrun(v) ==
    /\ heip[v] = "end"
    /\ cpu' = "wild"
    /\ UNCHANGED <<eip, retp, edata, counter, heip, hesp, raised, counted>>

\* The counter reaches zero: the handler halts the machine.
CountOut(v) ==
    /\ heip[v] # "end"
    /\ v \in CountedVectors
    /\ counter = 1
    /\ counter' = 0
    /\ cpu' = "hlt"
    /\ counted' = IF v \in AOrB THEN counted + 1 ELSE counted
    /\ UNCHANGED <<eip, retp, edata, heip, hesp, raised>>

\* The handler runs to its iret; the task continues at saved or at retp.
Handle(v, soft, saved) ==
    /\ heip[v] # "end"
    /\ ~ (v \in CountedVectors /\ counter = 1)
    /\ counter' = IF v \in CountedVectors THEN Dec(counter) ELSE counter
    /\ counted' = IF v \in AOrB THEN counted + 1 ELSE counted
    /\ heip' = [heip EXCEPT ![v] = ResumesAt(v)]
    /\ hesp' = [hesp EXCEPT ![v] = @ - Pushed(v, soft) + Popped(v)]
    /\ IF v \in SilentVectors
       THEN /\ eip' = saved
            /\ UNCHANGED <<edata, raised, cpu>>
       ELSE /\ edata' = [code   |-> IF v \in PopVectors THEN v ELSE edata.code,
                         vector |-> RecordedVector(v)]
            /\ raised' = v
            /\ eip' = IF retp = NoPoint THEN eip ELSE retp
            /\ cpu' = IF retp = NoPoint THEN "wild" ELSE cpu
    /\ UNCHANGED retp

\* An exception: the saved EIP is that of the faulting instruction.
Exception(v) ==
    /\ cpu = "run"
    /\ Overrun(v) \/ CountOut(v) \/ Handle(v, FALSE, eip)

\* An int instruction: the saved EIP is that of the next instruction.
SoftInt(v, next) ==
    /\ cpu = "run"
    /\ Overrun(v) \/ CountOut(v) \/ Handle(v, TRUE, next)

-----------------------------------------------------------------------------
(* The handlers on their own, under any testcase task. *)

HInit ==
    /\ eip \in Points
    /\ retp = NoPoint
    /\ edata = [code |-> 0, vector |-> 0]
    /\ counter = CounterInit
    /\ heip = [v \in TaskVectors |-> "begin"]
    /\ hesp = [v \in TaskVectors |-> 0]
    /\ cpu = "run"
    /\ raised = -1
    /\ counted = 0

\* The task stores a return point and moves on.
TaskStep(p, r) ==
    /\ cpu = "run"
    /\ eip' = p
    /\ retp' = r
    /\ UNCHANGED <<edata, counter, heip, hesp, cpu, raised, counted>>

HNext ==
    \/ \E p, r \in Points : TaskStep(p, r)
    \/ \E v \in Vectors : Exception(v)
    \/ \E v \in SoftInts, p \in Points : SoftInt(v, p)

HSpec == HInit /\ [][HNext]_hvars

-----------------------------------------------------------------------------
(* Properties. *)

\* Type invariant of the handlers' state.
HTypeOK ==
    /\ eip \in Points
    /\ retp \in Points \cup {NoPoint}
    /\ edata \in [code : 0..19, vector : 0..19]
    /\ counter \in 0..WordMax
    /\ heip \in [TaskVectors -> {"begin", "jmp", "end"}]
    /\ hesp \in [TaskVectors -> Int]
    /\ cpu \in {"boot", "run", "hlt", "wild"}
    /\ raised \in -1..19
    /\ counted \in Nat

\* A handler gives back exactly the stack the processor's error code took
\* ("pop 0x28d00c" in the handlers of 8, 10-14 and 17), so that no number of
\* exceptions moves a handler's stack pointer.
StackBalanced == \A v \in TaskVectors : hesp[v] = 0

\* The word at 0x280000 bounds the counted exceptions: the tenth #10 or #11
\* halts the machine ("Count exception #a or #b to avoid infinite exception",
\* main.c), no earlier one does and none is delivered after it.
CountedBound ==
    /\ counted <= CounterInit
    /\ cpu # "boot" => counter = CounterInit - counted
    /\ counted = CounterInit => cpu = "hlt"

\* The recorded vector is the one that was raised ("exception info" of
\* gen_root in gen_floppy_image.py): this is what a comparison of two
\* emulators sees of an exception.
RecordsVector == raised # -1 => edata.vector = raised
=============================================================================
