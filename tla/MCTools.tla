------------------------------- MODULE MCTools -------------------------------
(* Six components of the tools that share no state: the exploration of a    *)
(* program, the memory of its machine, the order of the gadgets of an image, *)
(* the blocks they use, the generators that share a template, and the calls  *)
(* that share a cache.                                                       *)
(* "which" says which of them moves; the others stay in an initial state.    *)
EXTENDS Exploration, Template, Memory, DiskCache, FeistelBlocks

VARIABLES
    which,
    want, selecting, phase, graph, rest, fringe, seen, explored, order

gvars == <<want, selecting, phase, graph, rest, fringe, seen, explored, order>>
allvars == <<which, vars, mvars, tvars, dvars, gvars, bvars>>

CONSTANTS
    va, vb,                                 \* symbolic variables
    Targets, InputRegs, Selections, Mnemonics

Ord == INSTANCE GadgetOrder

-----------------------------------------------------------------------------
(* The programs that are explored. *)

MCVars == {va, vb}
MCSnapshot == [x \in MCVars |-> 3]
I == [MCVars -> 0..3]

cjmp(on, next) == [op |-> "cjmp", on |-> on, next |-> next]
address(vals) == [op |-> "addr", vals |-> vals]
marked == [op |-> "mark"]
conc(val, rand) == [op |-> "conc", val |-> val, rand |-> rand]

go == [x \in BOOLEAN |-> "go"]
exits == [go EXCEPT ![TRUE] = "exit"]
ignores == [go EXCEPT ![TRUE] = "ignore"]

MCPrograms ==
    << \* an early exit; an address with four values on the other branch
       <<marked,
         cjmp({x \in I : x[va] = 0}, exits),
         address(<<[x \in I |-> (x[va] * x[vb]) % 4]>>)>>,
       \* an address with three values, twice; an ignored address, then the mark;
       \* an exit
       <<address(<<[x \in I |-> (x[va] * x[vb]) % 3]>>),
         cjmp({x \in I : x[va] = 3}, ignores),
         marked,
         address(<<[x \in I |-> (x[va] * x[vb]) % 3]>>),
         cjmp({x \in I : x[va] = 2 /\ x[vb] = 2}, exits)>>,
       \* values that are concretized, where the random value is not possible
       \* on every path, and decisions that depend on them
       <<cjmp({x \in I : x[va] < x[vb]}, go),
         conc([x \in I |-> x[va]], 3),
         cjmp({x \in I : x[vb] = 3}, go),
         conc([x \in I |-> x[vb]], 1),
         cjmp({x \in I : x[vb] = 3}, go)>>,
       \* an address relative to one of two variables, then relative to one of
       \* them, then to none
       <<marked,
         address(<<[x \in I |-> x[va]], [x \in I |-> x[vb] \div 2]>>),
         cjmp({x \in I : x[va] = 3}, exits),
         address(<<[x \in I |-> x[va]]>>),
         address(<<>>)>> >>

plain == [prog |-> 1, limit |-> 4, most |-> 99, nocache |-> TRUE, nonfatal |-> FALSE,
          timeout |-> FALSE, mask |-> [x \in MCVars |-> 0], fails |-> 0, signals |-> 0]
\* The higher bits are pinned.
pins == [plain EXCEPT !.prog = 4, !.mask = [x \in MCVars |-> 2]]

MCConfigs ==
    {plain, [plain EXCEPT !.nocache = FALSE],
     [plain EXCEPT !.mask[va] = 2],
     [plain EXCEPT !.prog = 2],
     [plain EXCEPT !.prog = 2, !.limit = 2],
     [plain EXCEPT !.prog = 2, !.most = 3],
     [plain EXCEPT !.prog = 3, !.nocache = FALSE],
     [plain EXCEPT !.prog = 3],
     [plain EXCEPT !.prog = 3, !.nocache = FALSE, !.fails = 1, !.nonfatal = TRUE],
     pins, [pins EXCEPT !.signals = 1],
     [plain EXCEPT !.fails = 1, !.nonfatal = TRUE],
     [plain EXCEPT !.fails = 1, !.timeout = TRUE],
     [plain EXCEPT !.limit = 2, !.signals = 1]}

\* The gadgets, in the order of their mnemonics.
MCMnemonics ==
    <<"PDE", "GDT", "MEM", "CR0", "CS", "DS", "EAX", "EBX", "EFLAGS", "ESI", "patch_ljmp",
      "R of AL", "R of SI", "SS">>

\* Instructions, as the operands that are read and written.
reg(cls, loc, n, rd, wr) ==
    [cls |-> cls, loc |-> loc, n |-> n, rd |-> rd, wr |-> wr, disp |-> TRUE]
MCRegisters ==
    {"eax", "ecx", "edx", "ebx", "esi", "edi", "al", "eflags", "mm1", "st0", "xmm1", "xmm2"}
gpr(loc, rd, wr) == reg("gpr", loc, 1, rd, wr)
ins(regs, mems, rd, wr) ==
    [regs |-> regs, mems |-> mems, rd |-> rd, wr |-> wr, disp |-> TRUE]
through_fs(i) == [i EXCEPT !.disp = FALSE]
eax == gpr("eax", TRUE, FALSE)

MCInsns ==
    {ins(<<>>, <<>>, FALSE, FALSE),                                       \* nop
     ins(<<gpr("eflags", FALSE, TRUE)>>, <<>>, FALSE, FALSE),             \* stc
     ins(<<eax, gpr("ecx", TRUE, FALSE), gpr("edx", TRUE, FALSE)>>,
         <<>>, FALSE, FALSE),                                             \* wrmsr
     ins(<<gpr("al", TRUE, TRUE), gpr("ebx", TRUE, FALSE)>>,
         <<1>>, TRUE, FALSE),                                             \* xlat
     ins(<<gpr("edi", TRUE, TRUE), gpr("esi", TRUE, TRUE)>>,
         <<1, 1>>, FALSE, TRUE),                                          \* movs
     ins(<<eax, gpr("edx", TRUE, TRUE)>>, <<2>>, TRUE, TRUE),             \* cmpxchg8b
     through_fs(ins(<<eax, gpr("edx", TRUE, TRUE)>>, <<2>>, TRUE, TRUE)),
     through_fs(ins(<<eax>>, <<2>>, TRUE, FALSE)),                        \* bound
     ins(<<reg("mm", "mm1", 2, TRUE, FALSE)>>, <<2>>, FALSE, TRUE),       \* movq to memory
     ins(<<reg("st", "st0", 3, TRUE, TRUE)>>, <<2>>, TRUE, FALSE),        \* fadd
     ins(<<gpr("eax", FALSE, TRUE), reg("xmm", "xmm1", 4, TRUE, FALSE)>>,
         <<>>, FALSE, FALSE),                                             \* movd from XMM
     ins(<<reg("xmm", "xmm1", 4, FALSE, TRUE), eax>>, <<>>, FALSE, FALSE),\* movd to XMM
     ins(<<reg("xmm", "xmm1", 4, TRUE, TRUE), reg("xmm", "xmm2", 4, TRUE, FALSE)>>,
         <<>>, FALSE, FALSE),                                             \* pxor
     ins(<<reg("xmm", "xmm1", 1, TRUE, TRUE)>>, <<1>>, TRUE, FALSE)}      \* addss

\* Up to two testcases of any instructions; three of which two are the same.
MCImages ==
    {<<i>> : i \in MCInsns} \cup {<<i, j>> : i, j \in MCInsns}
        \cup {<<i, j, j>> : i, j \in MCInsns} \cup {<<i, j, i>> : i, j \in MCInsns}

-----------------------------------------------------------------------------

MCInit ==
    /\ which \in {"exploration", "memory", "template", "cache", "gadgets", "blocks"}
    /\ (which = "exploration" \/ cfg = pins) /\ Init
    /\ MInit
    /\ (which = "template" \/ (stage = 0 /\ kmtime = 0)) /\ TInit
    /\ (which = "cache" \/ arg = [p \in Procs |-> CHOOSE x \in Args : TRUE]) /\ DInit
    /\ (which = "gadgets" \/ (want = {} /\ selecting = {"CS"})) /\ Ord!Init
    /\ (which = "blocks" \/ image = <<ins(<<>>, <<>>, FALSE, FALSE)>>) /\ BInit

Only(w) ==
    /\ which = w
    /\ UNCHANGED which
    /\ w = "exploration" \/ UNCHANGED vars
    /\ w = "memory" \/ UNCHANGED mvars
    /\ w = "template" \/ UNCHANGED tvars
    /\ w = "cache" \/ UNCHANGED dvars
    /\ w = "gadgets" \/ UNCHANGED gvars
    /\ w = "blocks" \/ UNCHANGED bvars

ExplorationMoves == Only("exploration") /\ Next
MemoryMoves == Only("memory") /\ MNext
TemplateMoves == Only("template") /\ TNext
CacheMoves == Only("cache") /\ DNext
GadgetsMove == Only("gadgets") /\ Ord!Next
BlocksMove == Only("blocks") /\ BNext

MCNext ==
    \/ ExplorationMoves \/ MemoryMoves \/ TemplateMoves
    \/ CacheMoves \/ GadgetsMove \/ BlocksMove

\* The fairness each component states for itself.  That of the exploration is
\* written out: a step is possible as long as it runs, and only finitely many
\* of its steps are signals.
MCSpec ==
    /\ MCInit /\ [][MCNext]_allvars
    /\ []<>(which # "exploration" \/ ~Running) \/ []<><<which = "exploration">>_vars
    /\ \A g \in Generators : WF_allvars(Only("template") /\ gen_floppy(g))
    /\ \A p \in Procs : WF_allvars(Only("cache") /\ memoizable_func(p))

-----------------------------------------------------------------------------
(* The properties of the components that they do not state themselves. *)

\* Every generator ends, if only with the LockTimeout of lock in common.py.
GeneratorsEnd == (which = "template") ~> (\A g \in Generators : pc[g] \in Done)

\* Every call ends, if only with the LockTimeout of memoizable_disk.
CallsEnd == (which = "cache") ~> (\A p \in Procs : dpc[p] \in Ended)

\* The gadgets of a testcase can be sorted (sort_gadget) and, in that order, set
\* what the testcase sets and put back what they clobber, but for two cases.
StateReached == which = "gadgets" => Ord!StateReached

\* The exploration ends (exec_fuzzloop.ml leaves its loop): marking what has
\* been seen leaves less for every iteration, ignored paths and paths that a
\* signal or the solver cut short included.
ExplorationEnds == (which = "exploration") ~> ~Running
=============================================================================
