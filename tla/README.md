# Fast PokeEMU in TLA+

Fast PokeEMU compares an emulator (QEMU) with real hardware (KVM) by running
the same small programs on both and comparing the final machine states.  Its
tests come from symbolic exploration (FuzzBALL); many tests are *aggregated*
into one program, which has to survive the exceptions its own tests raise and
must not lose, on the way, the differences it exists to find.  This directory
holds TLA+ models of the parts where that is decided, the TLC runs that check
them on small instances and the TLAPS proofs of the properties that matter most.

## The system

| Part | State | Operations | What is hard | What makes it correct |
|---|---|---|---|---|
| Kernel: boot (`Kernel/loader.c`, `boot.S`, `main.c`, `tss.c`) | GDT, IDT, page tables, one TSS per exception | set-up, `switch_to_testcase_task` | order of set-up, the switch into the program | the program starts in the snapshot's state |
| Kernel: exception handlers (`Kernel/interrupts-mod.c`) | per handler EIP and ESP in its TSS, `edata`, the word at 0x280000 | one handler per vector, entered through a task gate | the handler's own TSS survives between deliveries; error codes; endless faults | entered at its first instruction, stack balanced, bounded, records what happened |
| Test generator: program layout (`gen_floppy_with_testcase`, `compile_gadgets`, `gen_prologue`) | seven segments per testcase, labels, return points | emit segments in four modes | an exception may come from any gadget | control goes forward, each testcase is cleaned up |
| Test generator: Feistel blocks (`gen_root`, `handle_*`, `gen_feistel_cipher`) | addresses of L, R, R's copy, backups | allocate, combine, carry over | differences must neither cancel nor be invented | one comparison at the end stands for one per test |
| Test generator: gadget order (`Gadget.depend`, `topological_sort`, `make_stable`) | dependency graph | build, sort | the order of unrelated gadgets is decided by their mnemonics | the state that was asked for, and nothing else changed |
| Test generator: address allocation (`get_addr`, `flip_addrs`) | `next_addr`, block lists, `PG` | allocate, move on paging changes | random picks, aliasing | blocks are disjoint |
| Test generator: images (`gen_floppy_template`, `patch_kernel`, `gen_floppy`) | template on disk, a lock | create or reuse, patch | two generators at once, crash between steps | every image is complete |
| Test execution (`emu/kvm-run/kvm.cc`, `scripts/run_test_case.py`, `emu/*`) | VM, output file | run loop, time-out, kill | a time-out racing the end of the test | a dump or a failure, never half of one |
| Result comparison (`scripts/diff_cpustate.py`, `cpustate_x86.py`, batch scripts) | two dumps | compare, classify | incomplete dumps, exit codes | a difference is reported |
| Caches (`scripts/memoizable.py`, `common.py`) | dictionary on disk, a lock file | look up, store, clear | lock time-out, crash | never a wrong value |
| Exploration (`tools/emuFuzzBall`, `tools/fuzzball/execution`) | decision tree, path condition | extend, query, mark seen | copies of nodes, limits, solver failures, signals | every feasible path once |
| Memory of the explored machine (`granular_memory.ml`) | three layers of chunks | load, store, snapshot, reset | cells split and joined, unaligned accesses | one flat memory |

The parts meet in three places.  The generator emits a program whose gadgets
store *return points* in memory, and the kernel's handlers send the program
there after an exception.  The kernel brackets the program with `int $0x1e`
and `hlt`, at which QEMU saves the initial and the final state, and KVM starts
from the former.  The scripts turn the two final states into lists of matching
and differing tests, from which the next, aggregated, run is made.

## Modules

| Module | Models | Composition |
|---|---|---|
| `Handlers` | the exception handlers and their task gates | – |
| `Layout` | the text of a program: segments, labels, order of gadgets | – |
| `Testcase` | a program executing, gadget by gadget, with exceptions | extends `Handlers`; its constant `Image` is what `Layout` builds |
| `Flow` | where control may come from, exceptions included, and what the text of a program therefore guarantees | extends `Testcase` |
| `InsnFaults` | `Testcase` with exceptions in the tested instruction and in undoing its parameters only, and the inductive invariants on blocks, operands and rounds | extends `Flow` |
| `FeistelPair` | the Feistel blocks of two machines | – |
| `Pipeline` | what a campaign promises: one right result per test, or none | – |
| `Campaign` | one instruction's tests on QEMU and KVM, files, deadlines, lists | implements `Pipeline` |
| `GadgetOrder` | the gadgets that set a testcase's state, `make_stable` and the sort | – |
| `FeistelBlocks` | the addresses the Feistel gadgets of an image use | – |
| `Template` | the floppy template and the images made from it, under a lock | – |
| `DiskCache` | memoized calls that share a file, under a lock | – |
| `Enumeration` | what an exploration promises: the feasible paths, each once | – |
| `Exploration` | decision tree, solver queries, loop over paths, tests written | implements `Enumeration` |
| `FlatMemory` | a memory: bytes, a snapshot, a reset | – |
| `Memory` | the layers and cells of the explored machine's memory | implements `FlatMemory` |
| `MCTools` | six components of the tools side by side | extends `Exploration`, `Template`, `Memory`, `DiskCache` and `FeistelBlocks`, instantiates `GadgetOrder` |
| `CampaignProofs`, `InsnFaultsProofs`, `MemoryProofs` | theorems about the module of that name | extend it and `TLAPS` |
| `TestcaseProofs` | theorems about `Handlers` and `Testcase` | extends `Flow` |
| `ToolsProofs` | theorems about `Exploration`, `Template` and `DiskCache` | extends these three |
| `FeistelProofs` | theorems about `FeistelPair`, lemmas about the lists of `FeistelBlocks` | extends both |
| `OperandProofs`, `BlocksProofs` | the invariant of `FeistelBlocks` and what one operand does; its steps and the theorem | each extends the one before |
| `MC*` | constants for TLC | extend the module, and `Layout` |

**Handlers.**  `heip` and `hesp` are the EIP and ESP fields of each handler's
TSS, which survive from one delivery to the next; `retp`, `edata` and `counter`
are the words at 0x28d008, 0x28d00c and 0x280000.  A delivery is one step
(`Handle`, `CountOut` or `Overrun`), since handlers have interrupts masked and
page tables of their own.  The tables (`PopVectors`, `RecordedVector`, ...) are
the handlers' texts: which one pops, counts, records what.  `cpu = "wild"` is
execution at an address nobody stored.

**Layout and Testcase.**  A gadget of the generator is a record with its kind,
its segment, its testcase and its target; `Effect` has one disjunct per kind.
`Execute` completes a gadget; `Fault` raises an exception in it, before or after
it has had its effect.  A Feistel block is abstracted to the set of executions
whose outcome has been combined into it; `regs` and `bak` say what the operands
and their backups hold, and `state` which testcase a parameter was set by.
`round` and `prevR` are history.  The order of gadgets within `pre` is that of
`topological_sort` on the present mnemonics.  In the Feistel modes the tested
instruction is taken to have an input (`setinput` is not empty), and `LOOP` to
be at least 1.

**Flow and InsnFaults.**  These add no state.  `Flow` computes from the text of
a program which return points may be in force at a gadget that can fault
(`InForce`, `Catches`), hence where control may enter from elsewhere
(`Entries`), hence which gadget has executed last before another (`Latest`).
`InsnFaults` labels every gadget with what holds when control is there: `Phase`
for the blocks, `Held` for the operands.  `MCInsnFaults` computes the labels for
the program of the run.

**FeistelPair.**  One step is a whole execution on both machines.  Blocks are
words under an abstract `Xor` of which only injectivity is assumed.  `Agree`
lets both machines compute the same function of their inputs, `Deviate` lets
them differ.

**Campaign.**  The scripts run in sequence, so there is one program counter;
what is concurrent is the emulator and the clock.  `deadline` may come at any
point of a script, and `child_killed` or `kvm_ended` then stop it wherever it
is, between two `mv` commands too.  `save_pre`, `save_post` and `qemu_dies` are
QEMU's side, the `kvm_*` actions the exits of `kvm.cc`.  `final` and `cut` are
history: what the emulators really did.  `Star` is the unexpanded pattern a
shell loop visits if nothing matches.  `Init` allows any results of an earlier
campaign in the output directory.  `todo` is the set of tests a loop has still to
visit; `test` takes the first of them in the order of `TestList`.  `Pipeline` has
no scripts and no files: QEMU and KVM come to final states, a test is judged or
dropped, and at the end a conclusion is drawn.  Under the mapping (`Result`) a
test is pending until `compare` has seen it or `publish` finds no `.pre` file.

**GadgetOrder.**  A gadget is the record of what it defines, kills and uses;
"mem*", "stack*", "pde" and so on are the source's names for what a gadget
relies on.  `want` is the set of locations a testcase changes, and `nodes` what
`make_stable` and the copies of the inputs make of it.  `next_node` and
`depth_first` are the two loops of `topological_sort`.  `run` executes a gadget
on symbolic values (as in the snapshot, as wanted, clobbered), from which
`StateReached` judges the sorted sequence as a whole.

**FeistelBlocks.**  An image is a sequence of instructions, each the sizes and
kinds of its operands, registers with names from `Registers`; `blocks` holds the five lists of addresses and
`next_addr`, counted in words.  `handle_op` has one action per handler and
operand, `gen_root` is what follows the operands, `gen_set_creg` and
`next_testcase` move the addresses when a testcase turns paging off and back.
An index behind the end of a list, or the assertion of `get_addr`, ends the
generation (`failed`).  `uses` is history: which words the emitted gadgets touch,
for which word of which operand.  `Fits` and `Taken` say the same in closed form,
from the operands alone.

**Template and DiskCache.**  One step is one command or file operation, so that
processes interleave between any two of them.  A process may be killed at every
point, a command or the memoized function may fail, and the kernel or the code
may change.  Time is the order of modification times; a lock attempt may time
out whenever the lock is held.  A lock file outlives its owner.

**Exploration and Enumeration.**  A program is a sequence of decisions over
small inputs: conditional jumps, symbolic addresses, and concretizations.  A
condition is the set of inputs that satisfy it, `path_cond` the set of the
conditions recorded so far; it begins with the `-extra-condition`s, by which
`run-emu-fuzzball.py` pins the bits of a byte that its mask excludes.  An address
is relative to a symbol (`sym_region_frag_machine.ml`): with two candidates the
base is itself a decision, the offset is decided bit by bit and then replaced by
one equation, an offset that was picked before on the path is reused, and an
address without a base ends the path.  `nodes` is the table of the decision tree and `cur` the
copy the machine holds; a node's children may be unknown, known or
unsatisfiable, as in the source.  `try_extend` follows the table of cases in
`binary_decision_tree.ml`, `mark_all_seen_node` and `count_query` the recursion
through parents and queries.  The solver answers with any model of the condition
or, in some configurations, fails; the cache of counterexamples answers before
it.  `finish_path` writes the test (`assemble_testcase`), marks what has been
seen and starts the next iteration.  What was recorded before the address of
`-ignore-pc-till` (`mark_ignored`) is pruned from the conditions the test is
refined under, and with it always the `-extra-condition`s.  SIGUSR1 may come
between two decisions, in a query, or after the tree was extended and before the
condition was recorded (`cut`).  The refinement mapping takes a path to the
class of inputs that follow it: `Enumeration` writes a class at most once, and
ends complete only when every feasible class was written or the configuration
allows losses (branch limit, path limit, solver failure, signal).  A `cut` path
is the one exception: its test stands for more inputs than are left, though not
for seen ones only.

**Memory and FlatMemory.**  A chunk of eight bytes is a tree whose leaves are
values of 1, 2, 4 or 8 bytes, or absent; a load that finds smaller leaves joins
them, a store into a larger one splits it.  The code has one function per size of
tree and of access; here `get_half` and `put_half` make those of one size from
those of half of it (`gran64_get` from `gran32_get`, and so on).  What a layer
does not have it asks of the layer below (`missing`), and a load keeps the answer
in the tree: a load changes the tables.  The loads have that question as a
parameter, as in the code (`gran8_get_byte` to `gran64_get_long`, lines 46-165 of
`granular_memory.ml`; `with_chunk`, 509-521; `maybe_load_divided` and
`maybe_load_byte` to `maybe_load_long`, 291-328), so that both layers share them.  The mapping takes the three layers to
the bytes a load would return, the uppermost layer that has a byte first.

## Runs

| Run | Question | Result |
|---|---|---|
| `handlers` | do the handlers keep stack, entry point and counter under any task? | holds |
| `any_faults` | looping Feistel program, any gadget but the stores may fault: forward only, and an end? | holds |
| `store_faults` | every gadget may fault: is the tested instruction ever half prepared, can control get lost? | never; only in the first prologue |
| `simple_mode` | simple aggregation: are parameters undone between testcases? | holds |
| `insn_faults` | the tested instruction, or undoing its parameters, may fault: is anything lost between testcases? | no |
| `feistel_pair` | does one comparison at the end stand for one per test? | yes, if every test covers the blocks |
| `campaign` | do lists, selection and verdict tell what the emulators did; is a test judged once and rightly, as `Pipeline` demands; does it end? | yes |
| `tools` | six components, each on its own: is every path explored once and does it end; is the memory flat; does the sort reach the state; do operands have blocks of their own; are images complete; are memoized values right and does every call end? | holds, with the exceptions the properties name |
| `records_vector` | does a handler record its own vector? | **no**: 12 records 11, 15 records 10 with paging on |
| `stale_copy` | exception in `pre`: is L still the previous R? | **no** |
| `stale_label` | exception early in a later iteration: does the loop run out? | **no** |
| `preferred` | does a test that was written follow its path? | **no**: its bytes are refined one by one, even for the conditions behind the mark |

What the properties say in detail is at their definitions.  The last four runs
are expected to fail; each has an entry under `findings` in `PROJECT.json` with
the line it contradicts.

**Bounds.**  Two testcases (three in `simple_mode`) and two iterations give
every kind of transition: first to later testcase, iteration to iteration,
testcase to testcase, testcase to end.  One parameter is set before and one
after the copy of R, the only distinction the order makes.  The vectors are
representatives: 0 without and 13 with an error code, 10 counted, 5 silent; the
`handlers` run has more of them.  `WordMax = 1000` stands for 2^32 - 1: nothing
depends on it but the wrap-around of `decl`.  `feistel_pair` has two blocks of
one bit, with instructions that combine one or both.  `campaign` has two tests,
so that one test's files can be mistaken for the other's, and two values of each
part of a state.

`tools` chooses in its initial state which component moves (`which`); the others
keep one initial state, so the run is the sum of six state spaces and not their
product, and nothing is shared that could be missed.  The exploration has four
programs of up to five steps over two variables of two bits, under fourteen
configurations: branch limits below and at the number of values, path limit,
with and without the cache, with and without pinned bits, one solver failure
(fatal, with or without a time limit, and not fatal), one signal.  Programs of
this size have a query inside a query, a value only reached through the other
branch, a random value that is not feasible, an offset that is picked twice, a
choice of two bases, and conditions on both sides of the mark.  A byte all of
whose bits are masked is concrete in the scripts and is not a variable.  The
memory has two chunks of eight bytes, as in the code, accesses of 1, 2, 4 and 8
bytes at an aligned address and at an unaligned one, from where they reach into
the next chunk, two stores, two loads and a reset in any order.
`GadgetOrder` has all subsets of ten locations, one of each kind of gadget, with
the descriptor of CS and that of DS and SS.  `FeistelBlocks` has fourteen instructions: with more
inputs than outputs and fewer, with registers of one to four words, memory
operands of one and two words, two of them, read, written and both, and operands
through `fs` without a displacement.  Every pair
of them is an image, and every pair with one of the two repeated; 44 words are
enough for most images and too few for some.  Two generators and two rebuilds of
the kernel, three calls with two arguments, one edit and a cache of one entry
are the least in which a third party finds what two others left.

**Fairness.**  `any_faults` assumes `WF_vars(Next)`: the processor goes on
executing.  `Terminates` leaves out vectors 2 and 5, whose handlers return to the
faulting instruction.  BOUND is among the tested instructions, so a program that
raises 5 at one place for ever is possible; only the deadline of the test ends
it.  `Campaign` assumes that scripts go on and that time passes; it
assumes nothing of the emulators, which may hang.
In `tools` every generator and every call goes on as long as it can, which
includes the time-out of a lock; nobody has to release one.  The exploration is
one process: it takes steps as long as it is running.

**Deadlock** is not checked in the runs of programs and handlers, where a halted
or lost machine does nothing more; `Campaign` is checked for it.

**Exceptions found.**  Besides the failing runs, these properties state what the
code does where one would expect more:

* `StateReached`: what a gadget that `make_stable` added clobbers stays
  clobbered.  A testcase that changes the descriptor of DS gets a gadget that
  reloads DS through EAX; unless the testcase needs EAX anyway, it runs with
  another EAX than it should.  And the R block of an input `si`, `di`, `bp` or
  `sp` is filled before the register is set, because only the parts of EAX to
  EDX are known as parts.
* `BlocksFit`: a testcase that needs more blocks than the first one ends the
  generation with an index error, and every later testcase with an input in
  memory takes addresses it does not use.  The tests of one instruction have one
  shape, so a campaign does not meet the former.
* `OperandsApart`: XMM registers are moved whole.  One whose operand is shorter
  (`addss`), or whose output lies over R blocks that were not taken together
  (`movd` from EAX), reads and overwrites the words behind its block, the backup
  of an input among them.  Of an output in memory that is not an input only the
  first word is backed up and restored, because the test for an earlier backup
  names the operand and not the word.  And a memory operand through `fs` without
  a displacement (`bound eax, fs:[eax]`) has the same text for each of its words,
  by which backups are looked up: its later words are neither backed up nor taken
  into the cipher.  `OperandsRestored` is about operands without these three
  cases.  Of an MMX register only the low word is ever moved
  (`movd`), so the upper half of an MMX output is in no block and
  `CoverAssumption` does not hold for it.
* `ImagesBootableIfQuiet`: the template is read after its lock was released; if
  the kernel is rebuilt at that moment, the image may be incomplete.
* `IncompleteLocked`, `StuckForGood`: a process that dies with a lock leaves it
  locked until somebody removes the file.  That is also what protects the others
  from the incomplete template.
* `EachValueFollows`: the conditions before the mark are pruned before a test is
  refined, so a refined value is only claimed to satisfy those behind it.  For
  the `-extra-condition`s this is harmless (`PinnedBitsKept`): refinement moves
  bits towards the snapshot's values, which are the ones they pin.
* `EnumeratesPaths`: after a SIGUSR1 between a decision and the record of its
  condition, the test is written for the shorter path condition, so inputs that
  were seen before may be among those it stands for.
* `StaysFeasible`: SIGUSR1, or a solver failure that is not fatal inside a
  concretization, ends a path at a node with an untried child, where an
  assertion of the marking fails and the exploration ends.

## Proofs

All theorems are for arbitrary constants under the named assumptions, which TLC
evaluates on the constants of the runs.

| Module | Theorem | States |
|---|---|---|
| `TestcaseProofs` | `HandlersCorrect`, `StacksBalanced` | `CountedBound`, `StackBalanced` |
| | `Typing`, `AlwaysReturnPointAhead`, `NeverWild` | `TypeOK`, `ReturnPointAhead`, `WildOnlyAtStart` |
| | `BackOnlyInLoop` | `OnlyLoopGoesBack`, if no store of a return point faults |
| | `AlwaysPrepared` | `InsnPrepared` |
| | `AlwaysUndone`, `AlwaysExhausted` | `ParamsUndone` under `Undoes`, `LoopExhausted` under `Exhausts` |
| `InsnFaultsProofs` | `NoOutcomeLost`, `PreviousRKept`, `AlwaysRestored` | `OutcomesKept`, `LHoldsPreviousR`, `OperandsRestored` |
| | `InsnParamsUndone`, `InsnLoopExhausted`, `AlwaysFixedRuns` | `ParamsUndone`, `LoopExhausted`, `FixedRuns` |
| `FeistelProofs` | `KeepsDifference` | `DifferenceKept` |
| `BlocksProofs` | `BlocksOfImage` | `BlocksFit` |
| `CampaignProofs` | `CampaignTyping`, `PublishedComplete`, `ListsTruthful`, `ListedOnce`, `NoTestLost`, `AggregationExact`, `MatchesTruthful` | `TypeOK`, `PostComplete`, `LogsSound`, `LoggedOnce`, `EveryTestListed`, `ListExact`, `VerdictRight` |
| | `ImplementsPromise` | `ImplementsPipeline`: `Campaign` implements `Pipeline` |
| `MemoryProofs` | `LayersHold`, `LoadsReturnBytes` | `MInv`, `LoadsRight` |
| | `LayersAreFlat` | `BehavesAsFlat`: `Memory` implements `FlatMemory` |
| `ToolsProofs` | `TestValuesFollow` | `EachValueFollows` |
| | `IncompleteIsLocked`, `ImagesBootable` | `IncompleteLocked`, `ImagesBootableIfQuiet` |
| | `OneOpensCache`, `CallsReturnOwn`, `DeadOwnerIsFinal` | `OneInCache`, `ReturnsOwn`, `StuckForGood` |

**Handlers** (`TestcaseProofs`).  `HTypeOK`, `StackBalanced`, `CountedBound` and `EntersAtBegin` are
together inductive.  `EntersAtBegin`, that no handler of an exception rests
behind its `iret`, is an auxiliary fact that the proofs about programs need.  Assumes that no `int` instruction names
a vector with an error code (`HandlersAssumption`).

**Control of a program** (`TestcaseProofs`).  For any program of the generator's
form (`TargetsAssumption`: stores and jumps go forward, only the loop back;
`LabelsAssumption`: a label is the place of a store or of the end;
`LoopAssumption`: the loop gadget is behind a store of the label behind it) and
faults anywhere.  `ReturnPointAhead` is not inductive, because after `jump to
post` the return point is behind.  The invariant `Control` adds that every label
is such a place, that the first store is the first gadget and that handler 32 is
entered once.  `OnlyLoopGoesBack` says that a step back uses up the counter, so
it needs in addition that the counter is positive inside a testcase
(`CountLive`), for which at the loop gadget the return point must be the one
behind it (`LoopReturn`).  It fails if a store of a return point may itself
fault, hence the hypothesis `NoStoreFaults`.

**What precedes a gadget** (`TestcaseProofs`).  `InsnPrepared`, `ParamsUndone`
and `LoopExhausted` say that certain gadgets were executed, which no exception
may have skipped.  The argument has three layers.  `Labelled`: the return point
in force is that of a store in `InForce`, so a handler returns to a member of
`Entries` only (lemma `FaultEnters`).  `LastWrites`: if control at a has come
straight from b and no gadget between the two writes what b wrote, it still has
b's value at a.  `Fresh`: nothing has been executed when control is at the first
gadget.  What remains is a condition on the text of the program:
`PreparedAssumption` for every program, and `Undoes` and `Exhausts` as
hypotheses, since they depend on which gadgets may fault.  In the run
`stale_label` some may for which `Exhausts` is false, and the property with it.

**Rounds** (`InsnFaultsProofs`).  `OutcomesKept`, `LHoldsPreviousR`,
`OperandsRestored` and `FixedRuns` speak of the points between testcases.
`BlocksInv` says for every gadget, by its *phase*, where the outcomes are (in L
and R; also in the copy; in R and the copy); `HeldInv` what the operands and their
backups hold; `RoundInv` how many rounds have been counted, from the testcase,
the counter and the phase.  An exception in the tested instruction stays in its
phase and testcase (`SamePhase`), because the segments that can fault begin with
a store of a return point of the same phase (`SegmentsAssumption`).
`PhaseAssumption`, `HeldAssumption` and `TestsAssumption` say which gadgets may
follow which.  The six theorems then hold for any number of testcases,
parameters and iterations.

**Feistel pair.**  A round is an injective function of the pair (L, R) when both
machines compute the same function, hence equal after means equal before.
`CoverAssumption` is needed: a block that a testcase leaves alone loses its L.

**Blocks of an image** (`FeistelProofs`, `OperandProofs`, `BlocksProofs`).  For
any instructions with operands of any number and size, any number of testcases,
any number of words and paging turned off in any of them.  `BlocksFit` compares
the end of the generation, or its failure, with the closed form `Fits` and
`Taken`, and says nothing on the way.  The invariant, also called `BlocksInv`,
says where the generation stands after any number of operands: the counters, the
lengths of the five lists and `next_addr` as sums over the operands handled so
far (`Counted`, `Lengths`), that what is left is the rest of the operands
(`Remaining`), that everything handled found its blocks (`Found`), and that the
lists hold addresses below `next_addr`, each once (`Fresh`).  The last is stated
of the lists as they are for paging on (`Paged`), because `flip_addrs` leaves
`feistel_out` alone, so that with paging off the five lists are not comparable;
flipping twice gives the lists back (`FlipTwice`).  The first testcase
makes blocks and a later one looks them up, so `Lengths` has a form for each
(`Making`, `Looking`).  A failure must show that the image does not fit: the
operand at hand needs a position that the first testcase did not make, or the
sums so far exceed the words, and sums only grow (`NoFit`, `NoRoom`).  The
assumptions are that an operand has at least one word and that the words lie
below the bit that `flip_addrs` changes (`ImagesAssumption`, `WordsAssumption`).

**Campaign.**  For any set and list of tests without repetition, any results of
an earlier campaign, any deadlines and any behaviour of the emulators.  None of
the properties is inductive: what a list says is what two files said when they
were compared, and the files are renamed, overwritten and removed by scripts
that may be killed in between.  `IInv` ties them together: where a script can
be in each phase (`Scripts`), which files of a test exist and which run they
stem from while QEMU's and while KVM's loop is on (`QemuFiles`, `KvmFiles`),
that the lists hold the tests that left the loop uncut (`Lists`), and what the
last script leaves (`Outcome`).  That the lists are no longer than the list of
tests is a matter of cardinality: they have no repetitions and are disjoint.
The refinement needs `RunsOnce` besides: an emulator comes to a final state of a
test at most once, and KVM runs only what QEMU has finished.  Then every step of
a script is a step of `Pipeline` or changes nothing there: `save_post` is
`QemuEnds`, `publish` drops all tests without a `.pre` file at once, `compare`
judges or drops, `simpleTest` concludes.  `ListExact` is part of it and not
checked by a run of its own.

**Template.**  For any number of generators and rebuilds.  `IncompleteLocked` is
not inductive: that nobody enters with a half-built file needs the place of the
owner (building, failed or killed), and `ImagesBootableIfQuiet` needs that
whoever builds has found the template outdated, so that nobody else is about to
read a complete one.  `TInv` is the conjunction of the two arguments with the
types.  The hypothesis is that `NoOwner` is no generator.

**Disk cache.**  `DInv` adds to `OneInCache` that every entry of the file is a
value of its own key and every value held by a call one of its own arguments;
`StuckForGood` follows because whoever touches the file owns the lock.  The
hypothesis is that `NoProc` is no process.

**Memory.**  For any number of chunks, any accesses of 1, 2, 4 and 8 bytes inside
them and any number of stores, loads and resets.  A load is several loads, each
of which may rebuild trees in two layers before the next part is looked up, so
"returns the right bytes" is of no use by itself: the lemmas say of every
function at once what it returns, that the tree or the table it leaves is well
formed (`Good`), and that over the layer below it shows the same bytes.  They go
up from the leaf (`BaseGet8`) through the four sizes of tree to a table, once
with the concrete bytes below (`Base...`) and once with the inner layer below
(`Inner...`), which is itself changed by being asked; then through the loads in
two parts.  The stores have a chain of their own (`Store1` to `Store8`).  `MInv`
says that the tables are well formed, that the layers that are not in use are
empty, and that below the outer layer are the bytes of the snapshot (`saved`).
The last is what makes `reset` right, and it is not obvious: loads of a path do
change the inner layer, which `reset` leaves alone.

**Tests of an exploration.**  For any programs, options, answers of the solver,
failures and signals.  `compute_preferred_value` flips one bit after another; that
the value at the end keeps to the path is an induction over the bits.  The
induction theorems of the library take an operator as a parameter, which the
provers cannot instantiate; `SetInduction` states the same for a set of numbers
and is proved from the well-foundedness of `<`.  With it the recursive function
is shown to exist (`RefinementExists`) and to stay in the conditions it is given
(`RefinementFollows`).  These are the pruned ones: a counterexample of the whole
path condition satisfies them (`PruningKeepsAnswers`), and a variable that occurs
in none of them may take any value (`AssembledFollows`).

**Only model-checked:**

* liveness: `Terminates`, `CampaignEnds`, `ExplorationEnds`, `GeneratorsEnd`,
  `CallsEnd` (fairness and `ENABLED` are out of the provers' reach);
* the decision tree: `StaysFeasible`, `CopiesInSync`, `QueryCounts` and the
  refinement `EnumeratesPaths`.  The marking goes up through parents and queries
  and down again in a table that it changes on the way; that it ends rests on the
  tree being one, so the recursive functions are defined for the tables that
  occur and not for all.  Stating on which ones, and what they return there,
  would be the greater part of a proof that we do not have;
* `StateReached`: it is about what a sort computes from a sequence, by recursion;
* `OperandsApart`: it needs, besides `BlocksInv`, which addresses every list holds
  at every position, since it speaks of the words next to the one a gadget names.
  That would be the closed form of the allocation itself, not of its length;
* that the program `Layout` builds for a given number of testcases satisfies the
  assumptions on programs: it is built by recursion over the testcases, so TLC
  evaluates the assumptions on the programs of the runs.  A mistake in the
  generator that breaks one of them shows as a false assumption before any
  behaviour is explored.

## Not modelled

The set-up of descriptor tables and paging is straight-line code; the models
start from its result.  Operand decoding (`gen_root`'s use of XED) is an input of
`FeistelBlocks`.  The random addresses of `get_addr`, for scratch words, are left
out: whether one meets a block is a matter of probability.
Running times, console output, and the drivers of version bisection carry no
state the properties speak of.  Of the exploration, the concolic and memoryless
modes, the branch heuristics, the depth limit and the tree in a file are left out;
the scripts do not use them.  Addresses with more than two candidates for the base
(the same decision, repeated) and sink regions are left out as well.  Load hooks (`set_load_hook`) are stored and never called, so there is
nothing to model.  The rest of FuzzBALL, Vine, STP and Bochs are
vendored and by far the largest part of the repository: instruction semantics,
expression rewriting and solver protocols, whose state is that of a processor or
of a bit-vector logic.  No finite instance of them would be faithful and small.

## Plan

1. `Campaign`: a second KVM phase on the same directory, two campaigns at once
   (`rm -rf /tmp/tmp.*`).
2. `Layout` in a form without recursion, so that the assumptions on programs
   become theorems about it; its order derived from `GadgetOrder`, with the
   gadgets of `pre` and `post`.
3. `FeistelBlocks` with the contents of the words, so that an overlap shows in
   what `FeistelPair` compares.
4. `Testcase` as a refinement of `FeistelPair` on one machine.
