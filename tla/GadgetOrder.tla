---------------------------- MODULE GadgetOrder ----------------------------
(***************************************************************************)
(* The gadgets that bring the machine from the snapshot to the state of a  *)
(* testcase (gen_set_reg, gen_set_sreg, gen_set_creg, gen_set_mem and      *)
(* make_stable in gen_floppy_image.py), those that copy the inputs of the  *)
(* first testcase to R blocks, and the order sort_gadget gives them.       *)
(*                                                                         *)
(* A location is a register or a byte of memory; "mem*", "stack*", "pde",  *)
(* "pte", "gdt" and "patch" stand for what a gadget relies on: the data    *)
(* segment, the stack segment, the page tables and so on as they were.     *)
(* One step is one iteration of the loop of topological_sort.              *)
(***************************************************************************)
EXTENDS Naturals, Sequences, SequencesExt, FiniteSets

CONSTANTS
    Targets,     \* the locations a testcase may set
    InputRegs,   \* the names of the registers that the instruction reads
    Selections,  \* per GDT entry, the segment registers that select it
    Mnemonics    \* the gadgets' names, in the order of their mnemonics

VARIABLES
    want,        \* the locations the testcase sets
    selecting,   \* the segment registers that select its GDT entry
    phase,       \* "build", "sort", "sorted" or "failed"
    graph,       \* the dependency graph: the gadgets that follow each gadget
    rest,        \* the nodes that topological_sort is yet to look at
    fringe, seen, explored,
    order        \* order_explored

vars == <<want, selecting, phase, graph, rest, fringe, seen, explored, order>>

-----------------------------------------------------------------------------
(* Gadgets. *)

Gadget(define, kill, use, use__) ==
    [define |-> define, kill |-> kill, use |-> use, use__ |-> use__]

\* The register a name belongs to, and the one that the sets of a gadget take
\* it for: __hash__ knows the parts of EAX, EBX, ECX and EDX only.
whole(r) == CASE r = "AL" -> "EAX" [] r = "SI" -> "ESI" [] OTHER -> r
Register(r) == IF r = "SI" THEN r ELSE whole(r)

\* The R block of an input register.
Block(r) == "R of " \o r
Blocks == {Block(r) : r \in InputRegs}

gadget(n) ==
    CASE n = "EFLAGS" -> Gadget({n}, {}, {"stack*"}, {})
      [] n = "DS" -> Gadget({n, "mem*"}, {"EAX"}, {}, {})
      [] n = "SS" -> Gadget({n, "stack*"}, {"EAX"}, {}, {})
      [] n = "CR0" -> Gadget({n}, {"EAX"}, {}, {})
      [] n = "CS" -> Gadget({n, "patch"}, {}, {}, {})
      [] n = "patch_ljmp" -> Gadget({}, {"EAX", "EBX", "EFLAGS"}, {"mem*", "stack*", "patch"}, {})
      [] n = "PDE" -> Gadget({n, "pde"}, {"EAX"}, {"mem*"}, {})
      [] n = "PTE" -> Gadget({n, "pte"}, {"EAX"}, {"mem*"}, {})
      [] n = "GDT" -> Gadget({n, "gdt"}, selecting, {"mem*", "pde", "pte"}, {})
      [] n = "MEM" -> Gadget({n}, {}, {"mem*", "pde", "pte", "gdt"}, {})
      [] n \in Blocks -> Gadget({n}, {}, {}, {Register(r) : r \in {q \in InputRegs : n = Block(q)}})
      [] OTHER -> Gadget({n}, {}, {}, {})

gen_gadget(l) == IF l = "CS" THEN {"patch_ljmp", "CS"} ELSE {l}

gadgets(L) == UNION {gen_gadget(l) : l \in L}
killed(G) == UNION {gadget(n).kill : n \in G}
defined(G) == UNION {gadget(n).define : n \in G}

\* What is killed and not defined is set to its value in the snapshot.  The
\* loop returns in its first pass.
make_stable(G) == G \cup gadgets(killed(G) \ defined(G))

\* set_r = param0 + set_r
nodes == make_stable(gadgets(want)) \cup Blocks

-----------------------------------------------------------------------------
(* The order. *)

\* g1 depends on g0.
depend_Bug(g1, g0) ==
    \/ g1.define \cap g0.kill # {}
    \/ g0.use \cap g1.define # {} \/ "*" \in g1.define
    \/ g0.use \cap g1.kill # {}
    \/ "EFLAGS" \in g0.use /\ "EFLAGS" \notin g1.use
    \/ {"pde", "pte"} \cap g0.define # {} /\ "EFLAGS" \in g1.define
depend(g1, g0) ==
    \/ g1.define \cap g0.kill # {}
    \/ g0.use \cap g1.define # {} \/ "*" \in g1.define
    \/ g0.use \cap g1.kill # {}
    \/ g0.define \cap g1.use__ # {}
    \/ "EFLAGS" \in g0.use /\ "EFLAGS" \notin g1.use
    \/ {"pde", "pte"} \cap g0.define # {} /\ "EFLAGS" \in g1.define

build_dependency_graph(G) ==
    [n \in G |-> {m \in G \ {n} : depend(gadget(m), gadget(n))}]

\* Every node is above nodes that are acyclic already.
is_directed_acyclic_graph(g) ==
    LET above[k \in Nat] ==
            IF k = 0 THEN {} ELSE LET S == above[k - 1] IN {n \in DOMAIN g : g[n] \subseteq S}
    IN  above[Cardinality(DOMAIN g)] = DOMAIN g

in_order(S) == SelectSeq(Mnemonics, LAMBDA n : n \in S)

Init ==
    /\ want \in SUBSET Targets
    /\ selecting \in Selections
    /\ phase = "build"
    /\ graph = <<>>
    /\ rest = <<>>
    /\ fringe = <<>>
    /\ seen = {}
    /\ explored = {}
    /\ order = <<>>

\* The graph, and the assertion at the beginning of topological_sort.
build ==
    /\ phase = "build"
    /\ graph' = build_dependency_graph(nodes)
    /\ phase' = IF is_directed_acyclic_graph(graph') THEN "sort" ELSE "failed"
    /\ rest' = in_order(nodes)
    /\ UNCHANGED <<want, selecting, fringe, seen, explored, order>>

\* The next node of the graph, unless it was explored.
next_node ==
    /\ phase = "sort"
    /\ fringe = <<>>
    /\ phase' = IF rest = <<>> THEN "sorted" ELSE phase
    /\ rest' = IF rest = <<>> THEN rest ELSE Tail(rest)
    /\ fringe' = IF rest = <<>> \/ Head(rest) \in explored THEN <<>> ELSE <<Head(rest)>>
    /\ UNCHANGED <<want, selecting, graph, seen, explored, order>>

\* The last node of the fringe: its successors, or itself when it has no more.
depth_first ==
    LET w == Last(fringe)
        new == graph[w] \ explored
        pop == Front(fringe)
    IN  /\ phase = "sort"
        /\ fringe # <<>>
        /\ seen' = IF w \in explored THEN seen ELSE seen \cup {w}
        /\ phase' = IF w \notin explored /\ new \cap seen' # {} THEN "failed" ELSE phase
        /\ IF w \notin explored /\ new = {}
           THEN explored' = explored \cup {w} /\ order' = <<w>> \o order
           ELSE UNCHANGED <<explored, order>>
        /\ fringe' = IF w \in explored \/ new = {} THEN pop ELSE fringe \o in_order(new)
        /\ UNCHANGED <<want, selecting, graph, rest>>

Next == build \/ next_node \/ depth_first

Spec == Init /\ [][Next]_vars

-----------------------------------------------------------------------------
(* What the sorted gadgets do. *)

\* The values of the locations after the gadget n ran in the values v.
run(v, n) ==
    LET g == gadget(n)
    IN  [l \in DOMAIN v |->
            CASE l \in g.define \cap Blocks -> v[whole(CHOOSE r \in InputRegs : l = Block(r))]
              [] l \in g.define \ Blocks -> IF l \in want THEN "wanted" ELSE "snapshot"
              [] l \in g.kill \ g.define -> "junk"
              [] OTHER -> v[l]]

Locations == Targets \cup selecting \cup {"EAX", "EBX", "EFLAGS"}

final == FoldLeft(run, [l \in Locations \cup Blocks |-> "snapshot"], order)

\* What the gadgets that make_stable added kill for good.
lost == killed(nodes) \ defined(nodes)

\* The gadgets can always be sorted (the assertion of topological_sort), each
\* comes once, none relies on what an earlier one has changed, and they set
\* exactly the wanted locations: what one of them clobbers on the way is put
\* back, and an R block receives the input that the instruction will see.  There
\* are two exceptions.  What a gadget added by make_stable clobbers is lost,
\* because its loop ("Need one or more extra passes") ends after the first.  And
\* SI is not known to be a part of ESI (Register.__hash__): its R block is
\* filled before ESI is set.
StateReached ==
    /\ phase # "failed"
    /\ phase = "sorted" =>
         /\ ToSet(order) = nodes /\ Len(order) = Cardinality(nodes)
         /\ \A i \in 1..Len(order) : \A j \in 1..(i - 1) :
               gadget(order[i]).use \cap gadget(order[j]).define = {}
         /\ \A l \in Locations :
               final[l] = IF l \in want THEN "wanted"
                          ELSE IF l \in lost THEN "junk" ELSE "snapshot"
         /\ \A r \in InputRegs : whole(r) \notin lost =>
               final[Block(r)] = IF Register(r) = whole(r) THEN final[whole(r)] ELSE "snapshot"
=============================================================================
