---------------------------- MODULE Exploration ----------------------------
(***************************************************************************)
(* The exploration of all paths of one instruction: FuzzBALL's decision    *)
(* tree (binary_decision_tree.ml), the decisions that extend it            *)
(* (sym_path_frag_machine.ml), the loop over paths (exec_fuzzloop.ml) and  *)
(* the tests written at the end of a path (emu_fuzzball.ml).               *)
(*                                                                         *)
(* A symbolic condition is the set of inputs that satisfy it, and a path   *)
(* condition the set of the conditions recorded so far.  The solver        *)
(* decides whether any input satisfies them all; it may fail.  The program *)
(* under exploration is a sequence of steps that depend on the input.      *)
(*                                                                         *)
(* The nodes of the tree live in a table; "cur" and "cur_query" are        *)
(* decoded copies of two of them, which the code changes and writes back.  *)
(***************************************************************************)
EXTENDS Integers, Sequences, FiniteSets, FiniteSetsExt

CONSTANTS
    Vars,        \* the symbolic variables
    Bits,        \* bits of a variable (8 in the code)
    AddrBits,    \* bits of an address (32 in the code)
    Snapshot,    \* the value of each variable in the snapshot
    Preferred,   \* the variables with -preferred-value, that of the snapshot
    Programs,    \* a sequence of programs
    Configs      \* the configurations: a program and options

Inputs == [Vars -> 0..(2^Bits - 1)]

ASSUME BitsAssumption == Bits \in Nat
ASSUME SnapshotAssumption == Snapshot \in Inputs

\* A configuration is a record of
\*   prog      which program; a program is a sequence of steps
\*   limit     -query-branch-limit
\*   most      -paths-limit
\*   nocache   -disable-ce-cache
\*   nonfatal  -nonfatal-solver
\*   timeout   can -total-timeout expire?
\*   mask      the bits of each variable that an -extra-condition pins
\*   fails, signals   how often the solver fails, how many signals arrive
\* and a step is one of
\*   [op |-> "cjmp", on |-> the inputs that take the branch, next |->
\*    [BOOLEAN -> "go", "exit", or "ignore" for an address of -ignore-path]]
\*   [op |-> "addr", vals |-> the offset an input computes, for each of the
\*    bases it may be relative to: none, one or two]
\*   [op |-> "conc", val |-> the value of the expression that
\*    -concretize-expr names, rand |-> the value the generator gives]
\*   [op |-> "mark"], the address of -ignore-pc-till, by default where the
\*    exploration starts
\* Expressions that are the same function are the same expression.

VARIABLES
    cfg,         \* the configuration
    nodes,       \* the table of nodes
    cur,         \* the node of the current path
    cur_query,   \* the node at which the current query began
    path_cond,   \* the conditions of the path
    ignored,     \* those of them that prune_pathcond drops
    ip,          \* the next step of the program
    addr,        \* the address that is being picked: [base, bit, saved]
    concrete_cache, \* the offsets picked on this path: [of, bits]
    global,      \* global_ce_cache
    working,     \* working_ce_cache
    new_path,    \* working is yet to be filled
    tests,       \* the tests written: [pc, kept, ce, input]
    iteration,   \* how many
    mode,        \* "run"; "finish", "ignore", "cut": at the end of a path, where
                 \* "cut" is between a decision and the record of its condition;
                 \* "done", "limit", "stopped", "solver", "died"
    fails,       \* how often the solver may still fail
    signals      \* how many signals may still arrive

vars == <<cfg, nodes, cur, cur_query, path_cond, ignored, ip, addr, concrete_cache,
          global, working, new_path, tests, iteration, mode, fails, signals>>

-----------------------------------------------------------------------------
(* Nodes. *)

None == -1      \* unexplored; no query
Unsat == 0      \* a child that is not there

new_dt_node(i, p) ==
    [ident |-> i, parent |-> p, f |-> None, t |-> None, all_seen |-> FALSE,
     query_children |-> None, query_counted |-> FALSE, eip_loc |-> None]

Nodes ==
    [ident : Nat, parent : Nat, f : Int, t : Int, all_seen : BOOLEAN,
     query_children : Int, query_counted : BOOLEAN, eip_loc : Int]
Tables == Seq(Nodes)

child(n, b) == IF b THEN n.t ELSE n.f

\* The tree as the methods see it; t = <<>> after a failed assertion.
Tree == [t |-> nodes, cur |-> cur, query |-> cur_query]
Failed == [t |-> <<>>, cur |-> cur, query |-> cur_query]
ok(S) == S.t # <<>>

update_dt_node(T, n) == [T EXCEPT ![n.ident] = n]

\* cur is changed and written back; cur_query is the same object while no step
\* was taken since start_new_query.
put_cur_Bug(S, n) == [S EXCEPT !.t = update_dt_node(@, n), !.cur = n]
put_cur(S, n) ==
    [t |-> update_dt_node(S.t, n), cur |-> n,
     query |-> IF S.query.ident = n.ident THEN n ELSE S.query]

put_child(n, b, k) == IF b THEN [n EXCEPT !.t = k] ELSE [n EXCEPT !.f = k]

add_kid(S, b) ==
    IF ~ok(S) \/ S.cur.all_seen \/ child(S.cur, b) = Unsat THEN Failed
    ELSE IF child(S.cur, b) # None THEN S
    ELSE LET i == Len(S.t) + 1
         IN  put_cur([S EXCEPT !.t = Append(@, new_dt_node(i, S.cur.ident))],
                     put_child(S.cur, b, i))

extend(S, b) ==
    LET S1 == add_kid(S, b)
    IN  IF ok(S1) THEN [S1 EXCEPT !.cur = S1.t[child(S1.cur, b)]] ELSE Failed

record_unsat(S, b) ==
    IF ~ok(S) \/ child(S.cur, b) \notin {None, Unsat} THEN Failed
    ELSE put_cur(S, put_child(S.cur, b, Unsat))

-----------------------------------------------------------------------------
(* Marking what has been seen.  The operators return a table, <<>> after a  *)
(* failed assertion.                                                        *)

Limit == cfg.limit

\* All children that are there are all_seen.
kids_seen(T, n) == \A k \in {n.f, n.t} : k > 0 => T[k].all_seen

\* Both children are explored or known not to be there.
closed(T, n) == n.f # None /\ n.t # None /\ kids_seen(T, n)

mark(T, n) ==
    IF T # <<>> /\ kids_seen(T, n)
    THEN update_dt_node(T, [n EXCEPT !.all_seen = TRUE])
    ELSE <<>>

query_parent(T, n0) ==
    LET above[n \in Nodes] == IF n.query_children # None THEN n ELSE above[T[n.parent]]
    IN  above[n0]

\* Marks the nodes inside a query none of whose open ends is unseen.
internal_nodes_check(T0, n0) ==
    LET check[T \in Tables, n \in Nodes, top \in BOOLEAN] ==
            LET below(T1, k) == IF k > 0 THEN check[T1, T1[k], FALSE]
                                ELSE [t |-> T1, seen |-> TRUE]
                a == below(T, n.f)
                b == IF a.seen THEN below(a.t, n.t) ELSE a
            IN  IF n.all_seen THEN [t |-> T, seen |-> TRUE]
                ELSE IF n.query_children # None /\ ~top THEN [t |-> T, seen |-> FALSE]
                ELSE IF a.seen /\ b.seen THEN [t |-> mark(b.t, n), seen |-> TRUE]
                ELSE [t |-> b.t, seen |-> FALSE]
    IN  check[T0, n0, TRUE]

\* Marks a node, its ancestors as far as nothing below them is open, and the
\* query it belongs to when that has all the values it may have.
mark_all_seen_node(T0, n0) ==
    LET marked[Ta \in Tables, n \in Nodes] ==
            LET T == mark(Ta, n)
                p == T[n.parent]
                up == ~p.all_seen /\ closed(T, p) /\ (p.f > 0 \/ p.t > 0)
                T1 == IF up THEN marked[T, p] ELSE T
                q == query_parent(T1, [p EXCEPT !.all_seen = @ \/ up])
                c == internal_nodes_check(T1, q)
            IN  IF T = <<>> \/ n.parent = 0 THEN T
                ELSE IF T1 = <<>> \/ q.query_children < Limit THEN T1
                ELSE IF q.query_children > Limit THEN <<>>
                ELSE IF c.seen THEN marked[c.t, q] ELSE c.t
    IN  marked[T0, n0]

maybe_mark_all_seen_node(T, n) ==
    IF T # <<>> /\ closed(T, n) THEN mark_all_seen_node(T, n) ELSE T

\* Gives up what is unexplored inside the query of n; returns the table and the
\* object n, which was read before what is below it changed.
finish_internal_nodes(T0, n0) ==
    LET close(m, b) == IF child(m, b) = None THEN put_child(m, b, Unsat) ELSE m
        finish[T \in Tables, n \in Nodes, top \in BOOLEAN] ==
            LET branch(T1, m, b) ==
                    IF T1 = <<>> \/ child(m, b) = Unsat THEN T1
                    ELSE IF child(m, b) = None THEN update_dt_node(T1, close(m, b))
                    ELSE finish[T1, T1[child(m, b)], FALSE].t
                n1 == close(n, FALSE)
                n2 == close(n1, TRUE)
                T2 == branch(branch(T, n, FALSE), n1, TRUE)
            IN  IF T = <<>> \/ (n.query_children # None /\ ~top) THEN [t |-> T, n |-> n]
                ELSE [t |-> maybe_mark_all_seen_node(T2, n2),
                      n |-> [n2 EXCEPT !.all_seen = @ \/ (T2 # <<>> /\ closed(T2, n2))]]
    IN  finish[T0, n0, TRUE]

-----------------------------------------------------------------------------
(* Queries: the decisions that pick one value. *)

start_new_query(S) ==
    IF S.cur.query_children = None THEN Failed ELSE [S EXCEPT !.query = S.cur]

start_new_query_binary(S) ==
    IF S.cur.query_children > 2 THEN Failed ELSE start_new_query(S)

\* A query has ended at cur: count its value, once, and close the query when it
\* has as many values as it may have.
count_value(S, again) ==
    LET c == [S.cur EXCEPT
                 !.query_children = IF @ = None THEN 0 ELSE @,
                 !.query_counted = TRUE]
        q == IF again THEN S.query
             ELSE [S.query EXCEPT !.query_children = @ + 1]
        T == update_dt_node(update_dt_node(S.t, q), c)
        F == finish_internal_nodes(T, q)
    IN  IF S.query.query_children = None
           \/ (~again /\ S.query.query_children >= Limit)
        THEN Failed
        ELSE IF q.query_children < Limit THEN [t |-> T, cur |-> c, query |-> q]
        ELSE [t |-> F.t, cur |-> c, query |-> F.n]

count_query_Bug(S) ==
    IF ~ok(S) \/ S.cur.ident = S.query.ident THEN S ELSE count_value(S, FALSE)
count_query(S) ==
    IF ~ok(S) \/ S.cur.ident = S.query.ident THEN S
    ELSE count_value(S, S.cur.query_counted)

-----------------------------------------------------------------------------
(* The program. *)

\* eip_ident tells decisions apart by the instruction, by whether they choose a
\* base (j = 0) or an offset, and by the bit; a branch has j = 0 as well.
eip_ident(i, j, k) == (3 * i + j) * AddrBits + k
step_of(loc) == loc \div (3 * AddrBits)
base_of(loc) == (loc \div AddrBits) % 3

bit_of(v, k) == (v \div 2^k) % 2

\* The inputs for which a decision comes out as b: whether a branch is taken,
\* or whether a bit of an offset is set.  The choice of a base has no condition.
sides ==
    [p \in DOMAIN Programs |->
        [loc \in (3 * AddrBits)..(3 * (Len(Programs[p]) + 1) * AddrBits - 1) |->
            LET s == Programs[p][step_of(loc)]
                j == base_of(loc)
            IN  [b \in BOOLEAN |->
                    CASE s.op = "cjmp" -> {x \in Inputs : (x \in s.on) = b}
                      [] s.op = "addr" /\ j \in DOMAIN s.vals ->
                           {x \in Inputs : (bit_of(s.vals[j][x], loc % AddrBits) = 1) = b}
                      [] OTHER -> Inputs]]]
side(loc, b) == sides[cfg.prog][loc][b]

program == Programs[cfg.prog]
step == program[ip]

\* random_case_split: the choice among two bases.
is_choice(loc) == step.op = "addr" /\ base_of(loc) = 0

-----------------------------------------------------------------------------
(* The path condition. *)

\* The inputs that satisfy the conditions P.
Sat(P) == {x \in Inputs : \A c \in P : x \in c}
possible == Sat(path_cond)

\* The -extra-conditions: each pins some bits of a variable to the snapshot's.
pinned(m, v) ==
    {x \in Inputs : \A k \in 0..(Bits - 1) :
        bit_of(m[v], k) = 1 => bit_of(x[v], k) = bit_of(Snapshot[v], k)}
extra_conditions(c) == {pinned(c.mask, v) : v \in {w \in Vars : c.mask[w] # 0}}

\* The first so many conditions of the list, newest first, are those that were
\* recorded after the mark; none is recorded twice.
prune_pathcond == path_cond \ ignored

-----------------------------------------------------------------------------
(* The solver and its caches.  The solver is deterministic.                 *)

solver(C) == CHOOSE x \in C : TRUE

\* working_ce_cache when a query is made: the first query of a path fills it,
\* unless the path condition is still empty.
working_cache ==
    IF ~new_path THEN working
    ELSE IF path_cond = {} THEN {} ELSE global \cap possible

\* The counterexamples a query for the inputs C (not empty) may return.
answers_Bug(C) == IF working_cache # {} THEN working_cache ELSE {solver(C)}
answers(C) ==
    IF working_cache \cap C # {} THEN working_cache \cap C ELSE {solver(C)}

\* The caches after queries that were answered with X.
put_cache(X) ==
    /\ working' = IF cfg.nocache THEN {} ELSE working_cache \cup X
    /\ global' = IF cfg.nocache THEN {} ELSE global \cup X
    /\ new_path' = FALSE

-----------------------------------------------------------------------------
(* try_extend: which branch to take at cur.  A plan says whether the branch *)
(* b is "known", must be checked alone, or with its sibling ("both").       *)

plan(k, b) == [how |-> k, b |-> b]

plans(S, limited) ==
    LET f == S.cur.f
        t == S.cur.t
        seen(k) == S.t[k].all_seen
        both == {plan("both", b) : b \in BOOLEAN}
        known(b) == {plan("known", b)}
    IN  CASE f > 0 /\ t > 0 ->
                 {plan("known", b) : b \in {x \in BOOLEAN : ~seen(child(S.cur, x))}}
          [] f > 0 /\ t = Unsat -> IF seen(f) THEN {} ELSE known(FALSE)
          [] f = Unsat /\ t > 0 -> IF seen(t) THEN {} ELSE known(TRUE)
          [] f = Unsat /\ t = Unsat -> {}
          [] f > 0 /\ t = None -> IF limited THEN known(FALSE)
                                  ELSE IF seen(f) THEN {plan("boring", TRUE)}
                                  ELSE both
          [] f = None /\ t > 0 -> IF limited THEN known(TRUE)
                                  ELSE IF seen(t) THEN {plan("boring", FALSE)}
                                  ELSE both
          [] f = None /\ t = Unsat -> {plan("check", FALSE)}
          [] f = Unsat /\ t = None -> {plan("check", TRUE)}
          [] OTHER -> IF limited THEN {} ELSE both

\* Outcomes: the tree, the branch taken, the counterexamples that the solver
\* found, whether it was asked, and how it went.
outcome(S, b, X, asked, how) ==
    [s |-> S, b |-> b, found |-> X, asked |-> asked,
     how |-> IF ok(S) THEN how ELSE "failed"]

\* quick_check_in_path_cond answers for a condition that is recorded, and for
\* the negation of one; the choice of a base asks nothing.
asks(loc, b) ==
    /\ ~is_choice(loc)
    /\ side(loc, b) \notin path_cond
    /\ b \/ side(loc, TRUE) \notin path_cond

\* The inputs that go on with b; the answer about them; what may stop it: the
\* solver fails, or a signal comes.
ways(loc, b) == possible \cap side(loc, b)
found(loc, b) ==
    IF ways(loc, b) = {} \/ ~asks(loc, b) THEN {{}} ELSE {{x} : x \in answers(ways(loc, b))}
may_fail(C) == fails > 0 /\ working_cache \cap C = {}
stops(loc, b) ==
    {h \in {"solver", "signal"} :
        /\ asks(loc, b)
        /\ IF h = "solver" THEN may_fail(ways(loc, b)) ELSE signals > 0}

\* Both branches are tried, b first.
try_both_Bug(S, loc, b) ==
    LET C == ways(loc, b)
        S1 == record_unsat(S, IF C = {} THEN b ELSE ~b)
        taken == IF C # {} THEN b ELSE ~b
    IN  {outcome(extend(S1, taken), taken, X, asks(loc, b), "tried") : X \in found(loc, b)}
try_both(S, loc, b) ==
    LET C == ways(loc, b)
        D == ways(loc, ~b)
        S1 == IF C # {} THEN S ELSE record_unsat(S, b)
        S2 == IF D # {} THEN add_kid(S, ~b) ELSE record_unsat(S, ~b)
        asked == asks(loc, b) \/ asks(loc, ~b)
    IN  {outcome(IF C # {} THEN extend(S2, b)
                 ELSE IF D # {} THEN extend(S1, ~b) ELSE Failed,
                 IF C # {} THEN b ELSE ~b, X \cup Y, asked, "tried") :
            X \in found(loc, b), Y \in found(loc, ~b)}
        \cup {outcome(S, b, {}, TRUE, h) : h \in stops(loc, b)}
        \cup {outcome(S1, b, X, TRUE, h) : X \in found(loc, b), h \in stops(loc, ~b)}

\* One branch is tried; the other one is known to be impossible ("check"), or
\* has all been seen ("boring"), where cur is marked before it is extended.
try_one(S, loc, b) ==
    {outcome(IF ways(loc, b) # {} THEN extend(S, b) ELSE Failed, b, X, asks(loc, b), "tried") :
        X \in found(loc, b)}
    \cup {outcome(S, b, {}, TRUE, h) : h \in stops(loc, b)}

try_extend(S0, loc) ==
    LET S == put_cur(S0, [S0.cur EXCEPT !.eip_loc = loc])
        P == plans(S, S.query.query_children >= Limit)
        follow(p) ==
            CASE p.how = "known" -> {outcome(extend(S, p.b), p.b, {}, FALSE, "known")}
              [] p.how = "both" -> try_both(S, loc, p.b)
              [] OTHER -> try_one(S, loc, p.b)
    IN  IF \/ ~ok(S0) \/ S0.cur.all_seen
           \/ S0.cur.eip_loc \notin {None, loc}
           \/ P = {}
        THEN {outcome(Failed, FALSE, {}, FALSE, "known")}
        ELSE UNION {follow(p) : p \in P}

-----------------------------------------------------------------------------
(* The machine. *)

Idle == [base |-> 0, bit |-> None, saved |-> {}]

Init ==
    /\ cfg \in Configs
    /\ nodes = <<[new_dt_node(1, 0) EXCEPT !.query_children = 0]>>
    /\ cur = nodes[1]
    /\ cur_query = nodes[1]
    /\ path_cond = extra_conditions(cfg)
    /\ ignored = {}
    /\ ip = 1
    /\ addr = Idle
    /\ concrete_cache = {}
    /\ global = {}
    /\ working = {}
    /\ new_path = FALSE
    /\ tests = {}
    /\ iteration = 0
    /\ mode = "run"
    /\ fails = cfg.fails
    /\ signals = cfg.signals

\* The path goes on, or reaches an exit, an ignored address or the end.
proceed(next) ==
    /\ mode' = CASE next = "ignore" -> "ignore"
                 [] next # "ignore" /\ (next = "exit" \/ ip = Len(program)) -> "finish"
                 [] OTHER -> "run"
    /\ ip' = IF mode' = "run" THEN ip + 1 ELSE ip

put_tree(S) ==
    /\ nodes' = S.t
    /\ cur' = S.cur
    /\ cur_query' = S.query

\* The decision is the last one of its query.
ends_query(loc) == step.op = "cjmp" \/ (base_of(loc) # 0 /\ loc % AddrBits = 0)

\* restore_path_cond: the conditions when the first bit of an offset is decided.
saved_pc == IF addr.bit = None THEN path_cond ELSE addr.saved

\* The value that a decision fixes an offset to, and the condition that says so.
picked(loc, b) ==
    CHOOSE v \in {step.vals[base_of(loc)][x] : x \in ways(loc, b)} : TRUE
equal(j, v) == {x \in Inputs : step.vals[j][x] = v}

\* The path condition after a decision: its condition is added, and those of the
\* bits of an offset give way to one for the offset.
recorded(loc, b) ==
    IF is_choice(loc) THEN path_cond
    ELSE IF step.op = "addr" /\ ends_query(loc)
    THEN saved_pc \cup {equal(base_of(loc), picked(loc, b))}
    ELSE path_cond \cup {side(loc, b)}

take(r, loc) ==
    /\ r.how \in {"known", "tried"}
    /\ put_tree(r.s)
    /\ path_cond' = recorded(loc, r.b)
    /\ IF ends_query(loc)
       THEN /\ addr' = Idle
            /\ proceed(IF step.op = "cjmp" THEN step.next[r.b] ELSE "go")
       ELSE /\ addr' = IF is_choice(loc) THEN [Idle EXCEPT !.base = IF r.b THEN 1 ELSE 2]
                       ELSE [base |-> base_of(loc), bit |-> (loc % AddrBits) - 1,
                             saved |-> saved_pc]
            /\ UNCHANGED <<ip, mode>>
    /\ concrete_cache' = IF step.op = "addr" /\ ends_query(loc)
                         THEN concrete_cache \cup {[of |-> step.vals[base_of(loc)],
                                                    bits |-> picked(loc, r.b)]}
                         ELSE concrete_cache
    /\ UNCHANGED <<fails, signals>>

\* SolverFailure ends the path with -nonfatal-solver, else the program; SIGUSR1
\* during a query ends the path.
stopped(r) ==
    /\ r.how \in {"solver", "signal"}
    /\ put_tree(r.s)
    /\ mode' = IF r.how = "signal" \/ cfg.nonfatal THEN "finish" ELSE "solver"
    /\ fails' = IF r.how = "solver" THEN fails - 1 ELSE fails
    /\ signals' = IF r.how = "signal" THEN signals - 1 ELSE signals
    /\ UNCHANGED <<path_cond, ip, addr, concrete_cache>>

\* An assertion or failwith ends the program.
fail(r) ==
    /\ r.how = "failed"
    /\ mode' = "died"
    /\ UNCHANGED <<nodes, cur, cur_query, path_cond, ip, addr, concrete_cache, fails, signals>>

\* SIGUSR1 when the tree has the decision and the path condition does not: it
\* comes before the condition is added, between restore_path_cond and the
\* condition of an offset, or before the query is counted.
cut(r, loc) ==
    /\ r.how \in {"known", "tried"}
    /\ ~is_choice(loc)
    /\ signals > 0
    /\ signals' = signals - 1
    /\ put_tree(r.s)
    /\ \/ /\ path_cond' \in {path_cond} \cup {P \in {saved_pc} : ends_query(loc)}
          /\ mode' = "cut"
       \/ /\ ends_query(loc)
          /\ path_cond' = recorded(loc, r.b)
          /\ mode' = "finish"
    /\ UNCHANGED <<ip, addr, concrete_cache, fails>>

\* One decision with the tree S.
decide(S, loc) ==
    LET counted(r) == IF ends_query(loc) /\ r.how \in {"known", "tried"}
                      THEN outcome(count_query(r.s), r.b, r.found, r.asked, r.how)
                      ELSE r
    IN  /\ mode = "run"
        /\ \E r \in try_extend(S, loc) :
              /\ \/ take(counted(r), loc) \/ stopped(r) \/ fail(counted(r))
                 \/ cut(r, loc)
              /\ IF r.asked THEN put_cache(r.found)
                 ELSE UNCHANGED <<working, global, new_path>>
        /\ UNCHANGED <<cfg, ignored, tests, iteration>>

eval_cjmp ==
    /\ step.op = "cjmp"
    /\ decide(start_new_query_binary(Tree), eip_ident(ip, 0, 0))

\* The base that an offset is relative to; 0 if it is yet to be chosen.
chosen == IF step.op = "addr" /\ Len(step.vals) = 1 THEN 1 ELSE addr.base
\* The tree, in the query of this address.
in_query == IF addr = Idle THEN start_new_query(Tree) ELSE Tree

\* region_expr: one of two symbols is chosen as the base.
choose_base ==
    /\ step.op = "addr"
    /\ Len(step.vals) = 2 /\ chosen = 0
    /\ decide(in_query, eip_ident(ip, 0, 0))

\* The bits of an offset that was not picked before, from the highest.
choose_conc_offset_uniform ==
    /\ step.op = "addr"
    /\ chosen # 0
    /\ addr.bit = None => \A c \in concrete_cache : c.of # step.vals[chosen]
    /\ decide(in_query,
              eip_ident(ip, chosen, IF addr.bit = None THEN AddrBits - 1 ELSE addr.bit))

\* An offset that was picked before on this path is picked again.
reuse_offset ==
    /\ mode = "run"
    /\ step.op = "addr"
    /\ chosen # 0 /\ addr.bit = None
    /\ \E c \in concrete_cache :
          /\ c.of = step.vals[chosen]
          /\ path_cond' = path_cond \cup {equal(chosen, c.bits)}
    /\ LET S == count_query(in_query)
       IN  IF ok(S) THEN put_tree(S) /\ proceed("go")
           ELSE mode' = "died" /\ UNCHANGED <<nodes, cur, cur_query, ip>>
    /\ addr' = Idle
    /\ UNCHANGED <<cfg, ignored, concrete_cache, global, working, new_path, tests,
                   iteration, fails, signals>>

\* An address without a base: NullDereference ends the path.
null_dereference ==
    /\ mode = "run"
    /\ step.op = "addr"
    /\ Len(step.vals) = 0
    /\ put_tree(start_new_query(Tree))
    /\ mode' = "finish"
    /\ UNCHANGED <<cfg, path_cond, ignored, ip, addr, concrete_cache, global, working,
                   new_path, tests, iteration, fails, signals>>

eval_addr_exp ==
    choose_base \/ choose_conc_offset_uniform \/ reuse_offset \/ null_dereference

\* The hook of -concretize-expr: the random value if the path condition allows
\* it, else the value in a counterexample, if there is one.
concretize ==
    LET same(v) == {x \in Inputs : step.val[x] = v}
        C == possible \cap same(step.rand)
    IN  /\ mode = "run"
        /\ step.op = "conc"
        /\ \/ \E x \in answers(IF C # {} THEN C ELSE possible) :
                 /\ possible # {}
                 /\ put_cache({x})
                 /\ path_cond' = path_cond \cup
                        {same(IF C # {} THEN step.rand ELSE step.val[x])}
                 /\ proceed("go")
                 /\ UNCHANGED fails
           \/ /\ may_fail(C) \/ (C = {} /\ may_fail(possible))
              /\ put_cache({})
              /\ mode' = IF cfg.nonfatal THEN "finish" ELSE "solver"
              /\ fails' = fails - 1
              /\ UNCHANGED <<path_cond, ip>>
           \/ /\ possible = {}
              /\ mode' = "died"
              /\ UNCHANGED <<global, working, new_path, path_cond, ip, fails>>
        /\ UNCHANGED <<cfg, nodes, cur, cur_query, ignored, addr, concrete_cache, tests,
                       iteration, signals>>

\* The hook at the address of -ignore-pc-till.
mark_ignored ==
    /\ mode = "run"
    /\ step.op = "mark"
    /\ ignored' = path_cond
    /\ proceed("go")
    /\ UNCHANGED <<cfg, nodes, cur, cur_query, path_cond, addr, concrete_cache, global,
                   working, new_path, tests, iteration, fails, signals>>

\* SIGUSR1 between two decisions ends the path, and the program when no path is
\* running; SIGINT, SIGHUP, SIGTERM and SIGQUIT end the loop, wherever they come.
signal(usr1) ==
    /\ mode \in {"run", "finish", "cut", "ignore"}
    /\ signals > 0
    /\ signals' = signals - 1
    /\ mode' = IF ~usr1 THEN "stopped" ELSE IF mode = "run" THEN "finish" ELSE "died"
    /\ UNCHANGED <<cfg, nodes, cur, cur_query, path_cond, ignored, ip, addr, concrete_cache,
                   global, working, new_path, tests, iteration, fails>>

-----------------------------------------------------------------------------
(* The test of a path. *)

flip(v, k) == IF bit_of(v, k) = 1 THEN v - 2^k ELSE v + 2^k

\* The bits in which ctx[x] differs from the preferred value, from the lowest,
\* are flipped where the conditions, satisfied by the inputs pc, allow it.
refine_bit_Bug(pc, ctx, x, k) ==
    LET c == [ctx EXCEPT ![x] = flip(@, k)] IN IF c \in pc THEN c ELSE ctx
refine_bit(pc, ctx, x, k) ==
    LET c == [ctx EXCEPT ![x] = flip(@, k)]
    IN  IF bit_of(ctx[x], k) # bit_of(Snapshot[x], k) /\ c \in pc THEN c ELSE ctx
refine_bits(pc, ctx, x) ==
    LET refined[k \in 0..Bits] ==
            IF k = 0 THEN ctx ELSE refine_bit(pc, refined[k - 1], x, k - 1)
    IN  refined[Bits][x]

compute_preferred_value_Bug(pc, ctx, x) == Snapshot[x]
compute_preferred_value(pc, ctx, x) ==
    IF [ctx EXCEPT ![x] = Snapshot[x]] \in pc THEN Snapshot[x]
    ELSE refine_bits(pc, ctx, x)

\* vars_in_pathcond: x occurs in one of the conditions P.  A condition is taken
\* to depend on the variables it mentions.
occurs(P, x) ==
    \E c \in P : \E ctx \in c : \E v \in 0..(2^Bits - 1) : [ctx EXCEPT ![x] = v] \notin c

\* The variables of the conditions P are written, those with a preferred value
\* refined, each in a copy of the counterexample.  The others keep the values
\* they have in the snapshot.
assemble_testcase(P, ctx) ==
    [x \in Vars |->
        IF ~occurs(P, x) THEN Snapshot[x]
        ELSE IF x \in Preferred THEN compute_preferred_value(Sat(P), ctx, x)
        ELSE ctx[x]]

-----------------------------------------------------------------------------
(* The end of a path. *)

\* The hook writes a test, unless the address is ignored, and forgets the mark.
hook ==
    /\ \/ /\ mode = "ignore"
          /\ UNCHANGED <<tests, iteration, global>>
       \/ /\ mode \in {"finish", "cut"}
          /\ possible # {}
          /\ \E ce \in answers(possible) :
                /\ tests' = tests \cup
                       {[pc |-> possible, kept |-> Sat(prune_pathcond), ce |-> ce,
                         input |-> assemble_testcase(prune_pathcond, ce)]}
                /\ global' = IF cfg.nocache THEN {} ELSE global \cup {ce}
          /\ iteration' = iteration + 1
    /\ ignored' = {}

reset(T) ==
    /\ cur' = T[1]
    /\ cur_query' = T[1]
    /\ path_cond' = extra_conditions(cfg)
    /\ ip' = 1
    /\ addr' = Idle
    /\ concrete_cache' = {}
    /\ working' = {}
    /\ new_path' = TRUE

\* After the hook: TooManyIterations, or go on with the next path in the table T
\* unless all has been seen or the time is over.
end_path(T) ==
    /\ hook
    /\ IF iteration' >= cfg.most \/ T = <<>>
       THEN /\ mode' = IF iteration' >= cfg.most THEN "limit" ELSE "died"
            /\ UNCHANGED <<nodes, cur, cur_query, path_cond, ip, addr, concrete_cache,
                           working, new_path>>
       ELSE /\ nodes' = T
            /\ reset(T)
            /\ mode' \in IF T[1].all_seen THEN {"done"}
                         ELSE {"run"} \cup {m \in {"stopped"} : cfg.timeout}
    /\ UNCHANGED <<cfg, fails, signals>>

finish_path_Bug ==
    end_path(IF mode = "ignore" THEN nodes ELSE mark_all_seen_node(nodes, cur))
finish_path == end_path(mark_all_seen_node(nodes, cur))

\* The hook cannot solve the path condition: the solver fails, which nothing
\* catches here, or finds it unsatisfiable, which is an assertion.
finish_path_fails ==
    /\ mode \in {"finish", "cut"}
    /\ \/ /\ may_fail(possible)
          /\ mode' = "solver"
          /\ fails' = fails - 1
       \/ /\ possible = {}
          /\ mode' = "died"
          /\ UNCHANGED fails
    /\ UNCHANGED <<cfg, nodes, cur, cur_query, path_cond, ignored, ip, addr, concrete_cache,
                   global, working, new_path, tests, iteration, signals>>

Running == mode \in {"run", "finish", "cut", "ignore"}

Explore ==
    \/ eval_cjmp \/ eval_addr_exp \/ concretize \/ mark_ignored
    \/ finish_path \/ finish_path_fails

Next == Explore \/ \E usr1 \in BOOLEAN : signal(usr1)

Spec == Init /\ [][Next]_vars /\ WF_vars(Explore)

-----------------------------------------------------------------------------
(* What the exploration promises. *)

\* What a step decides, where the path of an input ends, and the inputs that
\* share the path.
decisions ==
    [p \in DOMAIN Programs |-> [i \in DOMAIN Programs[p] |->
        LET s == Programs[p][i]
        IN  [x \in Inputs |->
                CASE s.op = "cjmp" -> <<x \in s.on>>
                  [] s.op = "addr" -> [j \in DOMAIN s.vals |-> s.vals[j][x]]
                  [] s.op = "conc" -> <<s.val[x]>>
                  [] OTHER -> <<>>]]]
decision(p, i, x) == decisions[p][i][x]
after(p, i, x) ==
    LET s == Programs[p][i]
    IN  IF s.op = "cjmp" /\ s.next[(x \in s.on)] # "go" THEN s.next[(x \in s.on)]
        ELSE IF i = Len(Programs[p]) \/ (s.op = "addr" /\ s.vals = <<>>) THEN "exit"
        ELSE "go"
length(p, x) ==
    Min({i \in DOMAIN Programs[p] : after(p, i, x) # "go"})
classes ==
    [p \in DOMAIN Programs |-> [x \in Inputs |->
        {y \in Inputs : \A i \in 1..length(p, x) : decision(p, i, x) = decision(p, i, y)}]]
admitted == [c \in Configs |-> Sat(extra_conditions(c))]
allowed(c) == admitted[c]
class(c, x) == classes[c.prog][x] \cap allowed(c)
silent(c, x) == after(c.prog, length(c.prog, x), x) = "ignore"

\* An input is settled when its ways through the tree, one for each base that
\* may be chosen, reach a node that is all_seen or a branch that is not there.
settled(x) ==
    LET from[k \in DOMAIN nodes] ==
            LET n == nodes[k]
            IN  \/ n.all_seen
                \/ /\ n.eip_loc # None
                   /\ \A b \in BOOLEAN : x \in side(n.eip_loc, b) =>
                         LET c == child(n, b) IN c = Unsat \/ (c > 0 /\ from[c])
    IN  from[1]

ops(c) == {Programs[c.prog][i].op : i \in DOMAIN Programs[c.prog]}
concretizes == "conc" \in ops(cfg)
chooses(c) ==
    \E i \in DOMAIN Programs[c.prog] :
        Programs[c.prog][i].op = "addr" /\ Len(Programs[c.prog][i].vals) = 2
losses ==
    [c \in Configs |-> \/ c.fails + c.signals > 0
                       \/ c.timeout
                       \/ c.limit < 2^AddrBits
                       \/ "conc" \in ops(c) \/ chooses(c)]
lossy(c) == losses[c]
most(c) == c.most

Promise == INSTANCE Enumeration WITH
    program <- cfg, Lossy <- lossy, Most <- most,
    Allowed <- allowed, Class <- class, Silent <- silent,
    left <- {x \in allowed(cfg) : ~settled(x)},
    torn <- mode = "cut",
    reported <- {t.pc : t \in tests},
    ended <- ~Running

\* The tree, the solver and the loop over paths enumerate the paths of the
\* program: every iteration finishes one new path and writes its exact path
\* condition, a path is written at most once, and the exploration says it is
\* done (try_again_p) only when every input follows a path that was finished.
\* With a limit, a fault or a concretized value inputs are lost, but none is
\* seen again.  With a choice of bases an input has a path for each of them, and
\* is left until all were finished.  Only where SIGUSR1 comes between a decision
\* and the record of its condition is a test written for inputs that were seen
\* before, and then not only for such.
EnumeratesPaths == Promise!Spec

\* The assertions of the tree hold and the path condition stays satisfiable
\* ("FuzzBALL must always reach the same decision points in the same order when
\* re-executing a path", sym_path_frag_machine.ml): no path is cut down to
\* nothing, also where a value was concretized with a counterexample that the
\* cache returned.  The program dies only after a signal, or a solver that
\* failed in a concretization, cut a path short at a node with an unseen child
\* ("a node can only be marked all_seen if all of its children are").
StaysFeasible ==
    /\ Running => possible # {}
    /\ mode = "died" => \/ signals < cfg.signals
                        \/ concretizes /\ fails < cfg.fails

\* At every decision the two decoded copies of nodes agree with the table
\* (get_dt_node returns a copy that every writer must write back).
CopiesInSync ==
    mode = "run" => /\ cur = nodes[cur.ident]
                    /\ cur_query = nodes[cur_query.ident]

reach(k0) ==
    LET at[k \in DOMAIN nodes] ==
            LET p == nodes[nodes[k].parent]
            IN  IF k = 1 THEN allowed(cfg) ELSE at[p.ident] \cap side(p.eip_loc, p.t = k)
    IN  at[k0]

\* query_children counts the values of a query: never more than there are, or
\* than -query-branch-limit allows, and exactly that many once the query is
\* all_seen, however often its values are visited again.
QueryCounts ==
    (~concretizes /\ fails = cfg.fails /\ signals = cfg.signals) =>
        \A k \in DOMAIN nodes :
            LET n == nodes[k]
                i == step_of(n.eip_loc)
                v == Cardinality({<<j, decision(cfg.prog, i, x)[j]>> :
                                     j \in DOMAIN decision(cfg.prog, i, Snapshot), x \in reach(k)})
                m == IF v < Limit THEN v ELSE Limit
            IN  n.eip_loc # None /\ n.query_children # None =>
                    /\ n.query_children <= m
                    /\ n.all_seen => n.query_children = m

\* Each value of a test, put alone into the counterexample, satisfies the
\* conditions recorded after the mark, which are the ones that prune_pathcond
\* passes to assemble_testcase, and a variable that could have its preferred
\* value has it.  Of the conditions before the mark nothing is claimed.
EachValueFollows ==
    \A t \in tests : \A x \in Vars :
        /\ [t.ce EXCEPT ![x] = t.input[x]] \in t.kept
        /\ (x \in Preferred /\ [t.ce EXCEPT ![x] = Snapshot[x]] \in t.kept)
              => t.input[x] = Snapshot[x]

\* The refinement does not look at the -extra-conditions, which are recorded
\* before the mark, yet every test satisfies them: the bits that the mask of
\* make_reg_symbolic and make_mem_symbolic pins have the snapshot's values in
\* the counterexample, and refinement only moves bits towards those.
PinnedBitsKept == \A t \in tests : t.input \in allowed(cfg)

\* A test follows the path it was written for, as far as the conditions that the
\* refinement checks go ("the bit is irrelevant, keep it flipped (as in the
\* preferred value)", emu_fuzzball.ml).
TestsFollowPath == \A t \in tests : t.input \in t.kept
=============================================================================
